---------------------------- MODULE PathTrieProofs ----------------------------
(***************************************************************************)
(* Lists of paths become nested directories: what is accepted and what is  *)
(* built, for lists of any length, paths of any depth and any order.       *)
(***************************************************************************)
EXTENDS LocalInput, ListProofs, FiniteSetTheorems

-----------------------------------------------------------------------------
(* The inductive invariant.                                                *)

Work == Order(tool, given)

(* What the first n of the list leave in the tree.                         *)
EntriesOf(list, n) == {list[i] : i \in {j \in 1 .. n : list[j].kind # "dir"}}
GroupsOf(list, n) ==
    (UNION {Above(list[i].path) : i \in 1 .. n})
      \cup {list[i].path : i \in {j \in 1 .. n : list[j].kind = "dir"}}
Apart(list, n) ==
    \A i, j \in 1 .. n : i # j => ~IsPrefixOf(list[i].path, list[j].path)

Mounted(n) == n = 1 /\ Len(Work) = 1 /\ IsRoot(Work[1])
Inserted(n) ==
    /\ \A i \in 1 .. n : Usable(Work[i])
    /\ tool # "serializer" => Apart(Work, n)

(* n of them are done.                                                     *)
Progress(n) ==
    /\ Len(todo) = Len(Work) - n
    /\ \A i \in 1 .. Len(todo) : todo[i] = Work[n + i]
    /\ entries = EntriesOf(Work, n) /\ groups = GroupsOf(Work, n)
    /\ Mounted(n) \/ Inserted(n)

Fine(list) == AllUsable(list) /\ (tool = "serializer" \/ Disjoint(list))

TrieInv ==
    /\ Suits(tool, given) /\ todo \in Seq(Entries)
    /\ verdict \in {"building", "rejected", "accepted"}
    /\ \E n \in 0 .. Len(Work) : Progress(n)
    /\ verdict = "rejected" => ~Fine(Work)
    /\ verdict = "accepted" => todo = <<>>

-----------------------------------------------------------------------------
(* Paths.                                                                  *)

(* What lies above a path is a proper prefix of it.                        *)
LEMMA AboveIsPrefix ==
    ASSUME NEW C, NEW p \in Seq(C), NEW q \in Seq(C), p # <<>>
    PROVE  /\ IsPrefixOf(p, q) <=> p = q \/ p \in Above(q)
           /\ p \in Above(q) => Len(p) < Len(q)
  <1>1. Len(p) \in Nat \ {0} /\ Len(q) \in Nat /\ DOMAIN p = 1 .. Len(p)
    OBVIOUS
  <1>2. ASSUME p \in Above(q) PROVE Len(p) < Len(q) /\ IsPrefixOf(p, q)
    <2>1. PICK n \in 1 .. Len(q) - 1 : p = SubSeq(q, 1, n)
      BY <1>2 DEF Above
    <2>2. n \in 1 .. Len(q) /\ n < Len(q)
      BY <1>1
    <2>3. Len(p) = n /\ \A i \in 1 .. n : p[i] = q[i]
      BY <2>1, <2>2, CutAt
    <2> QED BY <1>1, <2>2, <2>3 DEF IsPrefixOf
  <1>3. IsPrefixOf(p, p)
    BY <1>1 DEF IsPrefixOf
  <1>4. ASSUME IsPrefixOf(p, q), p # q PROVE p \in Above(q)
    <2>1. Len(p) <= Len(q) /\ \A i \in 1 .. Len(p) : p[i] = q[i]
      BY <1>1, <1>4 DEF IsPrefixOf
    <2>2. Len(p) # Len(q)
      BY <1>4, <2>1, SameList
    <2>3. Len(p) \in 1 .. Len(q) - 1 /\ Len(p) \in 1 .. Len(q)
      BY <1>1, <2>1, <2>2
    <2>4. /\ SubSeq(q, 1, Len(p)) \in Seq(C) /\ Len(SubSeq(q, 1, Len(p))) = Len(p)
          /\ \A i \in 1 .. Len(p) : SubSeq(q, 1, Len(p))[i] = q[i]
      BY <2>3, CutAt
    <2>5. p = SubSeq(q, 1, Len(p))
      <3> DEFINE s == SubSeq(q, 1, Len(p))
      <3>1. s \in Seq(C) /\ Len(p) = Len(s) /\ \A i \in 1 .. Len(p) : p[i] = s[i]
        BY <2>1, <2>4
      <3> HIDE DEF s
      <3>2. p = s
        BY <3>1, SameList
      <3> QED BY <3>2 DEF s
    <2> QED BY <2>3, <2>5 DEF Above
  <1> QED BY <1>2, <1>3, <1>4

-----------------------------------------------------------------------------
(* The order in which a tool takes its list.                               *)

Permutes(k, work, list) ==
    /\ k \in [DOMAIN work -> DOMAIN list]
    /\ \A i, j \in DOMAIN work : k[i] = k[j] => i = j
    /\ \A i \in DOMAIN work : work[i] = list[k[i]]
    /\ \A m \in DOMAIN list : \E i \in DOMAIN work : k[i] = m

LEMMA TwoPlaces ==
    ASSUME NEW A, NEW list \in Seq(A), NEW a \in Seq(A), NEW b \in Seq(A),
           NEW S, NEW R, S \cap R = {}, A \subseteq S \cup R,
           NEW k, Places(k, a, list, Len(list), S),
           NEW h, Places(h, b, list, Len(list), R)
    PROVE  \E g : Permutes(g, a \o b, list)
  <1> DEFINE N == Len(list)
             La == Len(a)
             Lb == Len(b)
             w == a \o b
             g == [i \in 1 .. La + Lb |-> IF i <= La THEN k[i] ELSE h[i - La]]
  <1>1. /\ N \in Nat /\ La \in Nat /\ Lb \in Nat
        /\ DOMAIN list = 1 .. N /\ DOMAIN a = 1 .. La /\ DOMAIN b = 1 .. Lb
        /\ DOMAIN w = 1 .. La + Lb
    OBVIOUS
  <1>2. /\ \A i \in 1 .. La : w[i] = a[i]
        /\ \A i \in 1 .. Lb : w[i + La] = b[i]
    OBVIOUS
  <1>3. \A m \in 1 .. N : list[m] \in S \cup R
    OBVIOUS
  <1> HIDE DEF N, La, Lb, w
  <1>4. \A i \in 1 .. La + Lb : i \in 1 .. La \/ (i > La /\ i - La \in 1 .. Lb /\ (i - La) + La = i)
    BY <1>1
  <1>5. /\ k \in [1 .. La -> 1 .. N] /\ h \in [1 .. Lb -> 1 .. N]
        /\ \A i, j \in 1 .. La : k[i] = k[j] => i = j
        /\ \A i, j \in 1 .. Lb : h[i] = h[j] => i = j
        /\ \A i \in 1 .. La : a[i] = list[k[i]] /\ a[i] \in S
        /\ \A i \in 1 .. Lb : b[i] = list[h[i]] /\ b[i] \in R
        /\ \A m \in 1 .. N : list[m] \in S => \E i \in 1 .. La : k[i] = m
        /\ \A m \in 1 .. N : list[m] \in R => \E i \in 1 .. Lb : h[i] = m
    <2>1. /\ k \in [1 .. La -> 1 .. N]
          /\ \A i, j \in 1 .. La : k[i] = k[j] => i = j
          /\ \A i \in 1 .. La : a[i] = list[k[i]] /\ a[i] \in S
          /\ \A m \in 1 .. N : list[m] \in S => \E i \in 1 .. La : k[i] = m
      BY <1>1 DEF Places, N
    <2>2. /\ h \in [1 .. Lb -> 1 .. N]
          /\ \A i, j \in 1 .. Lb : h[i] = h[j] => i = j
          /\ \A i \in 1 .. Lb : b[i] = list[h[i]] /\ b[i] \in R
          /\ \A m \in 1 .. N : list[m] \in R => \E i \in 1 .. Lb : h[i] = m
      BY <1>1 DEF Places, N
    <2> QED BY <2>1, <2>2
  <1>6. /\ \A i \in 1 .. La : g[i] = k[i] /\ i \in 1 .. La + Lb
        /\ \A i \in 1 .. Lb : g[i + La] = h[i] /\ i + La \in 1 .. La + Lb
    BY <1>1
  <1>7. g \in [1 .. La + Lb -> 1 .. N]
    BY <1>4, <1>5
  <1> HIDE DEF g
  <1>8. ASSUME NEW i \in 1 .. La + Lb
        PROVE  /\ w[i] = list[g[i]]
               /\ i \in 1 .. La => list[g[i]] \in S
               /\ i \notin 1 .. La => list[g[i]] \in R
    <2>1. CASE i \in 1 .. La
      BY <1>2, <1>5, <1>6, <2>1
    <2>2. CASE i \notin 1 .. La
      <3>1. i - La \in 1 .. Lb /\ (i - La) + La = i
        BY <1>4, <2>2
      <3>2. w[i] = b[i - La] /\ g[i] = h[i - La]
        BY <1>2, <1>6, <3>1
      <3> QED BY <1>5, <2>2, <3>1, <3>2
    <2> QED BY <2>1, <2>2
  <1>9. ASSUME NEW i \in 1 .. La + Lb, NEW j \in 1 .. La + Lb, g[i] = g[j]
        PROVE  i = j
    <2>1. i \in 1 .. La <=> j \in 1 .. La
      BY <1>8, <1>9
    <2>2. CASE i \in 1 .. La
      BY <1>5, <1>6, <1>9, <2>1, <2>2
    <2>3. CASE i \notin 1 .. La
      <3>1. /\ i - La \in 1 .. Lb /\ (i - La) + La = i
            /\ j - La \in 1 .. Lb /\ (j - La) + La = j
        BY <1>4, <2>1, <2>3
      <3>2. g[i] = h[i - La] /\ g[j] = h[j - La]
        BY <1>6, <3>1
      <3> DEFINE x == i - La
                 y == j - La
      <3>3. x \in 1 .. Lb /\ y \in 1 .. Lb /\ h[x] = h[y]
        BY <1>9, <3>1, <3>2
      <3> HIDE DEF x, y
      <3>4. x = y
        BY <1>5, <3>3
      <3>5. i - La = j - La
        BY <3>4 DEF x, y
      <3> QED BY <3>1, <3>5
    <2> QED BY <2>2, <2>3
  <1>10. ASSUME NEW m \in 1 .. N PROVE \E i \in 1 .. La + Lb : g[i] = m
    <2>1. CASE list[m] \in S
      <3>1. PICK i \in 1 .. La : k[i] = m
        BY <1>5, <2>1
      <3> QED BY <1>6, <3>1
    <2>2. CASE list[m] \in R
      <3>1. PICK i \in 1 .. Lb : h[i] = m
        BY <1>5, <2>2
      <3> QED BY <1>6, <3>1
    <2> QED BY <1>3, <2>1, <2>2
  <1>11. Permutes(g, w, list)
    BY <1>1, <1>7, <1>8, <1>9, <1>10 DEF Permutes
  <1> QED BY <1>11 DEF w

LEMMA OrderPermutes ==
    ASSUME NEW t \in {"filter", "composer", "serializer"}, NEW list \in Seq(Entries)
    PROVE  /\ Order(t, list) \in Seq(Entries)
           /\ \E k : Permutes(k, Order(t, list), list)
  <1> DEFINE S == Of({"file"})
             R == Of(Kinds \ {"file"})
  <1>1. S \cap R = {} /\ Entries \subseteq S \cup R /\ R \cap S = {} /\ Entries \subseteq R \cup S
    BY DEF Of, Entries
  <1> HIDE DEF S, R
  <1>2. Selected(list, S) \in Seq(Entries) /\ Selected(list, R) \in Seq(Entries)
    BY SelectedPlaces
  <1>3. PICK k : Places(k, Selected(list, S), list, Len(list), S)
    BY SelectedPlaces
  <1>4. PICK h : Places(h, Selected(list, R), list, Len(list), R)
    BY SelectedPlaces
  <1>5. CASE t = "filter"
    <2>1. Permutes([i \in DOMAIN list |-> i], list, list)
      BY DEF Permutes
    <2>2. Order(t, list) = list
      BY <1>5 DEF Order
    <2> QED BY <2>1, <2>2
  <1>6. CASE t = "composer"
    <2>1. Order(t, list) = Selected(list, S) \o Selected(list, R)
      BY <1>6 DEF Order, S, R
    <2>2. \E g : Permutes(g, Selected(list, S) \o Selected(list, R), list)
      BY <1>1, <1>2, <1>3, <1>4, TwoPlaces
    <2> QED BY <1>2, <2>1, <2>2
  <1>7. CASE t = "serializer"
    <2>1. Order(t, list) = Selected(list, R) \o Selected(list, S)
      BY <1>7 DEF Order, S, R
    <2>2. \E g : Permutes(g, Selected(list, R) \o Selected(list, S), list)
      BY <1>1, <1>2, <1>3, <1>4, TwoPlaces
    <2> QED BY <1>2, <2>1, <2>2
  <1> QED BY <1>5, <1>6, <1>7

(* Whether a list is fine, and whether it is a walk, does not depend on    *)
(* the order.                                                              *)
LEMMA PermutedIsFine ==
    ASSUME NEW work \in Seq(Entries), NEW list \in Seq(Entries),
           NEW k, Permutes(k, work, list)
    PROVE  /\ AllUsable(work) <=> AllUsable(list)
           /\ Disjoint(work) <=> Disjoint(list)
           /\ {work[i] : i \in DOMAIN work} = {list[i] : i \in DOMAIN list}
           /\ IsWalk(list) => IsWalk(work)
           /\ (\A i \in DOMAIN list : list[i].kind # "dir")
                => \A i \in DOMAIN work : work[i].kind # "dir"
  <1>1. /\ \A i \in DOMAIN work : k[i] \in DOMAIN list /\ work[i] = list[k[i]]
        /\ \A m \in DOMAIN list : \E i \in DOMAIN work : k[i] = m
        /\ \A i, j \in DOMAIN work : k[i] = k[j] => i = j
    BY DEF Permutes
  <1>2. ASSUME NEW m \in DOMAIN list
        PROVE  \E i \in DOMAIN work : k[i] = m /\ work[i] = list[m]
    <2>1. PICK i \in DOMAIN work : k[i] = m
      BY <1>1
    <2>2. work[i] = list[m]
      BY <1>1, <2>1
    <2> QED BY <2>1, <2>2
  <1>3. AllUsable(work) <=> AllUsable(list)
    BY <1>1, <1>2 DEF AllUsable
  <1>4. ASSUME Disjoint(list) PROVE Disjoint(work)
    <2>1. ASSUME NEW i \in DOMAIN work, NEW j \in DOMAIN work, i # j
          PROVE  ~IsPrefixOf(Position(work[i]), Position(work[j]))
      <3>1. /\ k[i] \in DOMAIN list /\ k[j] \in DOMAIN list /\ k[i] # k[j]
            /\ work[i] = list[k[i]] /\ work[j] = list[k[j]]
        BY <1>1, <2>1
      <3> QED BY <1>4, <3>1 DEF Disjoint
    <2> QED BY <2>1 DEF Disjoint
  <1>5. ASSUME Disjoint(work), NEW m \in DOMAIN list, NEW n \in DOMAIN list, m # n
        PROVE  ~IsPrefixOf(Position(list[m]), Position(list[n]))
    <2>1. PICK i \in DOMAIN work : k[i] = m /\ work[i] = list[m]
      BY <1>2
    <2>2. PICK j \in DOMAIN work : k[j] = n /\ work[j] = list[n]
      BY <1>2
    <2> QED BY <1>5, <2>1, <2>2 DEF Disjoint
  <1>6. {work[i] : i \in DOMAIN work} = {list[i] : i \in DOMAIN list}
    <2>1. ASSUME NEW i \in DOMAIN work PROVE work[i] \in {list[m] : m \in DOMAIN list}
      <3>1. k[i] \in DOMAIN list /\ work[i] = list[k[i]]
        BY <1>1
      <3> QED BY <3>1
    <2>2. \A m \in DOMAIN list : list[m] \in {work[i] : i \in DOMAIN work}
      BY <1>2
    <2> QED BY <2>1, <2>2
  <1>7. ASSUME IsWalk(list) PROVE IsWalk(work)
    <2>1. ASSUME NEW i \in DOMAIN work, work[i].kind = "dir" PROVE Usable(work[i])
      <3>1. k[i] \in DOMAIN list /\ work[i] = list[k[i]]
        BY <1>1
      <3> HIDE DEF Usable
      <3> QED BY <1>7, <2>1, <3>1 DEF IsWalk
    <2>2. ASSUME NEW i \in DOMAIN work, NEW j \in DOMAIN work,
                 i # j, Usable(work[i]), Usable(work[j])
          PROVE  /\ work[i].path # work[j].path
                 /\ work[i].path \in Above(work[j].path) => work[i].kind = "dir"
      <3>1. k[i] \in DOMAIN list /\ k[j] \in DOMAIN list /\ k[i] # k[j]
        BY <1>1, <2>2
      <3>2. work[i] = list[k[i]] /\ work[j] = list[k[j]]
        BY <1>1
      <3> HIDE DEF Usable, Above
      <3> QED BY <1>7, <2>2, <3>1, <3>2 DEF IsWalk
    <2> QED BY <2>1, <2>2 DEF IsWalk
  <1>8. ASSUME \A i \in DOMAIN list : list[i].kind # "dir", NEW i \in DOMAIN work
        PROVE  work[i].kind # "dir"
    <2>1. k[i] \in DOMAIN list /\ work[i] = list[k[i]]
      BY <1>1
    <2> QED BY <1>8, <2>1
  <1>9. Disjoint(list) <=> Disjoint(work)
    <2>1. Disjoint(work) => Disjoint(list)
      BY <1>5 DEF Disjoint
    <2> QED BY <1>4, <2>1
  <1> QED BY <1>3, <1>6, <1>7, <1>8, <1>9

(* The work list is as good as what was given.                             *)
LEMMA WorkSuits ==
    ASSUME Suits(tool, given)
    PROVE  /\ Work \in Seq(Entries)
           /\ Fine(Work) <=> Fine(given)
           /\ {Work[i] : i \in DOMAIN Work} = {given[i] : i \in DOMAIN given}
           /\ tool = "serializer" => IsWalk(Work)
           /\ tool # "serializer" => \A i \in DOMAIN Work : Work[i].kind # "dir"
  <1> DEFINE work == Order(tool, given)
  <1>1. tool \in {"filter", "composer", "serializer"} /\ given \in Seq(Entries)
    BY DEF Suits
  <1>2. work \in Seq(Entries) /\ \E k : Permutes(k, work, given)
    BY <1>1, OrderPermutes
  <1> HIDE DEF work
  <1>3. /\ AllUsable(work) <=> AllUsable(given)
        /\ Disjoint(work) <=> Disjoint(given)
        /\ {work[i] : i \in DOMAIN work} = {given[i] : i \in DOMAIN given}
        /\ IsWalk(given) => IsWalk(work)
        /\ (\A i \in DOMAIN given : given[i].kind # "dir")
             => \A i \in DOMAIN work : work[i].kind # "dir"
    BY <1>1, <1>2, PermutedIsFine
  <1>4. Fine(work) <=> Fine(given)
    BY <1>3 DEF Fine
  <1>5. /\ tool = "serializer" => IsWalk(given)
        /\ tool # "serializer" => \A i \in DOMAIN given : given[i].kind # "dir"
    BY DEF Suits
  <1>6. Work = work
    BY DEF Work, work
  <1> QED BY <1>2, <1>3, <1>4, <1>5, <1>6

-----------------------------------------------------------------------------
(* The beginning.                                                          *)

LEMMA BeginsWell ==
    ASSUME NEW t, NEW list, Suits(t, list), Begin(t, list)
    PROVE  TrieInv
  <1>1. /\ tool = t /\ given = list /\ todo = Work
        /\ entries = {} /\ groups = {} /\ verdict = "building"
    BY DEF Begin, Work
  <1>2. Suits(tool, given)
    BY <1>1
  <1>3. Work \in Seq(Entries)
    BY <1>2, WorkSuits
  <1>4. Len(Work) \in Nat /\ 0 \in 0 .. Len(Work) /\ \A i \in 1 .. 0 : FALSE
    BY <1>3
  <1>5. EntriesOf(Work, 0) = {} /\ GroupsOf(Work, 0) = {}
    BY <1>4 DEF EntriesOf, GroupsOf
  <1>6. Inserted(0)
    BY <1>4 DEF Inserted, Apart
  <1>7. Progress(0)
    <2> HIDE DEF Work
    <2>1. Len(todo) = Len(Work) - 0 /\ \A i \in 1 .. Len(todo) : todo[i] = Work[0 + i]
      BY <1>1, <1>4
    <2> QED BY <1>1, <1>5, <1>6, <2>1 DEF Progress
  <1> QED BY <1>1, <1>2, <1>3, <1>4, <1>7 DEF TrieInv

LEMMA InitSuits ==
    ASSUME Init
    PROVE  \E t, list : Suits(t, list) /\ Begin(t, list)
  <1>1. PICK list \in Lists : Begin("composer", list) \/ Begin("filter", list)
    BY DEF Init
  <1>2. list \in Seq([path : Seq(Names \cup Odd), kind : {"file", "tree"}])
    BY ListsAssumption
  <1>3. [path : Seq(Names \cup Odd), kind : {"file", "tree"}] \subseteq Entries
    BY DEF Entries, Kinds
  <1> DEFINE Plain == [path : Seq(Names \cup Odd), kind : {"file", "tree"}]
  <1>4. \A e \in Plain : e.kind # "dir"
    OBVIOUS
  <1>5. list \in Seq(Plain) /\ Plain \subseteq Entries
    BY <1>2, <1>3
  <1> HIDE DEF Plain
  <1>6. \A i \in DOMAIN list : list[i] \in Plain
    BY <1>5
  <1>7. list \in Seq(Entries)
    BY <1>5, <1>6
  <1>8. \A i \in DOMAIN list : list[i].kind # "dir"
    BY <1>4, <1>6
  <1>9. Suits("composer", list) /\ Suits("filter", list)
    BY <1>7, <1>8 DEF Suits
  <1> QED BY <1>1, <1>9

-----------------------------------------------------------------------------
(* One more.                                                               *)

LEMMA OneMoreEntry ==
    ASSUME NEW list, NEW n \in Nat
    PROVE  /\ list[n + 1].kind # "dir" =>
                EntriesOf(list, n + 1) = EntriesOf(list, n) \cup {list[n + 1]}
           /\ list[n + 1].kind = "dir" => EntriesOf(list, n + 1) = EntriesOf(list, n)
  <1>1. \A i : i \in 1 .. n + 1 <=> i \in 1 .. n \/ i = n + 1
    OBVIOUS
  <1> QED BY <1>1 DEF EntriesOf

LEMMA OneMoreGroup ==
    ASSUME NEW list, NEW n \in Nat
    PROVE  /\ list[n + 1].kind # "dir" =>
                GroupsOf(list, n + 1) = GroupsOf(list, n) \cup Above(list[n + 1].path)
           /\ list[n + 1].kind = "dir" =>
                GroupsOf(list, n + 1) =
                  GroupsOf(list, n) \cup Above(list[n + 1].path) \cup {list[n + 1].path}
  <1>1. \A i : i \in 1 .. n + 1 <=> i \in 1 .. n \/ i = n + 1
    OBVIOUS
  <1> HIDE DEF Above
  <1> QED BY <1>1 DEF GroupsOf

(* A root stands alone.                                                    *)
LEMMA RootIsOdd ==
    ASSUME NEW e, IsRoot(e)
    PROVE  ~Usable(e) /\ Position(e) = <<>> /\ Above(e.path) = {} /\ e.kind # "dir"
  <1>1. e.path = <<Dot>> /\ e.kind = "tree"
    BY DEF IsRoot
  <1>2. Dot \in Odd
    BY NamesAssumption
  <1>3. ~Usable(e)
    BY <1>1, <1>2 DEF Usable
  <1>4. Above(e.path) = {}
    BY <1>1 DEF Above
  <1> QED BY <1>1, <1>3, <1>4 DEF Position

(* While something is left, what was done has its place in the tree.       *)
LEMMA WhatIsNext ==
    ASSUME Work \in Seq(Entries), todo \in Seq(Entries),
           NEW n \in 0 .. Len(Work), Progress(n), todo # <<>>
    PROVE  /\ n \in Nat /\ n + 1 \in 1 .. Len(Work) /\ Inserted(n)
           /\ Head(todo) = Work[n + 1] /\ Work[n + 1] \in Entries
           /\ Tail(todo) \in Seq(Entries)
           /\ Len(Tail(todo)) = Len(Work) - (n + 1)
           /\ \A i \in 1 .. Len(Tail(todo)) : Tail(todo)[i] = Work[(n + 1) + i]
  <1> DEFINE W == Len(Work)
             L == Len(todo)
  <1>1. W \in Nat /\ L \in Nat /\ L # 0 /\ DOMAIN Work = 1 .. W
    OBVIOUS
  <1>2. /\ Head(todo) = todo[1] /\ Tail(todo) \in Seq(Entries) /\ Len(Tail(todo)) = L - 1
        /\ \A i \in 1 .. L - 1 : Tail(todo)[i] = todo[i + 1]
    OBVIOUS
  <1>3. L = W - n /\ \A i \in 1 .. L : todo[i] = Work[n + i]
    BY DEF Progress
  <1>4. n \in 0 .. W
    OBVIOUS
  <1>5. \A i \in DOMAIN Work : Work[i] \in Entries
    OBVIOUS
  <1>6. Mounted(n) => n = 1 /\ W = 1
    BY DEF Mounted
  <1>7. Mounted(n) \/ Inserted(n)
    BY DEF Progress
  <1> HIDE DEF W, L
  <1>8. n \in Nat /\ n + 1 \in 1 .. W /\ L - 1 = W - (n + 1)
    BY <1>1, <1>3, <1>4
  <1>9. Inserted(n)
    BY <1>3, <1>6, <1>7, <1>1
  <1>10. 1 \in 1 .. L
    BY <1>1
  <1>11. Head(todo) = Work[n + 1]
    BY <1>2, <1>3, <1>10
  <1>12. ASSUME NEW i \in 1 .. L - 1 PROVE Tail(todo)[i] = Work[(n + 1) + i]
    <2>1. i + 1 \in 1 .. L /\ n + (i + 1) = (n + 1) + i
      BY <1>1, <1>8
    <2> QED BY <1>2, <1>3, <2>1
  <1> QED BY <1>1, <1>2, <1>5, <1>8, <1>9, <1>11, <1>12 DEF W, L

(* What is occupied, when there are no bare directories.                   *)
LEMMA WhatCollides ==
    ASSUME NEW list \in Seq(Entries), NEW n \in 0 .. Len(list),
           entries = EntriesOf(list, n), groups = GroupsOf(list, n),
           \A i \in 1 .. n : Usable(list[i]) /\ list[i].kind # "dir",
           NEW e \in Entries, e.path # <<>>, tool # "serializer"
    PROVE  Collides(e.path) <=>
             \E i \in 1 .. n : \/ IsPrefixOf(list[i].path, e.path)
                               \/ IsPrefixOf(e.path, list[i].path)
  <1> DEFINE p == e.path
  <1>1. /\ \A i \in 1 .. n : list[i] \in Entries
        /\ p \in Seq(Names \cup Odd) /\ p # <<>>
    <2>1. \A i \in 1 .. n : i \in DOMAIN list
      OBVIOUS
    <2>2. p \in Seq(Names \cup Odd)
      BY DEF Entries
    <2> QED BY <2>1, <2>2
  <1>2. \A i \in 1 .. n : list[i].path \in Seq(Names \cup Odd) /\ list[i].path # <<>>
    BY <1>1 DEF Entries, Usable
  <1>3. Occupied = {list[i].path : i \in 1 .. n}
    <2>1. EntriesOf(list, n) = {list[i] : i \in 1 .. n}
      BY DEF EntriesOf
    <2> QED BY <2>1 DEF Occupied
  <1>4. groups = UNION {Above(list[i].path) : i \in 1 .. n}
    <2> HIDE DEF Above
    <2> QED BY DEF GroupsOf
  <1> HIDE DEF p
  <1>5. ASSUME NEW i \in 1 .. n
        PROVE  /\ IsPrefixOf(list[i].path, p) <=> list[i].path = p \/ list[i].path \in Above(p)
               /\ IsPrefixOf(p, list[i].path) <=> list[i].path = p \/ p \in Above(list[i].path)
    BY <1>1, <1>2, AboveIsPrefix
  <1> HIDE DEF Above, IsPrefixOf
  <1>6. Collides(p) <=> \E i \in 1 .. n : \/ list[i].path \in Above(p)
                                          \/ list[i].path = p
                                          \/ p \in Above(list[i].path)
    BY <1>3, <1>4 DEF Collides
  <1>7. Collides(p) <=> \E i \in 1 .. n : \/ IsPrefixOf(list[i].path, p)
                                          \/ IsPrefixOf(p, list[i].path)
    BY <1>5, <1>6
  <1> QED BY <1>7 DEF p

(* A walk collides with nothing it has found.                              *)
LEMMA WalksDoNotCollide ==
    ASSUME NEW list \in Seq(Entries), IsWalk(list), NEW n \in Nat, n + 1 \in 1 .. Len(list),
           entries = EntriesOf(list, n), groups = GroupsOf(list, n),
           \A i \in 1 .. n + 1 : Usable(list[i]),
           list[n + 1].kind # "dir", tool = "serializer"
    PROVE  ~Collides(list[n + 1].path)
  <1>1. /\ DOMAIN list = 1 .. Len(list)
        /\ \A i \in 1 .. n : i \in DOMAIN list /\ i # n + 1 /\ i \in 1 .. n + 1
        /\ n + 1 \in DOMAIN list /\ n + 1 \in 1 .. n + 1
    OBVIOUS
  <1> HIDE DEF Above, Usable
  <1>2. \A i \in 1 .. n : list[i].path # list[n + 1].path /\ list[n + 1].path \notin Above(list[i].path)
    BY <1>1 DEF IsWalk
  <1>3. list[n + 1].path \notin Occupied
    BY <1>2 DEF Occupied, EntriesOf
  <1>4. list[n + 1].path \notin groups
    BY <1>2 DEF GroupsOf
  <1> QED BY <1>3, <1>4 DEF Collides

-----------------------------------------------------------------------------
(* What is refused is not fine.                                            *)

LEMMA PlaceOfUsable ==
    ASSUME NEW e, Usable(e)
    PROVE  ~IsRoot(e) /\ Position(e) = e.path /\ e.path # <<>>
  <1>1. ~IsRoot(e)
    BY RootIsOdd
  <1> QED BY <1>1 DEF Position, Usable

LEMMA NothingBesideTheRoot ==
    ASSUME NEW list \in Seq(Entries), NEW i \in DOMAIN list, NEW j \in DOMAIN list,
           i # j, IsRoot(list[i])
    PROVE  ~Disjoint(list)
  <1>1. Position(list[i]) = <<>>
    BY RootIsOdd
  <1>2. \A m \in DOMAIN list : Len(Position(list[m])) \in Nat
    <2>1. ASSUME NEW m \in DOMAIN list PROVE Len(Position(list[m])) \in Nat
      <3>1. list[m] \in Entries
        OBVIOUS
      <3>2. list[m].path \in Seq(Names \cup Odd)
        BY <3>1 DEF Entries
      <3>3. Len(list[m].path) \in Nat /\ Len(<<>>) \in Nat
        BY <3>2
      <3> QED BY <3>3 DEF Position
    <2> QED BY <2>1
  <1>3. IsPrefixOf(<<>>, Position(list[j]))
    <2>1. Len(<<>>) = 0 /\ DOMAIN <<>> = {}
      OBVIOUS
    <2> QED BY <1>2, <2>1 DEF IsPrefixOf
  <1> QED BY <1>1, <1>3 DEF Disjoint

LEMMA RefusedIsNotFine ==
    ASSUME TrieInv, Reject
    PROVE  ~Fine(Work)
  <1>1. PICK n \in 0 .. Len(Work) : Progress(n)
    BY DEF TrieInv
  <1>2. /\ Suits(tool, given) /\ todo \in Seq(Entries)
    BY DEF TrieInv
  <1>3. /\ Work \in Seq(Entries)
        /\ tool = "serializer" => IsWalk(Work)
        /\ tool # "serializer" => \A i \in DOMAIN Work : Work[i].kind # "dir"
    BY <1>2, WorkSuits
  <1>4. /\ todo # <<>> /\ ~MountsRoot /\ Head(todo).kind # "dir"
        /\ ~Usable(Head(todo)) \/ Collides(Head(todo).path)
    BY DEF Reject
  <1> DEFINE w == Work
             e == w[n + 1]
  <1>5. /\ n \in Nat /\ n + 1 \in 1 .. Len(w) /\ Inserted(n)
        /\ Head(todo) = e /\ e \in Entries
    BY <1>1, <1>2, <1>3, <1>4, WhatIsNext
  <1>6. /\ entries = EntriesOf(w, n) /\ groups = GroupsOf(w, n)
        /\ Len(todo) = Len(w) - n /\ Len(w) \in Nat
    BY <1>1, <1>3 DEF Progress
  <1>7. /\ \A i \in 1 .. n : Usable(w[i])
        /\ tool # "serializer" => Apart(w, n)
    BY <1>5 DEF Inserted
  <1>8. /\ w \in Seq(Entries)
        /\ tool = "serializer" => IsWalk(w)
        /\ tool # "serializer" => \A i \in DOMAIN w : w[i].kind # "dir"
        /\ DOMAIN w = 1 .. Len(w)
    BY <1>3
  <1>9. ~Fine(w)
    <2> HIDE DEF w
    <2>1. CASE ~Usable(e) /\ ~IsRoot(e)
      BY <1>5, <1>8, <2>1 DEF Fine, AllUsable
    <2>2. CASE IsRoot(e)
      <3>1. tool = "composer"
        BY <2>2 DEF IsRoot
      <3>2. \E j \in 1 .. Len(w) : j # n + 1
        <4>1. CASE Len(todo) # 1
          <5>1. Len(w) >= 2 /\ 1 \in 1 .. Len(w) /\ 2 \in 1 .. Len(w)
            BY <1>5, <1>6, <4>1
          <5> QED BY <5>1, <1>5
        <4>2. CASE entries # {}
          <5>1. PICK i \in 1 .. n : TRUE
            BY <1>6, <4>2 DEF EntriesOf
          <5> QED BY <1>5, <5>1
        <4>3. todo[1] = Head(todo)
          BY <1>2, <1>4
        <4> QED BY <1>4, <1>5, <2>2, <4>1, <4>2, <4>3 DEF MountsRoot
      <3>3. ~Disjoint(w)
        BY <1>5, <1>8, <2>2, <3>2, NothingBesideTheRoot
      <3> QED BY <3>1, <3>3 DEF Fine
    <2>3. CASE Usable(e)
      <3>1. Collides(e.path) /\ e.kind # "dir"
        BY <1>4, <1>5, <2>3
      <3>2. tool # "serializer"
        <4>1. SUFFICES ASSUME tool = "serializer" PROVE FALSE
          OBVIOUS
        <4>2. \A i \in 1 .. n + 1 : Usable(w[i])
          BY <1>5, <1>7, <2>3
        <4> QED BY <1>5, <1>6, <1>8, <3>1, <4>1, <4>2, WalksDoNotCollide
      <3>3. n \in 0 .. Len(w) /\ \A i \in 1 .. n : i \in 1 .. Len(w) /\ i # n + 1
        BY <1>5, <1>6
      <3>4. \A i \in 1 .. n : Usable(w[i]) /\ w[i].kind # "dir"
        BY <1>7, <1>8, <3>2, <3>3
      <3>5. e.path # <<>>
        BY <2>3 DEF Usable
      <3>6. Collides(e.path) <=>
              \E i \in 1 .. n : \/ IsPrefixOf(w[i].path, e.path)
                                \/ IsPrefixOf(e.path, w[i].path)
        BY <1>5, <1>6, <1>8, <3>2, <3>3, <3>4, <3>5, WhatCollides
      <3>7. PICK i \in 1 .. n : \/ IsPrefixOf(w[i].path, e.path)
                                \/ IsPrefixOf(e.path, w[i].path)
        BY <3>1, <3>6
      <3>8. Position(w[i]) = w[i].path /\ Position(e) = e.path
        BY <1>7, <2>3, PlaceOfUsable
      <3>9. ~Disjoint(w)
        <4>1. i \in DOMAIN w /\ n + 1 \in DOMAIN w /\ i # n + 1
          BY <1>5, <1>8, <3>3
        <4> HIDE DEF IsPrefixOf, Position
        <4> QED BY <3>7, <3>8, <4>1 DEF Disjoint
      <3> QED BY <3>2, <3>9 DEF Fine
    <2> QED BY <2>1, <2>2, <2>3
  <1> QED BY <1>9

-----------------------------------------------------------------------------
(* The steps.                                                              *)

(* What is taken is apart from what was taken before.                      *)
LEMMA InsertedIsApart ==
    ASSUME NEW list \in Seq(Entries), NEW n \in Nat, n + 1 \in 1 .. Len(list),
           entries = EntriesOf(list, n), groups = GroupsOf(list, n),
           \A i \in 1 .. n : Usable(list[i]) /\ list[i].kind # "dir",
           tool # "serializer", Apart(list, n),
           Usable(list[n + 1]), ~Collides(list[n + 1].path)
    PROVE  Apart(list, n + 1)
  <1> DEFINE e == list[n + 1]
  <1>1. e \in Entries /\ n \in 0 .. Len(list)
    OBVIOUS
  <1>2. e.path # <<>>
    BY DEF Usable
  <1>3. Collides(e.path) <=>
          \E i \in 1 .. n : \/ IsPrefixOf(list[i].path, e.path)
                            \/ IsPrefixOf(e.path, list[i].path)
    BY <1>1, <1>2, WhatCollides
  <1>4. \A i \in 1 .. n : ~IsPrefixOf(list[i].path, e.path) /\ ~IsPrefixOf(e.path, list[i].path)
    BY <1>3
  <1>5. \A i \in 1 .. n + 1 : i \in 1 .. n \/ i = n + 1
    OBVIOUS
  <1> HIDE DEF IsPrefixOf
  <1> QED BY <1>4, <1>5 DEF Apart

(* One entry more is done.                                                 *)
LEMMA OneMoreDone ==
    ASSUME TrieInv, NEW n \in 0 .. Len(Work), Progress(n), todo # <<>>,
           UNCHANGED <<tool, given>>, todo' = Tail(todo), verdict' = verdict,
           verdict = "building",
           entries' = EntriesOf(Work, n + 1), groups' = GroupsOf(Work, n + 1),
           Mounted(n + 1) \/ Inserted(n + 1)
    PROVE  TrieInv'
  <1>1. Work' = Work
    BY DEF Work
  <1>2. Suits(tool, given) /\ todo \in Seq(Entries)
    BY DEF TrieInv
  <1>3. Work \in Seq(Entries)
    BY <1>2, WorkSuits
  <1>4. /\ n \in Nat /\ n + 1 \in 1 .. Len(Work)
        /\ todo' \in Seq(Entries)
        /\ Len(todo') = Len(Work) - (n + 1)
        /\ \A i \in 1 .. Len(todo') : todo'[i] = Work[(n + 1) + i]
    BY <1>2, <1>3, WhatIsNext
  <1>5. n + 1 \in 0 .. Len(Work)
    BY <1>4
  <1> HIDE DEF Work
  <1>6. Mounted(n + 1)' \/ Inserted(n + 1)'
    BY <1>1 DEF Mounted, Inserted, IsRoot
  <1>7. Progress(n + 1)'
    BY <1>1, <1>4, <1>6 DEF Progress
  <1>8. \E k \in 0 .. Len(Work') : Progress(k)'
    BY <1>1, <1>5, <1>7
  <1> QED BY <1>2, <1>4, <1>8 DEF TrieInv

LEMMA BuildKeepsInv ==
    ASSUME TrieInv, [Build]_trieVars
    PROVE  TrieInv'
  <1>1. PICK n \in 0 .. Len(Work) : Progress(n)
    BY DEF TrieInv
  <1>2. /\ Suits(tool, given) /\ todo \in Seq(Entries)
        /\ tool \in {"filter", "composer", "serializer"}
    BY DEF TrieInv, Suits
  <1>3. /\ Work \in Seq(Entries) /\ DOMAIN Work = 1 .. Len(Work) /\ Len(Work) \in Nat
        /\ tool = "serializer" => IsWalk(Work)
        /\ tool # "serializer" => \A i \in DOMAIN Work : Work[i].kind # "dir"
    BY <1>2, WorkSuits
  <1>4. /\ entries = EntriesOf(Work, n) /\ groups = GroupsOf(Work, n)
        /\ Len(todo) = Len(Work) - n /\ \A i \in 1 .. Len(todo) : todo[i] = Work[n + i]
    BY <1>1 DEF Progress
  <1>5. ASSUME todo # <<>>
        PROVE  /\ n \in Nat /\ n + 1 \in 1 .. Len(Work) /\ Inserted(n)
               /\ Head(todo) = Work[n + 1] /\ Work[n + 1] \in Entries
    BY <1>1, <1>2, <1>3, <1>5, WhatIsNext
  <1>6. ASSUME UNCHANGED <<tool, given>>
        PROVE  Work' = Work /\ Suits(tool, given)'
    BY <1>2, <1>6 DEF Work
  <1>7. ASSUME UNCHANGED <<tool, given, todo, entries, groups>>
        PROVE  (\E k \in 0 .. Len(Work) : Progress(k))'
    <2>1. Work' = Work
      BY <1>6, <1>7
    <2> HIDE DEF Work
    <2>2. Progress(n)'
      BY <1>1, <1>7, <2>1 DEF Progress, Mounted, Inserted, IsRoot
    <2> QED BY <2>1, <2>2
  <1>8. CASE MountRoot
    <2>1. /\ verdict = "building" /\ Len(todo) = 1 /\ entries = {} /\ IsRoot(todo[1])
          /\ entries' = {todo[1]} /\ todo' = <<>>
          /\ UNCHANGED <<tool, given, groups, verdict>>
      BY <1>8 DEF MountRoot, MountsRoot
    <2>2. todo # <<>> /\ Head(todo) = todo[1] /\ Tail(todo) = <<>>
      <3>1. todo \in Seq(Entries) /\ Len(todo) = 1
        BY <1>2, <2>1
      <3>2. todo # <<>> /\ Head(todo) = todo[1]
        BY <3>1
      <3>3. Tail(todo) \in Seq(Entries) /\ Len(Tail(todo)) = 0
        BY <3>1, <3>2
      <3>4. \A s \in Seq(Entries) : Len(s) = 0 => s = <<>>
        OBVIOUS
      <3> QED BY <3>2, <3>3, <3>4
    <2>3. Work[n + 1].kind # "dir" /\ tool # "serializer" /\ IsRoot(Work[n + 1])
      BY <1>5, <2>1, <2>2, RootIsOdd DEF IsRoot
    <2>4. n = 0
      <3>1. SUFFICES ASSUME n # 0 PROVE FALSE
        OBVIOUS
      <3>2. 1 \in 1 .. n /\ 1 \in DOMAIN Work
        BY <1>3, <1>5, <2>2, <3>1
      <3>3. Work[1].kind # "dir"
        BY <1>3, <2>3, <3>2
      <3>4. Work[1] \in EntriesOf(Work, n)
        BY <3>2, <3>3 DEF EntriesOf
      <3> QED BY <1>4, <2>1, <3>4
    <2>5. Len(Work) = 1 /\ n + 1 = 1
      <3>1. Len(Work) \in Nat /\ Len(Work) - n = 1 /\ n = 0
        BY <1>3, <1>4, <2>1, <2>4
      <3> QED BY <3>1
    <2>6. Mounted(n + 1)
      BY <2>3, <2>5 DEF Mounted
    <2>7. entries' = EntriesOf(Work, n + 1)
      <3>1. EntriesOf(Work, n + 1) = EntriesOf(Work, n) \cup {Work[n + 1]}
        BY <1>5, <2>2, <2>3, OneMoreEntry
      <3>2. todo[1] = Work[n + 1]
        BY <1>5, <2>2
      <3> HIDE DEF Work
      <3> QED BY <1>4, <2>1, <3>1, <3>2
    <2>8. groups' = GroupsOf(Work, n + 1)
      <3>1. Above(Work[n + 1].path) = {}
        BY <2>3, RootIsOdd
      <3>2. GroupsOf(Work, n + 1) = GroupsOf(Work, n) \cup Above(Work[n + 1].path)
        BY <1>5, <2>2, <2>3, OneMoreGroup
      <3> QED BY <1>4, <2>1, <3>1, <3>2
    <2> QED BY <1>1, <2>1, <2>2, <2>6, <2>7, <2>8, OneMoreDone
  <1>9. CASE Insert
    <2>1. /\ verdict = "building" /\ todo # <<>>
          /\ Usable(Head(todo)) /\ Head(todo).kind # "dir" /\ ~Collides(Head(todo).path)
          /\ entries' = entries \cup {Head(todo)}
          /\ groups' = groups \cup Above(Head(todo).path)
          /\ todo' = Tail(todo)
          /\ UNCHANGED <<tool, given, verdict>>
      BY <1>9 DEF Insert, GroupsFor
    <2>2. /\ n \in Nat /\ n + 1 \in 1 .. Len(Work) /\ Inserted(n) /\ Head(todo) = Work[n + 1]
      BY <1>5, <2>1
    <2>3. entries' = EntriesOf(Work, n + 1)
      <3>1. EntriesOf(Work, n + 1) = EntriesOf(Work, n) \cup {Work[n + 1]}
        BY <2>1, <2>2, OneMoreEntry
      <3> HIDE DEF Work
      <3> QED BY <1>4, <2>1, <2>2, <3>1
    <2>4. groups' = GroupsOf(Work, n + 1)
      <3>1. GroupsOf(Work, n + 1) = GroupsOf(Work, n) \cup Above(Work[n + 1].path)
        BY <2>1, <2>2, OneMoreGroup
      <3> HIDE DEF Above, Work
      <3> QED BY <1>4, <2>1, <2>2, <3>1
    <2>5. Inserted(n + 1)
      <3>1. \A i \in 1 .. n + 1 : i \in 1 .. n \/ i = n + 1
        BY <2>2
      <3>2. \A i \in 1 .. n + 1 : Usable(Work[i])
        BY <2>1, <2>2, <3>1 DEF Inserted
      <3>3. ASSUME tool # "serializer" PROVE Apart(Work, n + 1)
        <4>1. \A i \in 1 .. n : i \in DOMAIN Work
          BY <1>3, <2>2
        <4>2. \A i \in 1 .. n : Usable(Work[i]) /\ Work[i].kind # "dir"
          BY <1>3, <2>2, <3>3, <4>1 DEF Inserted
        <4>3. Apart(Work, n)
          BY <2>2, <3>3 DEF Inserted
        <4> HIDE DEF Work
        <4> QED BY <1>3, <1>4, <2>1, <2>2, <3>3, <4>2, <4>3, InsertedIsApart
      <3> QED BY <3>2, <3>3 DEF Inserted
    <2> QED BY <1>1, <2>1, <2>3, <2>4, <2>5, OneMoreDone
  <1>10. CASE EnsureDir
    <2>1. /\ verdict = "building" /\ todo # <<>> /\ Head(todo).kind = "dir"
          /\ groups' = groups \cup Above(Head(todo).path) \cup {Head(todo).path}
          /\ todo' = Tail(todo)
          /\ UNCHANGED <<tool, given, entries, verdict>>
      BY <1>10 DEF EnsureDir, Ensured
    <2>2. /\ n \in Nat /\ n + 1 \in 1 .. Len(Work) /\ Inserted(n) /\ Head(todo) = Work[n + 1]
      BY <1>5, <2>1
    <2>3. entries' = EntriesOf(Work, n + 1)
      BY <1>4, <2>1, <2>2, OneMoreEntry
    <2>4. groups' = GroupsOf(Work, n + 1)
      <3>1. GroupsOf(Work, n + 1) =
              GroupsOf(Work, n) \cup Above(Work[n + 1].path) \cup {Work[n + 1].path}
        BY <2>1, <2>2, OneMoreGroup
      <3> HIDE DEF Above, Work
      <3> QED BY <1>4, <2>1, <2>2, <3>1
    <2>5. Inserted(n + 1)
      <3>1. \A i \in 1 .. n + 1 : i \in 1 .. n \/ i = n + 1
        BY <2>2
      <3>2. tool = "serializer" /\ Usable(Work[n + 1])
        <4>1. n + 1 \in DOMAIN Work /\ Work[n + 1].kind = "dir"
          BY <1>3, <2>1, <2>2
        <4>2. tool = "serializer"
          BY <1>3, <4>1
        <4> HIDE DEF Usable
        <4> QED BY <1>3, <4>1, <4>2 DEF IsWalk
      <3>3. \A i \in 1 .. n + 1 : Usable(Work[i])
        BY <2>2, <3>1, <3>2 DEF Inserted
      <3> QED BY <3>2, <3>3 DEF Inserted
    <2> QED BY <1>1, <2>1, <2>3, <2>4, <2>5, OneMoreDone
  <1>11. CASE Reject
    <2>1. /\ verdict' = "rejected" /\ UNCHANGED <<tool, given, todo, entries, groups>>
      BY <1>11 DEF Reject
    <2>2. ~Fine(Work)
      BY <1>11, RefusedIsNotFine
    <2>3. Work' = Work /\ Suits(tool, given)'
      BY <1>6, <2>1
    <2>4. ~Fine(Work)'
      BY <2>1, <2>2, <2>3 DEF Fine, AllUsable, Disjoint, Position, IsRoot
    <2>5. (\E k \in 0 .. Len(Work) : Progress(k))'
      BY <1>7, <2>1
    <2> QED BY <1>2, <2>1, <2>3, <2>4, <2>5 DEF TrieInv
  <1>12. CASE Accept
    <2>1. /\ verdict' = "accepted" /\ todo = <<>>
          /\ UNCHANGED <<tool, given, todo, entries, groups>>
      BY <1>12 DEF Accept
    <2>2. Suits(tool, given)'
      BY <1>6, <2>1
    <2>3. (\E k \in 0 .. Len(Work) : Progress(k))'
      BY <1>7, <2>1
    <2> QED BY <1>2, <2>1, <2>2, <2>3 DEF TrieInv
  <1>13. CASE UNCHANGED trieVars
    <2>1. UNCHANGED <<tool, given, todo, entries, groups, verdict>>
      BY <1>13 DEF trieVars
    <2>2. Work' = Work /\ Suits(tool, given)'
      BY <1>6, <2>1
    <2>3. (\E k \in 0 .. Len(Work) : Progress(k))'
      BY <1>7, <2>1
    <2>4. (verdict = "rejected" => ~Fine(Work))'
      BY <2>1, <2>2 DEF TrieInv, Fine, AllUsable, Disjoint, Position, IsRoot
    <2> QED BY <1>2, <2>1, <2>2, <2>3, <2>4 DEF TrieInv
  <1> QED BY <1>8, <1>9, <1>10, <1>11, <1>12, <1>13 DEF Build

-----------------------------------------------------------------------------
(* What follows from the invariant.                                        *)

(* When all is done.                                                       *)
LEMMA DoneIsAll ==
    ASSUME TrieInv, verdict = "accepted"
    PROVE  /\ Len(Work) \in Nat
           /\ entries = EntriesOf(Work, Len(Work)) /\ groups = GroupsOf(Work, Len(Work))
           /\ Mounted(Len(Work)) \/ Inserted(Len(Work))
  <1>1. PICK n \in 0 .. Len(Work) : Progress(n)
    BY DEF TrieInv
  <1>2. Work \in Seq(Entries) /\ todo = <<>>
    BY WorkSuits DEF TrieInv
  <1>3. Len(Work) \in Nat /\ Len(todo) = 0
    BY <1>2
  <1>4. Len(todo) = Len(Work) - n
    BY <1>1 DEF Progress
  <1>5. n = Len(Work)
    BY <1>3, <1>4
  <1> HIDE DEF Work
  <1> QED BY <1>1, <1>3, <1>5 DEF Progress

(* What was taken to the end is fine.                                      *)
LEMMA TakenIsFine ==
    ASSUME NEW list \in Seq(Entries),
           \/ Len(list) = 1 /\ IsRoot(list[1])
           \/ /\ \A i \in DOMAIN list : Usable(list[i])
              /\ tool # "serializer" => Apart(list, Len(list))
    PROVE  Fine(list)
  <1>1. DOMAIN list = 1 .. Len(list) /\ Len(list) \in Nat
    OBVIOUS
  <1>2. CASE Len(list) = 1 /\ IsRoot(list[1])
    <2>1. \A i \in DOMAIN list : i = 1
      BY <1>1, <1>2
    <2> QED BY <1>2, <2>1 DEF Fine, AllUsable, Disjoint
  <1>3. CASE /\ \A i \in DOMAIN list : Usable(list[i])
             /\ tool # "serializer" => Apart(list, Len(list))
    <2>1. AllUsable(list)
      BY <1>3 DEF AllUsable
    <2>2. ASSUME tool # "serializer" PROVE Disjoint(list)
      <3>1. \A i \in DOMAIN list : Position(list[i]) = list[i].path
        BY <1>3, PlaceOfUsable
      <3> HIDE DEF IsPrefixOf, Position
      <3> QED BY <1>1, <1>3, <2>2, <3>1 DEF Disjoint, Apart
    <2> QED BY <2>1, <2>2 DEF Fine
  <1> QED BY <1>2, <1>3

LEMMA AcceptedIsFine ==
    ASSUME TrieInv
    PROVE  AcceptedIffDisjoint
  <1>1. /\ Suits(tool, given) /\ verdict \in {"building", "rejected", "accepted"}
        /\ verdict = "rejected" => ~Fine(Work)
    BY DEF TrieInv
  <1>2. Work \in Seq(Entries) /\ (Fine(Work) <=> Fine(given))
    BY <1>1, WorkSuits
  <1>3. ASSUME verdict = "accepted" PROVE Fine(Work)
    <2> DEFINE w == Work
    <2>1. Mounted(Len(w)) \/ Inserted(Len(w))
      BY <1>3, DoneIsAll
    <2>2. w \in Seq(Entries) /\ DOMAIN w = 1 .. Len(w)
      BY <1>2
    <2>3. \/ Len(w) = 1 /\ IsRoot(w[1])
          \/ /\ \A i \in DOMAIN w : Usable(w[i])
             /\ tool # "serializer" => Apart(w, Len(w))
      BY <2>1, <2>2 DEF Mounted, Inserted
    <2> HIDE DEF w
    <2>4. Fine(w)
      BY <2>2, <2>3, TakenIsFine
    <2> QED BY <2>4 DEF w
  <1> QED BY <1>1, <1>2, <1>3 DEF AcceptedIffDisjoint, Fine

(* A group is never an entry.                                              *)
LEMMA GroupsAreNoEntries ==
    ASSUME NEW list \in Seq(Entries), NEW n \in 0 .. Len(list),
           \A i \in 1 .. n : Usable(list[i]),
           tool = "serializer" => IsWalk(list),
           tool # "serializer" =>
             Apart(list, n) /\ \A i \in DOMAIN list : list[i].kind # "dir",
           NEW i \in 1 .. n, NEW j \in 1 .. n, list[i].kind # "dir"
    PROVE  /\ list[i].path \notin Above(list[j].path)
           /\ list[j].kind = "dir" => list[i].path # list[j].path
  <1>1. i \in DOMAIN list /\ j \in DOMAIN list /\ list[i] \in Entries /\ list[j] \in Entries
    OBVIOUS
  <1>2. /\ list[i].path \in Seq(Names \cup Odd) /\ list[j].path \in Seq(Names \cup Odd)
        /\ list[i].path # <<>> /\ Len(list[i].path) \in Nat
    BY <1>1 DEF Entries, Usable
  <1>3. /\ IsPrefixOf(list[i].path, list[j].path) <=>
             list[i].path = list[j].path \/ list[i].path \in Above(list[j].path)
        /\ list[i].path \in Above(list[j].path) => Len(list[i].path) < Len(list[j].path)
    BY <1>2, AboveIsPrefix
  <1> HIDE DEF Above, IsPrefixOf, Usable
  <1>4. CASE i = j
    BY <1>2, <1>3, <1>4
  <1>5. CASE i # j /\ tool = "serializer"
    BY <1>1, <1>5 DEF IsWalk
  <1>6. CASE i # j /\ tool # "serializer"
    BY <1>1, <1>3, <1>6 DEF Apart
  <1> QED BY <1>4, <1>5, <1>6

LEMMA NoNameIsTwoThings ==
    ASSUME TrieInv
    PROVE  groups \cap Occupied = {}
  <1>1. PICK n \in 0 .. Len(Work) : Progress(n)
    BY DEF TrieInv
  <1> DEFINE w == Work
  <1>2. /\ w \in Seq(Entries)
        /\ tool = "serializer" => IsWalk(w)
        /\ tool # "serializer" => \A i \in DOMAIN w : w[i].kind # "dir"
    BY WorkSuits DEF TrieInv
  <1>3. /\ entries = EntriesOf(w, n) /\ groups = GroupsOf(w, n)
        /\ Mounted(n) \/ Inserted(n)
    BY <1>1 DEF Progress
  <1>4. /\ Mounted(n) => n = 1 /\ IsRoot(w[1])
        /\ Inserted(n) => /\ \A i \in 1 .. n : Usable(w[i])
                          /\ tool # "serializer" => Apart(w, n)
    BY DEF Mounted, Inserted
  <1>5. n \in 0 .. Len(w)
    OBVIOUS
  <1> HIDE DEF w
  <1>6. SUFFICES ASSUME NEW p \in groups, p \in Occupied PROVE FALSE
    OBVIOUS
  <1>7. PICK i \in 1 .. n : w[i].kind # "dir" /\ p = w[i].path
    BY <1>3, <1>6 DEF Occupied, EntriesOf
  <1>8. PICK j \in 1 .. n : p \in Above(w[j].path) \/ (w[j].kind = "dir" /\ p = w[j].path)
    <2> HIDE DEF Above
    <2> QED BY <1>3, <1>6 DEF GroupsOf
  <1>9. CASE Mounted(n)
    <2>1. j = 1 /\ IsRoot(w[1])
      BY <1>4, <1>8, <1>9
    <2>2. Above(w[1].path) = {} /\ w[1].kind # "dir"
      BY <2>1, RootIsOdd
    <2> QED BY <1>8, <2>1, <2>2
  <1>10. CASE Inserted(n)
    <2>1. /\ w[i].path \notin Above(w[j].path)
          /\ w[j].kind = "dir" => w[i].path # w[j].path
      BY <1>2, <1>4, <1>5, <1>7, <1>10, GroupsAreNoEntries
    <2> QED BY <1>7, <1>8, <2>1
  <1> QED BY <1>3, <1>9, <1>10

LEMMA AllOfIt ==
    ASSUME NEW list \in Seq(Entries)
    PROVE  LET all == {list[i] : i \in DOMAIN list} IN
           /\ EntriesOf(list, Len(list)) = {e \in all : e.kind # "dir"}
           /\ GroupsOf(list, Len(list)) =
                (UNION {Above(e.path) : e \in all})
                  \cup {e.path : e \in all \ EntriesOf(list, Len(list))}
  <1> DEFINE all == {list[i] : i \in DOMAIN list}
             N == Len(list)
  <1>1. DOMAIN list = 1 .. N
    OBVIOUS
  <1> HIDE DEF N
  <1>2. EntriesOf(list, N) = {e \in all : e.kind # "dir"}
    BY <1>1 DEF EntriesOf
  <1>3. \A e : e \in all \ EntriesOf(list, N) <=> e \in all /\ e.kind = "dir"
    BY <1>2
  <1>4. {e.path : e \in all \ EntriesOf(list, N)} =
          {list[i].path : i \in {j \in 1 .. N : list[j].kind = "dir"}}
    BY <1>1, <1>3
  <1> HIDE DEF Above
  <1>5. UNION {Above(e.path) : e \in all} = UNION {Above(list[i].path) : i \in 1 .. N}
    BY <1>1
  <1>6. GroupsOf(list, N) = (UNION {Above(e.path) : e \in all})
                              \cup {e.path : e \in all \ EntriesOf(list, N)}
    BY <1>4, <1>5 DEF GroupsOf
  <1> QED BY <1>2, <1>6 DEF N

LEMMA NothingElseIsHeld ==
    ASSUME TrieInv
    PROVE  HoldsWhatWasGiven
  <1> DEFINE all == {given[i] : i \in DOMAIN given}
             w == Work
  <1>1. groups \cap Occupied = {}
    BY NoNameIsTwoThings
  <1>2. ASSUME verdict = "accepted"
        PROVE  /\ entries = {e \in all : e.kind # "dir"}
               /\ groups = (UNION {Above(e.path) : e \in all})
                             \cup {e.path : e \in all \ entries}
    <2>1. w \in Seq(Entries) /\ {w[i] : i \in DOMAIN w} = all
      BY WorkSuits DEF TrieInv
    <2>2. entries = EntriesOf(w, Len(w)) /\ groups = GroupsOf(w, Len(w))
      BY <1>2, DoneIsAll
    <2> HIDE DEF all, w
    <2>3. /\ EntriesOf(w, Len(w)) = {e \in all : e.kind # "dir"}
          /\ GroupsOf(w, Len(w)) =
               (UNION {Above(e.path) : e \in all})
                 \cup {e.path : e \in all \ EntriesOf(w, Len(w))}
      BY <2>1, AllOfIt
    <2> QED BY <2>2, <2>3
  <1> QED BY <1>1, <1>2 DEF HoldsWhatWasGiven

-----------------------------------------------------------------------------
(* Paths below a path.                                                     *)

(* What lies under q is q and the rest of the path.                        *)
LEMMA UnderSplits ==
    ASSUME NEW C, NEW p \in Seq(C), NEW q \in Seq(C), Under(p, q)
    PROVE  /\ RelativeTo(p, q) \in Seq(C) /\ p = q \o RelativeTo(p, q)
           /\ Len(p) = Len(q) + Len(RelativeTo(p, q))
  <1> DEFINE r == SubSeq(p, Len(q) + 1, Len(p))
             c == SubSeq(p, 1, Len(q))
             j == q \o r
  <1>1. Len(q) \in Nat /\ Len(p) \in Nat /\ Len(q) <= Len(p) /\ SubSeq(q, 1, Len(q)) = c
    BY DEF Under, IsPrefix
  <1>2. Len(q) \in 0 .. Len(p) /\ Len(q) \in 0 .. Len(q)
    BY <1>1
  <1>3. /\ r \in Seq(C) /\ Len(r) = Len(p) - Len(q)
        /\ \A i \in 1 .. Len(p) - Len(q) : r[i] = p[i + Len(q)]
    BY <1>2, CutOff
  <1>4. \A i \in 1 .. Len(q) : q[i] = p[i]
    <2>1. \A i \in 1 .. Len(q) : c[i] = p[i]
      BY <1>2, CutAt
    <2>2. \A i \in 1 .. Len(q) : SubSeq(q, 1, Len(q))[i] = q[i]
      BY <1>2, CutAt
    <2> HIDE DEF c
    <2> QED BY <1>1, <2>1, <2>2
  <1> HIDE DEF r
  <1>5. /\ j \in Seq(C) /\ Len(j) = Len(q) + Len(r)
        /\ \A i \in 1 .. Len(q) : j[i] = q[i]
        /\ \A i \in 1 .. Len(r) : j[i + Len(q)] = r[i]
    BY <1>3, Joint
  <1> HIDE DEF j
  <1>6. Len(p) = Len(j)
    BY <1>1, <1>3, <1>5
  <1>7. ASSUME NEW i \in 1 .. Len(p) PROVE p[i] = j[i]
    <2>1. CASE i \in 1 .. Len(q)
      BY <1>4, <1>5, <2>1
    <2>2. CASE i \notin 1 .. Len(q)
      <3>1. i - Len(q) \in 1 .. Len(r) /\ (i - Len(q)) + Len(q) = i
        BY <1>1, <1>3, <2>2
      <3>2. i - Len(q) \in 1 .. Len(p) - Len(q)
        BY <1>3, <3>1
      <3>3. j[i] = r[i - Len(q)] /\ r[i - Len(q)] = p[i]
        BY <1>3, <1>5, <3>1, <3>2
      <3> QED BY <3>3
    <2> QED BY <2>1, <2>2
  <1>8. p = j
    BY <1>5, <1>6, <1>7, SameList
  <1> QED BY <1>3, <1>5, <1>8 DEF RelativeTo, r, j

(* What is q and more lies under q.                                        *)
LEMMA JoinedIsUnder ==
    ASSUME NEW C, NEW q \in Seq(C), NEW r \in Seq(C)
    PROVE  Under(q \o r, q) /\ RelativeTo(q \o r, q) = r
  <1> DEFINE j == q \o r
             t == SubSeq(j, Len(q) + 1, Len(j))
             c == SubSeq(j, 1, Len(q))
             d == SubSeq(q, 1, Len(q))
  <1>1. /\ j \in Seq(C) /\ Len(j) = Len(q) + Len(r)
        /\ \A i \in 1 .. Len(q) : j[i] = q[i]
        /\ \A i \in 1 .. Len(r) : j[i + Len(q)] = r[i]
    BY Joint
  <1> HIDE DEF j
  <1>2. /\ Len(q) \in Nat /\ Len(r) \in Nat
        /\ Len(q) \in 0 .. Len(j) /\ Len(q) \in 0 .. Len(q) /\ Len(j) - Len(q) = Len(r)
    BY <1>1
  <1>3. t \in Seq(C) /\ Len(t) = Len(r) /\ \A i \in 1 .. Len(r) : t[i] = j[i + Len(q)]
    BY <1>1, <1>2, CutOff
  <1>4. c \in Seq(C) /\ Len(c) = Len(q) /\ \A i \in 1 .. Len(q) : c[i] = j[i]
    BY <1>1, <1>2, CutAt
  <1>5. d \in Seq(C) /\ Len(d) = Len(q) /\ \A i \in 1 .. Len(q) : d[i] = q[i]
    BY <1>1, <1>2, CutAt
  <1> HIDE DEF t, c, d
  <1>6. t = r
    BY <1>1, <1>3, SameList
  <1>7. c = d
    <2>1. \A i \in 1 .. Len(c) : c[i] = d[i]
      BY <1>1, <1>4, <1>5
    <2> QED BY <1>4, <1>5, <2>1, SameList
  <1>8. Len(q) <= Len(j)
    BY <1>2
  <1>9. Under(j, q)
    BY <1>7, <1>8 DEF Under, IsPrefix, c, d
  <1>10. RelativeTo(j, q) = r
    BY <1>6 DEF RelativeTo, t
  <1> QED BY <1>9, <1>10 DEF j

(* A path is its parent and its name.                                      *)
LEMMA FrontAndLast ==
    ASSUME NEW C, NEW p \in Seq(C), p # <<>>
    PROVE  /\ Front(p) \in Seq(C) /\ p[Len(p)] \in C /\ p = Append(Front(p), p[Len(p)])
           /\ Len(Front(p)) = Len(p) - 1 /\ Front(p) = SubSeq(p, 1, Len(p) - 1)
  <1> DEFINE f == SubSeq(p, 1, Len(p) - 1)
             a == Append(f, p[Len(p)])
  <1>1. Len(p) \in Nat \ {0} /\ Len(p) - 1 \in 0 .. Len(p) /\ p[Len(p)] \in C
    OBVIOUS
  <1>2. f \in Seq(C) /\ Len(f) = Len(p) - 1 /\ \A i \in 1 .. Len(p) - 1 : f[i] = p[i]
    BY <1>1, CutAt
  <1> HIDE DEF f
  <1>3. a \in Seq(C) /\ Len(a) = Len(p) /\ \A i \in 1 .. Len(p) : a[i] = p[i]
    BY <1>1, <1>2
  <1> HIDE DEF a
  <1>4. a = p
    BY <1>3, SameList
  <1> QED BY <1>1, <1>2, <1>4 DEF a, f, Front

LEMMA FrontOfJoint ==
    ASSUME NEW C, NEW p \in Seq(C), NEW r \in Seq(C), r # <<>>
    PROVE  Front(p \o r) = p \o Front(r) /\ p \o r # <<>>
  <1> DEFINE f == Front(r)
             x == r[Len(r)]
             j == p \o f
             a == Append(j, x)
  <1>1. f \in Seq(C) /\ x \in C /\ r = Append(f, x)
    BY FrontAndLast
  <1> HIDE DEF f, x
  <1>2. p \o r = a /\ j \in Seq(C)
    BY <1>1, JoinOneMore
  <1> HIDE DEF j
  <1>3. a \in Seq(C) /\ a # <<>> /\ Len(a) = Len(j) + 1 /\ \A i \in 1 .. Len(j) : a[i] = j[i]
    BY <1>1, <1>2
  <1> HIDE DEF a
  <1>4. Front(a) \in Seq(C) /\ Len(Front(a)) = Len(j) /\ Front(a) = SubSeq(a, 1, Len(j))
    <2>1. a \in Seq(C) /\ a # <<>>
      BY <1>3
    <2>2. /\ Front(a) \in Seq(C) /\ Len(Front(a)) = Len(a) - 1
          /\ Front(a) = SubSeq(a, 1, Len(a) - 1)
      BY <2>1, FrontAndLast
    <2>3. Len(a) - 1 = Len(j)
      BY <1>2, <1>3
    <2> QED BY <2>2, <2>3
  <1>5. Len(j) \in 0 .. Len(a)
    BY <1>2, <1>3
  <1>6. \A i \in 1 .. Len(j) : SubSeq(a, 1, Len(j))[i] = a[i]
    BY <1>3, <1>5, CutAt
  <1>7. Front(a) = j
    BY <1>2, <1>3, <1>4, <1>6, SameList
  <1> QED BY <1>2, <1>3, <1>7 DEF j, f

(* Paths under a path are under each other as what follows it is.          *)
LEMMA SamePrefix ==
    ASSUME NEW C, NEW p \in Seq(C), NEW q \in Seq(C), NEW r \in Seq(C)
    PROVE  /\ Under(p \o q, p \o r) <=> Under(q, r)
           /\ p \o q = p \o r => q = r
           /\ Under(q, q) /\ Under(q, <<>>)
  <1>1. ASSUME Under(q, r) PROVE Under(p \o q, p \o r)
    <2>1. RelativeTo(q, r) \in Seq(C) /\ q = r \o RelativeTo(q, r)
      BY <1>1, UnderSplits
    <2> DEFINE t == RelativeTo(q, r)
               j == p \o r
    <2> HIDE DEF t
    <2>2. p \o q = j \o t /\ j \in Seq(C) /\ t \in Seq(C)
      <3>1. t \in Seq(C) /\ (p \o r) \o t = p \o (r \o t)
        <4>1. t \in Seq(C)
          BY <2>1 DEF t
        <4>2. JoinsTwice(p, r, t)
          BY <4>1, JoinTwice
        <4> QED BY <4>1, <4>2 DEF JoinsTwice
      <3>2. q = r \o t
        BY <2>1 DEF t
      <3> QED BY <3>1, <3>2
    <2> HIDE DEF j
    <2>3. Under(j \o t, j)
      BY <2>2, JoinedIsUnder
    <2> QED BY <2>2, <2>3 DEF j
  <1>2. p \o q \in Seq(C) /\ p \o r \in Seq(C)
    OBVIOUS
  <1>3. RelativeTo(p \o q, p) = q /\ RelativeTo(p \o r, p) = r
    BY JoinedIsUnder
  <1>4. ASSUME Under(p \o q, p \o r) PROVE Under(q, r)
    <2> DEFINE t == RelativeTo(p \o q, p \o r)
    <2>1. t \in Seq(C) /\ p \o q = (p \o r) \o t
      BY <1>2, <1>4, UnderSplits
    <2> HIDE DEF t
    <2>2. p \o q = p \o (r \o t) /\ r \o t \in Seq(C)
      <3>1. t \in Seq(C) /\ r \o t \in Seq(C)
        BY <2>1
      <3>2. (p \o r) \o t = p \o (r \o t)
        <4>1. JoinsTwice(p, r, t)
          BY <3>1, JoinTwice
        <4> QED BY <4>1 DEF JoinsTwice
      <3> QED BY <2>1, <3>1, <3>2
    <2>3. RelativeTo(p \o (r \o t), p) = r \o t
      BY <2>2, JoinedIsUnder
    <2>4. q = r \o t
      BY <1>3, <2>2, <2>3
    <2> QED BY <2>1, <2>4, JoinedIsUnder
  <1>5. Under(q, q) /\ Under(q, <<>>)
    <2>1. <<>> \in Seq(C) /\ q \o <<>> = q /\ <<>> \o q = q
      OBVIOUS
    <2>2. Under(q \o <<>>, q) /\ Under(<<>> \o q, <<>>)
      BY <2>1, JoinedIsUnder
    <2> QED BY <2>1, <2>2
  <1> QED BY <1>1, <1>3, <1>4, <1>5

LEMMA ParentIsNotUnder ==
    ASSUME NEW C, NEW p \in Seq(C), p # <<>>
    PROVE  ~Under(Front(p), p)
  <1>1. Len(Front(p)) = Len(p) - 1 /\ Len(p) \in Nat
    BY FrontAndLast
  <1> QED BY <1>1 DEF Under, IsPrefix

(* What lies above a path, said in the two ways in which it is said.       *)
LEMMA AboveIsUnder ==
    ASSUME NEW C, NEW q \in Seq(C), NEW p \in Seq(C)
    PROVE  p \in Above(q) <=> p # <<>> /\ p # q /\ Under(q, p)
  <1>1. Len(q) \in Nat /\ Len(p) \in Nat /\ SubSeq(p, 1, Len(p)) = p /\ SubSeq(q, 1, Len(q)) = q
    OBVIOUS
  <1>2. ASSUME p \in Above(q) PROVE p # <<>> /\ p # q /\ Under(q, p)
    <2>1. PICK n \in 1 .. Len(q) - 1 : p = SubSeq(q, 1, n)
      BY <1>2 DEF Above
    <2>2. n \in 0 .. Len(q) /\ n >= 1 /\ n < Len(q)
      BY <1>1
    <2> DEFINE r == SubSeq(q, n + 1, Len(q))
    <2>3. r \in Seq(C) /\ q = p \o r
      BY <2>1, <2>2, CutInTwo
    <2>4. Len(p) = n
      BY <2>1, <2>2, CutAt
    <2> HIDE DEF r
    <2>5. Under(p \o r, p)
      BY <2>3, JoinedIsUnder
    <2>6. Len(<<>>) = 0
      OBVIOUS
    <2> QED BY <2>2, <2>3, <2>4, <2>5, <2>6
  <1>3. ASSUME p # <<>>, p # q, Under(q, p) PROVE p \in Above(q)
    <2>1. Len(p) <= Len(q) /\ p = SubSeq(q, 1, Len(p))
      BY <1>1, <1>3 DEF Under, IsPrefix
    <2>2. Len(p) # Len(q)
      BY <1>1, <1>3, <2>1
    <2>3. Len(p) # 0
      BY <1>3
    <2>4. Len(p) \in 1 .. Len(q) - 1
      <3> DEFINE a == Len(p)
                 b == Len(q)
      <3>1. a \in Nat /\ b \in Nat /\ a <= b /\ a # b /\ a # 0
        BY <1>1, <2>1, <2>2, <2>3
      <3> HIDE DEF a, b
      <3>2. a \in 1 .. b - 1
        BY <3>1
      <3> QED BY <3>2 DEF a, b
    <2> QED BY <2>1, <2>4 DEF Above
  <1> QED BY <1>2, <1>3

-----------------------------------------------------------------------------
(* Walks: Lookup, step by step, and where it leads.                        *)

(* The first k states of a walk; they show that Lookup is what it says.    *)
Trail(f, k, fs, at, path) ==
    /\ f = [n \in 0 .. k |-> f[n]]
    /\ f[0] = [at |-> at, rest |-> path]
    /\ \A n \in 1 .. k : f[n] = Advance(fs, f[n - 1])

LEMMA TrailOneMore ==
    ASSUME NEW fs, NEW at, NEW path, NEW k \in Nat, NEW f, Trail(f, k, fs, at, path)
    PROVE  \E g : Trail(g, k + 1, fs, at, path)
  <1> DEFINE next == Advance(fs, f[k])
             g == [n \in 0 .. k + 1 |-> IF n = k + 1 THEN next ELSE f[n]]
  <1>1. /\ f[0] = [at |-> at, rest |-> path]
        /\ \A n \in 1 .. k : f[n] = Advance(fs, f[n - 1])
    BY DEF Trail
  <1> HIDE DEF next
  <1>2. g[k + 1] = next /\ \A n \in 0 .. k : g[n] = f[n]
    OBVIOUS
  <1>3. g = [n \in 0 .. k + 1 |-> g[n]]
    OBVIOUS
  <1> HIDE DEF g
  <1>4. g[0] = [at |-> at, rest |-> path]
    BY <1>1, <1>2
  <1>5. ASSUME NEW n \in 1 .. k + 1 PROVE g[n] = Advance(fs, g[n - 1])
    <2>1. n - 1 \in 0 .. k /\ g[n - 1] = f[n - 1]
      BY <1>2
    <2>2. CASE n = k + 1
      <3>1. n - 1 = k
        BY <2>2
      <3> QED BY <1>2, <2>1, <2>2, <3>1 DEF next
    <2>3. CASE n # k + 1
      <3>1. n \in 1 .. k /\ n \in 0 .. k
        BY <2>3
      <3> QED BY <1>1, <1>2, <2>1, <3>1
    <2> QED BY <2>2, <2>3
  <1>6. Trail(g, k + 1, fs, at, path)
    BY <1>3, <1>4, <1>5 DEF Trail
  <1> QED BY <1>6

(* The states of a walk follow each other.                                 *)
IsWay(way, fs, at, path) ==
    /\ MaxSteps \in Nat /\ DOMAIN way = 0 .. MaxSteps /\ way[0] = [at |-> at, rest |-> path]
    /\ \A n \in 1 .. MaxSteps : way[n] = Advance(fs, way[n - 1])
LEMMA LookupSteps ==
    ASSUME NEW fs, NEW at, NEW path
    PROVE  IsWay(Lookup(fs, at, path), fs, at, path)
  <1> DEFINE N == MaxSteps
             T == {k \in 0 .. N : \E f : Trail(f, k, fs, at, path)}
             Body(f) == [n \in 0 .. N |->
                           IF n = 0 THEN [at |-> at, rest |-> path] ELSE Advance(fs, f[n - 1])]
  <1>1. N \in Nat /\ 0 \in 0 .. N
    BY MaxStepsAssumption
  <1> HIDE DEF N
  <1>2. 0 \in T
    <2> DEFINE f == [n \in 0 .. 0 |-> [at |-> at, rest |-> path]]
    <2>1. Trail(f, 0, fs, at, path)
      BY DEF Trail
    <2> HIDE DEF f
    <2> QED BY <1>1, <2>1
  <1>3. ASSUME NEW n \in 1 .. N, n - 1 \in T PROVE n \in T
    <2> DEFINE k == n - 1
    <2>1. k \in Nat /\ k + 1 = n /\ n \in 0 .. N
      BY <1>1
    <2>2. PICK f : Trail(f, k, fs, at, path)
      BY <1>3
    <2> HIDE DEF k
    <2>3. \E g : Trail(g, k + 1, fs, at, path)
      BY <2>1, <2>2, TrailOneMore
    <2> QED BY <2>1, <2>3
  <1> HIDE DEF T
  <1>4. \A n \in 1 .. N : n - 1 \in T => n \in T
    BY <1>3
  <1>5. N \in T
    BY <1>1, <1>2, <1>4, CountingUp
  <1>6. PICK f : Trail(f, N, fs, at, path)
    BY <1>5 DEF T
  <1>7. f = Body(f)
    <2>1. ASSUME NEW n \in 0 .. N PROVE f[n] = Body(f)[n]
      <3>1. CASE n = 0
        BY <1>6, <3>1 DEF Trail
      <3>2. CASE n # 0
        <4>1. n \in 1 .. N
          BY <1>1, <3>2
        <4> QED BY <1>6, <3>2, <4>1 DEF Trail
      <3> QED BY <3>1, <3>2
    <2>2. Body(f) = [n \in 0 .. N |-> Body(f)[n]]
      OBVIOUS
    <2>3. f = [n \in 0 .. N |-> f[n]]
      BY <1>6 DEF Trail
    <2> HIDE DEF Body
    <2> QED BY <2>1, <2>2, <2>3
  <1>8. PICK g : g = Body(g) /\ Lookup(fs, at, path) = g
    <2> HIDE DEF Body
    <2>1. (CHOOSE g : g = Body(g)) = Body(CHOOSE g : g = Body(g))
      BY <1>7
    <2> QED BY <2>1 DEF Lookup, Body, N
  <1>9. DOMAIN g = 0 .. N
    <2>1. DOMAIN Body(g) = 0 .. N
      OBVIOUS
    <2> HIDE DEF Body
    <2> QED BY <1>8, <2>1
  <1>10. \A n \in 0 .. N :
           g[n] = IF n = 0 THEN [at |-> at, rest |-> path] ELSE Advance(fs, g[n - 1])
    <2>1. \A n \in 0 .. N : Body(g)[n] =
            IF n = 0 THEN [at |-> at, rest |-> path] ELSE Advance(fs, g[n - 1])
      OBVIOUS
    <2> HIDE DEF Body
    <2> QED BY <1>8, <2>1
  <1>11. \A n \in 1 .. N : n \in 0 .. N /\ n # 0
    BY <1>1
  <1>12. g[0] = [at |-> at, rest |-> path] /\ \A n \in 1 .. N : g[n] = Advance(fs, g[n - 1])
    BY <1>1, <1>10, <1>11
  <1> QED BY <1>1, <1>8, <1>9, <1>12 DEF N, IsWay

(* Where a walk may be, and what may be left to look up.                   *)
States(fs) == [at : DOMAIN fs \cup {Gone}, rest : Typed]

(* A walk is nowhere, or at something that is no link.                     *)
Settled(fs, at) == at = Gone \/ (at \in DOMAIN fs /\ fs[at].kind # "link")

(* What is known of something that exists, and of what is above it.        *)
LEMMA PathFacts ==
    ASSUME NEW fs, IsFileSystem(fs, Names), NEW p \in DOMAIN fs
    PROVE  /\ p \in Seq(Names) /\ p # Gone /\ Parent(p) \in DOMAIN fs
           /\ p # <<>> => fs[Parent(p)] = Dir
           /\ IsNode(fs[p], Names)
           /\ \A n \in 0 .. Len(p) - 1 : SubSeq(p, 1, n) \in DOMAIN fs /\ fs[SubSeq(p, 1, n)] = Dir
  <1>1. p \in Seq(Names) /\ p # Gone /\ <<>> \in DOMAIN fs /\ IsNode(fs[p], Names)
    BY DEF IsFileSystem
  <1>2. \A n \in 0 .. Len(p) - 1 : SubSeq(p, 1, n) \in DOMAIN fs /\ fs[SubSeq(p, 1, n)] = Dir
    BY DEF IsFileSystem
  <1>3. ASSUME p # <<>> PROVE Front(p) \in DOMAIN fs /\ fs[Front(p)] = Dir
    <2>1. Front(p) = SubSeq(p, 1, Len(p) - 1)
      BY <1>1, <1>3, FrontAndLast
    <2>2. Len(p) - 1 \in 0 .. Len(p) - 1
      BY <1>1, <1>3
    <2> QED BY <1>2, <2>1, <2>2
  <1> QED BY <1>1, <1>2, <1>3 DEF Parent

LEMMA LinkFacts ==
    ASSUME NEW fs, IsFileSystem(fs, Names), NEW p \in DOMAIN fs
    PROVE  /\ fs[p].kind \in {"dir", "file", "link", "other"}
           /\ fs[p].kind = "dir" <=> fs[p] = Dir
           /\ fs[p].kind = "other" <=> fs[p] = Other
           /\ fs[p].kind = "link" =>
                /\ fs[p].target \in Typed /\ fs[p].absolute \in BOOLEAN
                /\ fs[p] = Link(fs[p].absolute, fs[p].target)
           /\ fs[p].kind = "file" =>
                fs[p].modes \in Modes /\ fs[p] = File(fs[p].content, fs[p].modes)
  <1> DEFINE node == fs[p]
  <1>1. IsNode(node, Names)
    BY PathFacts
  <1> HIDE DEF node
  <1>2. /\ node.kind \in {"dir", "file", "link", "other"}
        /\ node.kind = "dir" <=> node = Dir
        /\ node.kind = "other" <=> node = Other
        /\ node.kind = "link" =>
             /\ node.target \in Typed /\ node.absolute \in BOOLEAN
             /\ node = Link(node.absolute, node.target)
        /\ node.kind = "file" =>
             node.modes \in Modes /\ node = File(node.content, node.modes)
    BY <1>1 DEF IsNode, Dir, Other, Typed
  <1> QED BY <1>2 DEF node

LEMMA EnteredIsThere ==
    ASSUME NEW fs, IsFileSystem(fs, Names), NEW at \in DOMAIN fs, NEW name
    PROVE  /\ Entered(fs, at, name) \in DOMAIN fs \cup {Gone}
           /\ Entered(fs, at, name) # Gone => fs[at] = Dir
  <1>1. /\ Parent(at) \in DOMAIN fs
        /\ fs[at].kind = "dir" <=> fs[at] = Dir
    BY PathFacts, LinkFacts
  <1> QED BY <1>1 DEF Entered

LEMMA AdvanceIsWalk ==
    ASSUME NEW fs, IsFileSystem(fs, Names), NEW s \in States(fs), Settled(fs, s.at)
    PROVE  /\ Advance(fs, s) \in States(fs) /\ Settled(fs, Advance(fs, s).at)
           /\ s.rest = <<>> \/ s.at = Gone => Advance(fs, s) = s
  <1> DEFINE next == Entered(fs, s.at, Head(s.rest))
             left == Tail(s.rest)
  <1>1. /\ s.rest \in Typed /\ s.at \in DOMAIN fs \cup {Gone}
        /\ s = [at |-> s.at, rest |-> s.rest]
    BY DEF States
  <1>2. CASE s.rest = <<>> \/ s.at = Gone
    <2>1. Advance(fs, s) = s
      BY <1>2 DEF Advance
    <2> QED BY <2>1
  <1>3. CASE s.rest # <<>> /\ s.at # Gone
    <2>1. left \in Typed /\ s.at \in DOMAIN fs
      BY <1>1, <1>3 DEF Typed
    <2>2. next \in DOMAIN fs \cup {Gone} /\ (next # Gone => fs[s.at] = Dir)
      BY <2>1, EnteredIsThere
    <2>3. <<>> \in DOMAIN fs /\ fs[<<>>] = Dir /\ Gone \notin DOMAIN fs /\ Dir.kind = "dir"
      BY DEF IsFileSystem, Dir
    <2> HIDE DEF next, left
    <2>4. CASE next \in DOMAIN fs /\ fs[next].kind = "link"
      <3> DEFINE a == IF fs[next].absolute THEN <<>> ELSE s.at
                 r == fs[next].target \o left
      <3>1. Advance(fs, s) = [at |-> a, rest |-> r]
        BY <1>3, <2>4 DEF Advance, next, left
      <3>2. fs[next].target \in Typed
        BY <2>4, LinkFacts
      <3>3. r \in Typed
        BY <2>1, <3>2 DEF Typed
      <3>4. a \in DOMAIN fs /\ fs[a] = Dir
        BY <2>1, <2>2, <2>3, <2>4
      <3> HIDE DEF a, r
      <3> QED BY <1>3, <2>3, <3>1, <3>3, <3>4 DEF States, Settled
    <2>5. CASE ~(next \in DOMAIN fs /\ fs[next].kind = "link")
      <3>1. Advance(fs, s) = [at |-> next, rest |-> left]
        BY <1>3, <2>5 DEF Advance, next, left
      <3> QED BY <1>3, <2>1, <2>2, <2>5, <3>1 DEF States, Settled
    <2> QED BY <2>4, <2>5
  <1> QED BY <1>2, <1>3

LEMMA LookupIsWalk ==
    ASSUME NEW fs, IsFileSystem(fs, Names), NEW at, Settled(fs, at), NEW path \in Typed
    PROVE  \A n \in 0 .. MaxSteps : /\ Lookup(fs, at, path)[n] \in States(fs)
                                    /\ Settled(fs, Lookup(fs, at, path)[n].at)
  <1> DEFINE way == Lookup(fs, at, path)
             T == {n \in 0 .. MaxSteps : way[n] \in States(fs) /\ Settled(fs, way[n].at)}
  <1>1. /\ MaxSteps \in Nat /\ way[0] = [at |-> at, rest |-> path]
        /\ \A n \in 1 .. MaxSteps : way[n] = Advance(fs, way[n - 1])
    <2>1. IsWay(way, fs, at, path)
      BY LookupSteps
    <2> HIDE DEF way
    <2> QED BY <2>1 DEF IsWay
  <1> HIDE DEF way
  <1>2. 0 \in T
    BY <1>1 DEF States, Settled
  <1>3. ASSUME NEW n \in 1 .. MaxSteps, n - 1 \in T PROVE n \in T
    <2> DEFINE s == way[n - 1]
    <2>1. s \in States(fs) /\ Settled(fs, s.at) /\ n \in 0 .. MaxSteps
      BY <1>1, <1>3
    <2>2. way[n] = Advance(fs, s)
      BY <1>1
    <2> HIDE DEF s
    <2>3. Advance(fs, s) \in States(fs) /\ Settled(fs, Advance(fs, s).at)
      BY <2>1, AdvanceIsWalk
    <2> QED BY <2>1, <2>2, <2>3
  <1> HIDE DEF T
  <1>4. \A n \in 1 .. MaxSteps : n - 1 \in T => n \in T
    BY <1>3
  <1>5. \A n \in 0 .. MaxSteps : n \in T
    BY <1>1, <1>2, <1>4, CountingUp
  <1> QED BY <1>5 DEF T, way

(* A path leads nowhere, or to something that is no link.                  *)
LEMMA CanonicalIsNoLink ==
    ASSUME NEW fs, IsFileSystem(fs, Names), NEW at, Settled(fs, at), NEW path \in Typed
    PROVE  Settled(fs, Canonicalize(fs, at, path))
  <1> DEFINE end == Lookup(fs, at, path)[MaxSteps]
  <1>1. MaxSteps \in 0 .. MaxSteps
    BY MaxStepsAssumption
  <1>2. Settled(fs, end.at)
    BY <1>1, LookupIsWalk
  <1> HIDE DEF end
  <1>3. Canonicalize(fs, at, path) = IF end.rest = <<>> THEN end.at ELSE Gone
    BY DEF Canonicalize, end
  <1> QED BY <1>2, <1>3 DEF Settled

LEMMA WalkStops ==
    ASSUME NEW fs, NEW at, NEW path, NEW k \in 0 .. MaxSteps,
           \/ Lookup(fs, at, path)[k].rest = <<>>
           \/ Lookup(fs, at, path)[k].at = Gone
    PROVE  \A n \in k .. MaxSteps : Lookup(fs, at, path)[n] = Lookup(fs, at, path)[k]
  <1> DEFINE way == Lookup(fs, at, path)
             T == {n \in 0 .. MaxSteps : n >= k => way[n] = way[k]}
  <1>1. /\ MaxSteps \in Nat
        /\ \A n \in 1 .. MaxSteps : way[n] = Advance(fs, way[n - 1])
    <2>1. IsWay(way, fs, at, path)
      BY LookupSteps
    <2> HIDE DEF way
    <2> QED BY <2>1 DEF IsWay
  <1>2. way[k].rest = <<>> \/ way[k].at = Gone
    OBVIOUS
  <1> HIDE DEF way
  <1>3. 0 \in T
    <2>1. 0 >= k => k = 0
      OBVIOUS
    <2> QED BY <1>1, <2>1
  <1>4. ASSUME NEW n \in 1 .. MaxSteps, n - 1 \in T PROVE n \in T
    <2>1. n \in 0 .. MaxSteps /\ n - 1 \in 0 .. MaxSteps
      BY <1>1
    <2>2. CASE n <= k
      <3>1. n >= k => n = k
        BY <2>1, <2>2
      <3> QED BY <2>1, <3>1
    <2>3. CASE n > k
      <3>1. n - 1 >= k
        BY <2>1, <2>3
      <3>2. way[n - 1] = way[k]
        BY <1>4, <3>1
      <3>3. way[n] = Advance(fs, way[k])
        BY <1>1, <3>2
      <3>4. Advance(fs, way[k]) = way[k]
        BY <1>2 DEF Advance
      <3> QED BY <2>1, <3>3, <3>4
    <2> QED BY <2>1, <2>2, <2>3
  <1> HIDE DEF T
  <1>5. \A n \in 1 .. MaxSteps : n - 1 \in T => n \in T
    BY <1>4
  <1>6. \A n \in 0 .. MaxSteps : n \in T
    BY <1>1, <1>3, <1>5, CountingUp
  <1>7. \A n \in k .. MaxSteps : n \in 0 .. MaxSteps /\ n >= k
    BY <1>1
  <1>8. \A n \in k .. MaxSteps : way[n] = way[k]
    BY <1>6, <1>7 DEF T
  <1> QED BY <1>8 DEF way

(* A walk that has nothing left to look up has arrived.                    *)
LEMMA Arrived ==
    ASSUME NEW fs, NEW at, NEW path, NEW k \in 0 .. MaxSteps,
           Lookup(fs, at, path)[k].rest = <<>>
    PROVE  Canonicalize(fs, at, path) = Lookup(fs, at, path)[k].at
  <1> DEFINE way == Lookup(fs, at, path)
  <1>1. MaxSteps \in k .. MaxSteps
    BY MaxStepsAssumption
  <1>2. way[MaxSteps] = way[k]
    BY <1>1, WalkStops
  <1>3. way[k].rest = <<>>
    OBVIOUS
  <1> HIDE DEF way
  <1>4. way[MaxSteps].rest = <<>> /\ way[MaxSteps].at = way[k].at
    BY <1>2, <1>3
  <1> QED BY <1>4 DEF Canonicalize, way

(* A path that leads somewhere is nowhere lost.                            *)
LEMMA NeverLost ==
    ASSUME NEW fs, NEW at, NEW path, Canonicalize(fs, at, path) # Gone
    PROVE  /\ Lookup(fs, at, path)[MaxSteps].rest = <<>>
           /\ Lookup(fs, at, path)[MaxSteps].at = Canonicalize(fs, at, path)
           /\ \A n \in 0 .. MaxSteps : Lookup(fs, at, path)[n].at # Gone
  <1> DEFINE way == Lookup(fs, at, path)
  <1>1. way[MaxSteps].rest = <<>> /\ way[MaxSteps].at = Canonicalize(fs, at, path)
    BY DEF Canonicalize
  <1>2. ASSUME NEW n \in 0 .. MaxSteps, way[n].at = Gone PROVE FALSE
    <2>1. MaxSteps \in n .. MaxSteps
      BY MaxStepsAssumption
    <2>2. way[MaxSteps] = way[n]
      BY <1>2, <2>1, WalkStops
    <2> HIDE DEF way
    <2> QED BY <1>1, <1>2, <2>2
  <1> QED BY <1>1, <1>2

-----------------------------------------------------------------------------
(* A walk in two parts.                                                    *)

(* A walk with more to look up behind.                                     *)
Ahead(s, q) == [at |-> s.at, rest |-> s.rest \o q]

Onward(fs, at, name, left) ==
    LET next == Entered(fs, at, name)
    IN IF next \in DOMAIN fs /\ fs[next].kind = "link"
       THEN [at |-> IF fs[next].absolute THEN <<>> ELSE at, rest |-> fs[next].target \o left]
       ELSE [at |-> next, rest |-> left]

LEMMA AdvanceIsOnward ==
    ASSUME NEW fs, NEW s, s.rest # <<>>, s.at # Gone
    PROVE  Advance(fs, s) = Onward(fs, s.at, Head(s.rest), Tail(s.rest))
  BY DEF Advance, Onward

LEMMA OnwardAhead ==
    ASSUME NEW fs, IsFileSystem(fs, Names), NEW at, NEW name, NEW left \in Typed, NEW q \in Typed
    PROVE  Onward(fs, at, name, left \o q) = Ahead(Onward(fs, at, name, left), q)
  <1> DEFINE next == Entered(fs, at, name)
             B == Names \cup {".", ".."}
  <1>1. Onward(fs, at, name, left) =
          IF next \in DOMAIN fs /\ fs[next].kind = "link"
          THEN [at |-> IF fs[next].absolute THEN <<>> ELSE at, rest |-> fs[next].target \o left]
          ELSE [at |-> next, rest |-> left]
    BY DEF Onward
  <1>2. Onward(fs, at, name, left \o q) =
          IF next \in DOMAIN fs /\ fs[next].kind = "link"
          THEN [at |-> IF fs[next].absolute THEN <<>> ELSE at,
                rest |-> fs[next].target \o (left \o q)]
          ELSE [at |-> next, rest |-> left \o q]
    BY DEF Onward
  <1> HIDE DEF next
  <1>3. CASE next \in DOMAIN fs /\ fs[next].kind = "link"
    <2> DEFINE to == fs[next].target
               a == IF fs[next].absolute THEN <<>> ELSE at
               l == to \o left
               j == left \o q
    <2>1. l \o q = to \o j
      <3>1. to \in Seq(B) /\ left \in Seq(B) /\ q \in Seq(B)
        BY <1>3, LinkFacts DEF Typed
      <3> HIDE DEF to, B
      <3>2. JoinsTwice(to, left, q)
        BY <3>1, JoinTwice
      <3> QED BY <3>2 DEF JoinsTwice, l, j
    <2>2. Onward(fs, at, name, left) = [at |-> a, rest |-> l]
      BY <1>1, <1>3
    <2>3. Onward(fs, at, name, left \o q) = [at |-> a, rest |-> to \o j]
      BY <1>2, <1>3
    <2> HIDE DEF l, j, to, a
    <2>4. Ahead([at |-> a, rest |-> l], q) = [at |-> a, rest |-> l \o q]
      BY DEF Ahead
    <2> QED BY <2>1, <2>2, <2>3, <2>4
  <1>4. CASE ~(next \in DOMAIN fs /\ fs[next].kind = "link")
    <2> DEFINE j == left \o q
    <2>1. Onward(fs, at, name, left) = [at |-> next, rest |-> left]
      BY <1>1, <1>4
    <2>2. Onward(fs, at, name, j) = [at |-> next, rest |-> j]
      BY <1>2, <1>4
    <2>3. Ahead([at |-> next, rest |-> left], q) = [at |-> next, rest |-> j]
      BY DEF Ahead
    <2> HIDE DEF j
    <2>4. Onward(fs, at, name, j) = Ahead(Onward(fs, at, name, left), q)
      BY <2>1, <2>2, <2>3
    <2> QED BY <2>4 DEF j
  <1> QED BY <1>3, <1>4

LEMMA AheadStep ==
    ASSUME NEW fs, IsFileSystem(fs, Names), NEW s \in States(fs), s.rest # <<>>, s.at # Gone,
           NEW q \in Typed
    PROVE  Advance(fs, Ahead(s, q)) = Ahead(Advance(fs, s), q)
  <1> DEFINE r == s.rest
             j == r \o q
             t == Ahead(s, q)
             left == Tail(r)
             B == Names \cup {".", ".."}
  <1>1. r \in Seq(B) /\ q \in Seq(B) /\ r # <<>>
    BY DEF States, Typed
  <1>2. j # <<>> /\ Head(j) = Head(r) /\ Tail(j) = left \o q /\ left \in Seq(B)
    <2> HIDE DEF B, r
    <2>1. HeadJoins(r, q) /\ Tail(r) \in Seq(B)
      BY <1>1, HeadOfJoint
    <2> QED BY <2>1 DEF HeadJoins
  <1>3. t.at = s.at /\ t.rest = j
    BY DEF Ahead
  <1>4. left \in Typed
    BY <1>2 DEF Typed
  <1> HIDE DEF r, j, t, left
  <1>5. Advance(fs, t) = Onward(fs, s.at, Head(r), left \o q)
    <2>1. t.rest # <<>> /\ t.at # Gone
      BY <1>2, <1>3
    <2>2. Advance(fs, t) = Onward(fs, t.at, Head(t.rest), Tail(t.rest))
      BY <2>1, AdvanceIsOnward
    <2> QED BY <1>2, <1>3, <2>2
  <1>6. Advance(fs, s) = Onward(fs, s.at, Head(r), left)
    BY AdvanceIsOnward DEF r, left
  <1>7. Onward(fs, s.at, Head(r), left \o q) = Ahead(Onward(fs, s.at, Head(r), left), q)
    <2> DEFINE name == Head(r)
    <2> HIDE DEF name
    <2>1. Onward(fs, s.at, name, left \o q) = Ahead(Onward(fs, s.at, name, left), q)
      BY <1>4, OnwardAhead
    <2> QED BY <2>1 DEF name
  <1>8. Advance(fs, t) = Ahead(Advance(fs, s), q)
    BY <1>5, <1>6, <1>7
  <1> QED BY <1>8 DEF t

(* The first part of a path is looked up first.                            *)
LEMMA FirstPart ==
    ASSUME NEW fs, IsFileSystem(fs, Names), NEW at, Settled(fs, at),
           NEW p \in Typed, NEW q \in Typed, Canonicalize(fs, at, p) # Gone
    PROVE  \E k \in 0 .. MaxSteps :
             Lookup(fs, at, p \o q)[k] = [at |-> Canonicalize(fs, at, p), rest |-> q]
  <1> DEFINE j == p \o q
             way == Lookup(fs, at, p)
             way2 == Lookup(fs, at, j)
             T == {n \in 0 .. MaxSteps : \E k \in 0 .. n : way2[k] = Ahead(way[n], q)}
  <1>1. /\ MaxSteps \in Nat /\ way[0] = [at |-> at, rest |-> p]
        /\ \A n \in 1 .. MaxSteps : way[n] = Advance(fs, way[n - 1])
    <2>1. IsWay(way, fs, at, p)
      BY LookupSteps
    <2> HIDE DEF way
    <2> QED BY <2>1 DEF IsWay
  <1>2. /\ way2[0] = [at |-> at, rest |-> j]
        /\ \A n \in 1 .. MaxSteps : way2[n] = Advance(fs, way2[n - 1])
    <2> HIDE DEF j
    <2>1. IsWay(way2, fs, at, j)
      BY LookupSteps
    <2> HIDE DEF way2
    <2> QED BY <2>1 DEF IsWay
  <1>3. \A n \in 0 .. MaxSteps : way[n] \in States(fs)
    BY LookupIsWalk
  <1>4. /\ way[MaxSteps].rest = <<>> /\ way[MaxSteps].at = Canonicalize(fs, at, p)
        /\ \A n \in 0 .. MaxSteps : way[n].at # Gone
    BY NeverLost
  <1> HIDE DEF way, way2
  <1>5. 0 \in T
    <2>1. way2[0] = Ahead(way[0], q)
      BY <1>1, <1>2 DEF Ahead
    <2> QED BY <1>1, <2>1
  <1>6. ASSUME NEW n \in 1 .. MaxSteps, n - 1 \in T PROVE n \in T
    <2> DEFINE s == way[n - 1]
    <2>1. n \in 0 .. MaxSteps /\ n - 1 \in 0 .. MaxSteps /\ way[n] = Advance(fs, s)
      BY <1>1
    <2>2. PICK k \in 0 .. n - 1 : way2[k] = Ahead(s, q)
      BY <1>6
    <2>3. s \in States(fs) /\ s.at # Gone
      BY <1>3, <1>4, <2>1
    <2> HIDE DEF s
    <2>4. CASE s.rest = <<>>
      <3>1. way[n] = s
        BY <2>1, <2>4 DEF Advance
      <3>2. k \in 0 .. n
        OBVIOUS
      <3> QED BY <2>1, <2>2, <3>1, <3>2
    <2>5. CASE s.rest # <<>>
      <3> DEFINE h == k + 1
      <3>1. h \in 1 .. MaxSteps /\ h \in 0 .. n /\ h - 1 = k
        BY <1>1
      <3>2. way2[h] = Advance(fs, way2[k])
        BY <1>2, <3>1
      <3> HIDE DEF h
      <3>3. Advance(fs, Ahead(s, q)) = Ahead(Advance(fs, s), q)
        BY <2>3, <2>5, AheadStep
      <3>4. way2[h] = Ahead(way[n], q)
        BY <2>1, <2>2, <3>2, <3>3
      <3> QED BY <2>1, <3>1, <3>4
    <2> QED BY <2>4, <2>5
  <1> HIDE DEF T
  <1>7. \A n \in 1 .. MaxSteps : n - 1 \in T => n \in T
    BY <1>6
  <1>8. MaxSteps \in T
    <2>1. \A n \in 0 .. MaxSteps : n \in T
      BY <1>1, <1>5, <1>7, CountingUp
    <2> QED BY <1>1, <2>1
  <1>9. PICK k \in 0 .. MaxSteps : way2[k] = Ahead(way[MaxSteps], q)
    BY <1>8 DEF T
  <1>10. way2[k] = [at |-> Canonicalize(fs, at, p), rest |-> q]
    <2>1. <<>> \o q = q
      BY DEF Typed
    <2> QED BY <1>4, <1>9, <2>1 DEF Ahead
  <1> QED BY <1>10 DEF way2, j

OnlyDots(path) == path \in Typed /\ \A n \in DOMAIN path : path[n] = "."

LEMMA DotStep ==
    ASSUME NEW fs, IsFileSystem(fs, Names), NEW here \in DOMAIN fs, fs[here].kind # "link",
           NEW s, s.at = here, OnlyDots(s.rest), Advance(fs, s).at # Gone
    PROVE  /\ Advance(fs, s).at = here /\ OnlyDots(Advance(fs, s).rest)
           /\ s.rest # <<>> => fs[here].kind = "dir"
  <1> DEFINE r == s.rest
             next == Entered(fs, here, ".")
  <1>1. Gone \notin DOMAIN fs
    BY DEF IsFileSystem
  <1>2. CASE r = <<>>
    BY <1>2 DEF Advance
  <1>3. CASE r # <<>>
    <2>1. Head(r) = "." /\ OnlyDots(Tail(r))
      <3>1. r \in Typed /\ \A n \in DOMAIN r : r[n] = "."
        BY DEF OnlyDots
      <3> HIDE DEF r
      <3>2. Head(r) = "." /\ Tail(r) \in Typed /\ \A n \in DOMAIN Tail(r) : Tail(r)[n] = "."
        BY <1>3, <3>1 DEF Typed
      <3> QED BY <3>2 DEF OnlyDots
    <2> DEFINE left == Tail(r)
    <2>2. Advance(fs, s) = IF next \in DOMAIN fs /\ fs[next].kind = "link"
                           THEN [at |-> IF fs[next].absolute THEN <<>> ELSE here,
                                 rest |-> fs[next].target \o left]
                           ELSE [at |-> next, rest |-> left]
      <3> HIDE DEF next, left
      <3> QED BY <1>1, <1>3, <2>1 DEF Advance, next, left
    <2>3. next = IF fs[here].kind # "dir" THEN Gone ELSE here
      BY DEF Entered
    <2> HIDE DEF next, left
    <2>4. fs[here].kind = "dir" /\ next = here
      BY <1>1, <2>2, <2>3
    <2>5. Advance(fs, s) = [at |-> here, rest |-> left]
      BY <2>2, <2>4
    <2> QED BY <2>1, <2>4, <2>5 DEF left
  <1> QED BY <1>2, <1>3

(* Where only dots are left, the walk stays.                               *)
LEMMA DotsStay ==
    ASSUME NEW fs, IsFileSystem(fs, Names), NEW at, NEW path, Canonicalize(fs, at, path) # Gone,
           NEW here \in DOMAIN fs, fs[here].kind # "link", NEW dots, OnlyDots(dots),
           NEW k \in 0 .. MaxSteps, Lookup(fs, at, path)[k] = [at |-> here, rest |-> dots]
    PROVE  Canonicalize(fs, at, path) = here
  <1> DEFINE way == Lookup(fs, at, path)
             T == {n \in 0 .. MaxSteps : n >= k => way[n].at = here /\ OnlyDots(way[n].rest)}
  <1>1. /\ MaxSteps \in Nat
        /\ \A n \in 1 .. MaxSteps : way[n] = Advance(fs, way[n - 1])
    <2>1. IsWay(way, fs, at, path)
      BY LookupSteps
    <2> HIDE DEF way
    <2> QED BY <2>1 DEF IsWay
  <1>2. /\ way[MaxSteps].at = Canonicalize(fs, at, path)
        /\ \A n \in 0 .. MaxSteps : way[n].at # Gone
    BY NeverLost
  <1>3. way[k].at = here /\ OnlyDots(way[k].rest)
    OBVIOUS
  <1> HIDE DEF way
  <1>4. 0 \in T
    <2>1. 0 >= k => k = 0
      OBVIOUS
    <2> QED BY <1>1, <1>3, <2>1
  <1>5. ASSUME NEW n \in 1 .. MaxSteps, n - 1 \in T PROVE n \in T
    <2>1. n \in 0 .. MaxSteps /\ n - 1 \in 0 .. MaxSteps
      BY <1>1
    <2>2. CASE n <= k
      <3>1. n >= k => n = k
        BY <2>1, <2>2
      <3> QED BY <1>3, <2>1, <3>1
    <2>3. CASE n > k
      <3> DEFINE s == way[n - 1]
      <3>1. n - 1 >= k
        BY <2>1, <2>3
      <3>2. s.at = here /\ OnlyDots(s.rest)
        BY <1>5, <3>1
      <3>3. way[n] = Advance(fs, s) /\ way[n].at # Gone
        BY <1>1, <1>2, <2>1
      <3> HIDE DEF s
      <3>4. Advance(fs, s).at # Gone
        BY <3>3
      <3>5. Advance(fs, s).at = here /\ OnlyDots(Advance(fs, s).rest)
        BY <3>2, <3>4, DotStep
      <3> QED BY <2>1, <3>3, <3>5
    <2> QED BY <2>1, <2>2, <2>3
  <1> HIDE DEF T
  <1>6. \A n \in 1 .. MaxSteps : n - 1 \in T => n \in T
    BY <1>5
  <1>7. MaxSteps \in T /\ MaxSteps >= k
    <2>1. \A n \in 0 .. MaxSteps : n \in T
      BY <1>1, <1>4, <1>6, CountingUp
    <2> QED BY <1>1, <2>1
  <1> QED BY <1>2, <1>7 DEF T

-----------------------------------------------------------------------------
(* Paths without dots.                                                     *)

(* "." may be left out of a path, one part at a time.                      *)
LEMMA DotsGo ==
    ASSUME NEW a \in Typed, NEW b \in Typed, NEW x \in Names \cup {".", ".."}
    PROVE  /\ WithoutDots(a) \in Typed /\ WithoutDots(<<>>) = <<>>
           /\ WithoutDots(a \o b) = WithoutDots(a) \o WithoutDots(b)
           /\ WithoutDots(<<x>>) = IF x = "." THEN <<>> ELSE <<x>>
  <1> DEFINE S == (Names \cup Odd) \ {"."}
  <1>1. \A y \in Names \cup {".", ".."} : y \in S <=> y # "."
    BY CallsAssumption
  <1> HIDE DEF S
  <1>2. /\ Selected(a \o b, S) = Selected(a, S) \o Selected(b, S)
        /\ Selected(a, S) \in Typed
    <2> DEFINE B == Names \cup {".", ".."}
    <2>1. a \in Seq(B) /\ b \in Seq(B)
      BY DEF Typed
    <2> HIDE DEF B
    <2>2. Selected(a \o b, S) = Selected(a, S) \o Selected(b, S)
      BY <2>1, SelectedJoint
    <2>3. Selected(a, S) \in Seq(B)
      BY <2>1, SelectedPlaces
    <2> QED BY <2>2, <2>3 DEF B, Typed
  <1>3. /\ Selected(<<x>>, S) = IF x \in S THEN <<x>> ELSE <<>>
        /\ Selected(<<>>, S) = <<>>
    BY SelectedOne
  <1> QED BY <1>1, <1>2, <1>3 DEF WithoutDots, S

LEMMA DotsHead ==
    ASSUME NEW path \in Typed, path # <<>>
    PROVE  /\ Head(path) \in Names \cup {".", ".."} /\ Tail(path) \in Typed
           /\ Head(path) = "." => WithoutDots(path) = WithoutDots(Tail(path))
           /\ Head(path) # "." => /\ WithoutDots(path) # <<>>
                                  /\ Head(WithoutDots(path)) = Head(path)
                                  /\ Tail(WithoutDots(path)) = WithoutDots(Tail(path))
  <1> DEFINE B == Names \cup {".", ".."}
             x == Head(path)
             t == Tail(path)
             w == WithoutDots(t)
  <1>1. x \in B /\ t \in Seq(B) /\ <<x>> \in Seq(B) /\ path = <<x>> \o t
    <2>1. path \in Seq(B)
      BY DEF Typed
    <2> HIDE DEF B
    <2> QED BY <2>1
  <1> HIDE DEF x, t
  <1>2. x \in B /\ t \in Typed /\ <<x>> \in Typed
    BY <1>1 DEF Typed
  <1> HIDE DEF w
  <1>3. /\ w \in Typed
        /\ WithoutDots(path) = WithoutDots(<<x>>) \o w
        /\ WithoutDots(<<x>>) = IF x = "." THEN <<>> ELSE <<x>>
    <2>1. WithoutDots(<<x>> \o t) = WithoutDots(<<x>>) \o WithoutDots(t)
      BY <1>2, DotsGo
    <2>2. WithoutDots(<<x>>) = IF x = "." THEN <<>> ELSE <<x>>
      BY <1>2, DotsGo
    <2>3. w \in Typed
      BY <1>2, DotsGo DEF w
    <2> QED BY <1>1, <2>1, <2>2, <2>3 DEF w
  <1>4. CASE x = "."
    <2>1. <<>> \o w = w
      BY <1>3 DEF Typed
    <2> QED BY <1>2, <1>3, <1>4, <2>1 DEF x, t, w
  <1>5. CASE x # "."
    <2>1. WithoutDots(path) = <<x>> \o w
      BY <1>3, <1>5
    <2>2. <<x>> \o w # <<>> /\ Head(<<x>> \o w) = x /\ Tail(<<x>> \o w) = w
      <3>1. w \in Seq(B) /\ x \in B
        BY <1>2, <1>3 DEF Typed
      <3> HIDE DEF B
      <3>2. Len(<<x>> \o w) = 1 + Len(w) /\ Len(w) \in Nat /\ (<<x>> \o w)[1] = x
        BY <3>1
      <3>3. Tail(<<x>> \o w) = w
        BY <3>1
      <3> QED BY <3>2, <3>3
    <2> QED BY <1>2, <1>5, <2>1, <2>2 DEF x, t, w
  <1> QED BY <1>4, <1>5

LEMMA NoDots ==
    ASSUME NEW path \in Typed, \A n \in DOMAIN path : path[n] # "."
    PROVE  WithoutDots(path) = path
  <1> DEFINE B == Names \cup {".", ".."}
             S == (Names \cup Odd) \ {"."}
  <1>1. path \in Seq(B)
    BY DEF Typed
  <1>2. \A y \in B : y # "." => y \in S
    BY CallsAssumption
  <1>3. \A n \in DOMAIN path : path[n] \in B
    BY <1>1
  <1> HIDE DEF B, S
  <1>4. \A n \in DOMAIN path : path[n] \in S
    BY <1>2, <1>3
  <1>5. Selected(path, S) = path
    BY <1>1, <1>4, SelectedAll
  <1> QED BY <1>5 DEF WithoutDots, S

-----------------------------------------------------------------------------
(* The same tree in another place.                                         *)

(* What is under root in fs is under other in m, its links without dots.   *)
MirrorsAt(m, fs, root, other, q) ==
    /\ other \o q # Gone
    /\ other \o q \in DOMAIN m <=> root \o q \in DOMAIN fs
    /\ root \o q \in DOMAIN fs =>
         /\ m[other \o q].kind = fs[root \o q].kind
         /\ fs[root \o q].kind = "link" =>
              /\ ~fs[root \o q].absolute /\ ~m[other \o q].absolute
              /\ m[other \o q].target = WithoutDots(fs[root \o q].target)
Mirrors(m, fs, root, other) == \A q \in Seq(Names) : MirrorsAt(m, fs, root, other, q)

Image(s, root, other) ==
    [at |-> other \o RelativeTo(s.at, root), rest |-> WithoutDots(s.rest)]

HasImage(root, q, other, rest) ==
    Image([at |-> root \o q, rest |-> rest], root, other)
      = [at |-> other \o q, rest |-> WithoutDots(rest)]
LEMMA ImageOf ==
    ASSUME NEW root \in Seq(Names), NEW q \in Seq(Names), NEW other, NEW rest
    PROVE  HasImage(root, q, other, rest)
  <1>1. RelativeTo(root \o q, root) = q
    BY JoinedIsUnder
  <1> QED BY <1>1 DEF Image, HasImage

(* The way up stays below the root on both sides.                          *)
ParentMirrored(root, other, q) ==
    /\ q # <<>> /\ Front(q) \in Seq(Names)
    /\ Parent(root \o q) = root \o Front(q) /\ Parent(other \o q) = other \o Front(q)
LEMMA ParentInMirror ==
    ASSUME NEW C, Names \subseteq C, NEW root \in Seq(Names), root # <<>>, NEW other \in Seq(C),
           NEW q \in Seq(Names), Under(Parent(root \o q), root)
    PROVE  ParentMirrored(root, other, q)
  <1>1. q # <<>>
    <2>1. SUFFICES ASSUME q = <<>> PROVE FALSE
      OBVIOUS
    <2>2. root \o q = root
      BY <2>1, JoinNothing
    <2>3. Under(Front(root), root)
      BY <2>2 DEF Parent
    <2> QED BY <2>3, ParentIsNotUnder
  <1>2. Front(q) \in Seq(Names)
    BY <1>1, FrontAndLast
  <1>3. Front(root \o q) = root \o Front(q) /\ root \o q # <<>>
    BY <1>1, FrontOfJoint
  <1>4. Front(other \o q) = other \o Front(q) /\ other \o q # <<>>
    <2>1. q \in Seq(C)
      OBVIOUS
    <2> QED BY <1>1, <2>1, FrontOfJoint
  <1> QED BY <1>1, <1>2, <1>3, <1>4 DEF Parent, ParentMirrored

LEMMA MirroredStep ==
    ASSUME NEW C, Names \subseteq C, NEW fs, IsFileSystem(fs, Names),
           NEW root \in DOMAIN fs, root # <<>>, NEW other \in Seq(C),
           NEW m, Mirrors(m, fs, root, other),
           NEW s \in States(fs), Settled(fs, s.at), s.at # Gone, Under(s.at, root),
           Advance(fs, s).at # Gone, Under(Advance(fs, s).at, root)
    PROVE  \/ Image(Advance(fs, s), root, other) = Image(s, root, other)
           \/ Image(Advance(fs, s), root, other) = Advance(m, Image(s, root, other))
  <1> DEFINE t == Advance(fs, s)
             q == RelativeTo(s.at, root)
             i == Image(s, root, other)
             name == Head(s.rest)
             left == Tail(s.rest)
             next == Entered(fs, s.at, name)
  <1>1. /\ s.at \in DOMAIN fs /\ s.rest \in Typed /\ s = [at |-> s.at, rest |-> s.rest]
        /\ root \in Seq(Names) /\ s.at \in Seq(Names)
    BY PathFacts DEF States
  <1>2. q \in Seq(Names) /\ s.at = root \o q
    BY <1>1, UnderSplits
  <1>3. i = [at |-> other \o q, rest |-> WithoutDots(s.rest)]
    BY DEF Image
  <1> HIDE DEF q
  <1> HIDE DEF i
  <1>4. CASE s.rest = <<>>
    BY <1>4 DEF Advance
  <1>5. CASE s.rest # <<>>
    <2>1. /\ name \in Names \cup {".", ".."} /\ left \in Typed
          /\ name = "." => WithoutDots(s.rest) = WithoutDots(left)
          /\ name # "." => /\ WithoutDots(s.rest) # <<>>
                           /\ Head(WithoutDots(s.rest)) = name
                           /\ Tail(WithoutDots(s.rest)) = WithoutDots(left)
      BY <1>1, <1>5, DotsHead
    <2> HIDE DEF name, left
    <2>2. t = IF next \in DOMAIN fs /\ fs[next].kind = "link"
              THEN [at   |-> IF fs[next].absolute THEN <<>> ELSE s.at,
                    rest |-> fs[next].target \o left]
              ELSE [at |-> next, rest |-> left]
      BY <1>5 DEF Advance, name, left
    <2>3. Gone \notin DOMAIN fs
      BY DEF IsFileSystem
    <2>4. next # Gone
      BY <2>2, <2>3
    <2>5. fs[s.at] = Dir /\ fs[s.at].kind = "dir" /\ next \in DOMAIN fs
      BY <1>1, <2>4, EnteredIsThere DEF Dir
    <2> DEFINE other_next == Entered(m, i.at, name)
    <2>6. /\ MirrorsAt(m, fs, root, other, q)
          /\ i.at = other \o q /\ i.at # Gone /\ m[i.at].kind = "dir"
      <3>1. MirrorsAt(m, fs, root, other, q)
        BY <1>2 DEF Mirrors
      <3> QED BY <1>1, <1>2, <1>3, <2>5, <3>1 DEF MirrorsAt
    <2>7. name # "." =>
            Advance(m, i) = IF other_next \in DOMAIN m /\ m[other_next].kind = "link"
                            THEN [at   |-> IF m[other_next].absolute THEN <<>> ELSE i.at,
                                  rest |-> m[other_next].target \o WithoutDots(left)]
                            ELSE [at |-> other_next, rest |-> WithoutDots(left)]
      <3> DEFINE rest == WithoutDots(s.rest)
      <3>1. i.rest = rest /\ i.at # Gone
        BY <1>3, <2>6
      <3>2. name # "." => rest # <<>> /\ Head(rest) = name /\ Tail(rest) = WithoutDots(left)
        BY <2>1
      <3> HIDE DEF rest, next
      <3> QED BY <3>1, <3>2 DEF Advance
    <2> HIDE DEF next, other_next
    <2>8. CASE name = "."
      <3>1. next = s.at
        BY <2>5, <2>8 DEF next, Entered
      <3>2. t = [at |-> root \o q, rest |-> left]
        BY <1>2, <2>2, <2>5, <3>1
      <3> HIDE DEF t
      <3>3. Image(t, root, other) = [at |-> other \o q, rest |-> WithoutDots(left)]
        <4>1. HasImage(root, q, other, left)
          BY <1>1, <1>2, ImageOf
        <4> QED BY <3>2, <4>1 DEF HasImage
      <3>4. Image(t, root, other) = i
        BY <1>3, <2>1, <2>8, <3>3
      <3> QED BY <3>4 DEF t, i
    <2>9. CASE name = ".."
      <3>1. next = Parent(s.at) /\ other_next = Parent(i.at)
        BY <2>5, <2>6, <2>9 DEF next, other_next, Entered
      <3>2. fs[next].kind # "link"
        <4>1. s.at # <<>> => fs[Parent(s.at)] = Dir
          BY <1>1, PathFacts
        <4>2. s.at = <<>> => Parent(s.at) = s.at
          BY DEF Parent
        <4> QED BY <2>5, <3>1, <4>1, <4>2 DEF Dir
      <3>3. t = [at |-> next, rest |-> left]
        BY <2>2, <3>2
      <3>4. Under(Parent(root \o q), root)
        BY <1>2, <3>1, <3>3
      <3> DEFINE f == Front(q)
      <3>5. f \in Seq(Names) /\ next = root \o f /\ other_next = other \o f
        <4>1. /\ q # <<>> /\ Front(q) \in Seq(Names)
              /\ Parent(root \o q) = root \o Front(q) /\ Parent(other \o q) = other \o Front(q)
          <5>1. root \in Seq(Names) /\ q \in Seq(Names)
            BY <1>1, <1>2
          <5>2. ParentMirrored(root, other, q)
            BY <3>4, <5>1, ParentInMirror
          <5> QED BY <5>2 DEF ParentMirrored
        <4> QED BY <1>2, <2>6, <3>1, <4>1
      <3> HIDE DEF f
      <3>6. MirrorsAt(m, fs, root, other, f)
        BY <3>5 DEF Mirrors
      <3>7. m[other_next].kind # "link"
        BY <2>5, <3>2, <3>5, <3>6 DEF MirrorsAt
      <3>8. Advance(m, i) = [at |-> other_next, rest |-> WithoutDots(left)]
        BY <2>7, <2>9, <3>7
      <3> HIDE DEF t
      <3>9. Image(t, root, other) = [at |-> other \o f, rest |-> WithoutDots(left)]
        <4>1. t = [at |-> root \o f, rest |-> left]
          BY <3>3, <3>5
        <4>2. HasImage(root, f, other, left)
          BY <1>1, <3>5, ImageOf
        <4> QED BY <4>1, <4>2 DEF HasImage
      <3>10. Image(t, root, other) = Advance(m, i)
        BY <3>5, <3>8, <3>9
      <3> QED BY <3>10 DEF t, i
    <2>10. CASE name \in Names /\ name # "." /\ name # ".."
      <3> DEFINE f == Append(q, name)
      <3>1. next = Append(s.at, name)
        BY <2>4, <2>5, <2>10 DEF next, Entered
      <3>2. f \in Seq(Names) /\ next = root \o f
        <4>1. Append(root \o q, name) = root \o Append(q, name)
          <5>1. root \in Seq(Names) /\ q \in Seq(Names) /\ name \in Names
            BY <1>1, <1>2, <2>10
          <5>2. AppendJoins(root, q, name)
            BY <5>1, AppendJoint
          <5> QED BY <5>2 DEF AppendJoins
        <4>2. Append(q, name) \in Seq(Names)
          BY <1>2, <2>10
        <4> QED BY <1>2, <3>1, <4>1, <4>2
      <3>3. Append(other \o q, name) = other \o f
        <4>1. q \in Seq(C) /\ name \in C
          BY <1>2, <2>10
        <4>2. AppendJoins(other, q, name)
          BY <4>1, AppendJoint
        <4> QED BY <4>2 DEF AppendJoins
      <3> HIDE DEF f
      <3>4. MirrorsAt(m, fs, root, other, f)
        BY <3>2 DEF Mirrors
      <3>5. other \o f \in DOMAIN m
        BY <2>5, <3>2, <3>4 DEF MirrorsAt
      <3>6. other_next = other \o f
        BY <2>6, <2>10, <3>3, <3>5 DEF other_next, Entered
      <3>7. CASE fs[next].kind = "link"
        <4> DEFINE to == fs[next].target
        <4>1. /\ ~fs[next].absolute /\ ~m[other_next].absolute
              /\ m[other_next].kind = "link" /\ m[other_next].target = WithoutDots(to)
          BY <2>5, <3>2, <3>4, <3>6, <3>7 DEF MirrorsAt
        <4>2. to \in Typed
          BY <2>5, <3>7, LinkFacts
        <4> HIDE DEF to
        <4>3. t = [at |-> root \o q, rest |-> to \o left]
          BY <1>2, <2>2, <2>5, <3>7, <4>1 DEF to
        <4>4. Advance(m, i) = [at |-> i.at, rest |-> WithoutDots(to) \o WithoutDots(left)]
          BY <2>7, <2>10, <3>5, <3>6, <4>1
        <4>5. WithoutDots(to \o left) = WithoutDots(to) \o WithoutDots(left)
          BY <2>1, <4>2, DotsGo
        <4> HIDE DEF t
        <4>6. Image(t, root, other) = [at |-> other \o q, rest |-> WithoutDots(to \o left)]
          <5>1. HasImage(root, q, other, to \o left)
            BY <1>1, <1>2, ImageOf
          <5> QED BY <4>3, <5>1 DEF HasImage
        <4>7. Image(t, root, other) = Advance(m, i)
          BY <2>6, <4>4, <4>5, <4>6
        <4> QED BY <4>7 DEF t, i
      <3>8. CASE fs[next].kind # "link"
        <4>1. m[other_next].kind # "link"
          BY <2>5, <3>2, <3>4, <3>6, <3>8 DEF MirrorsAt
        <4>2. t = [at |-> root \o f, rest |-> left]
          BY <2>2, <3>2, <3>8
        <4>3. Advance(m, i) = [at |-> other_next, rest |-> WithoutDots(left)]
          BY <2>7, <2>10, <4>1
        <4> HIDE DEF t
        <4>4. Image(t, root, other) = [at |-> other \o f, rest |-> WithoutDots(left)]
          <5>1. HasImage(root, f, other, left)
            BY <1>1, <3>2, ImageOf
          <5> QED BY <4>2, <5>1 DEF HasImage
        <4>5. Image(t, root, other) = Advance(m, i)
          BY <3>6, <4>3, <4>4
        <4> QED BY <4>5 DEF t, i
      <3> QED BY <3>7, <3>8
    <2> QED BY <2>1, <2>8, <2>9, <2>10
  <1> QED BY <1>4, <1>5

(* A walk that stays under root is, without its dots, a walk in the mirror.*)
LEMMA MirroredWalk ==
    ASSUME NEW C, Names \subseteq C, NEW fs, IsFileSystem(fs, Names),
           NEW root \in DOMAIN fs, root # <<>>, NEW other \in Seq(C),
           NEW m, Mirrors(m, fs, root, other),
           NEW at, Settled(fs, at), NEW path \in Typed, Canonicalize(fs, at, path) # Gone,
           \A n \in 0 .. MaxSteps : Under(Lookup(fs, at, path)[n].at, root)
    PROVE  Canonicalize(m, other \o RelativeTo(at, root), WithoutDots(path))
             = other \o RelativeTo(Canonicalize(fs, at, path), root)
  <1> DEFINE way == Lookup(fs, at, path)
             at2 == other \o RelativeTo(at, root)
             path2 == WithoutDots(path)
             way2 == Lookup(m, at2, path2)
             T == {n \in 0 .. MaxSteps : \E k \in 0 .. n : way2[k] = Image(way[n], root, other)}
  <1>1. /\ MaxSteps \in Nat /\ way[0] = [at |-> at, rest |-> path]
        /\ \A n \in 1 .. MaxSteps : way[n] = Advance(fs, way[n - 1])
    <2>1. IsWay(way, fs, at, path)
      BY LookupSteps
    <2> HIDE DEF way
    <2> QED BY <2>1 DEF IsWay
  <1>2. /\ MaxSteps \in Nat /\ way2[0] = [at |-> at2, rest |-> path2]
        /\ \A n \in 1 .. MaxSteps : way2[n] = Advance(m, way2[n - 1])
    <2> HIDE DEF at2, path2
    <2>1. IsWay(way2, m, at2, path2)
      BY LookupSteps
    <2> HIDE DEF way2
    <2> QED BY <2>1 DEF IsWay
  <1>3. \A n \in 0 .. MaxSteps : way[n] \in States(fs) /\ Settled(fs, way[n].at)
    BY LookupIsWalk
  <1>4. /\ way[MaxSteps].rest = <<>> /\ way[MaxSteps].at = Canonicalize(fs, at, path)
        /\ \A n \in 0 .. MaxSteps : way[n].at # Gone
    BY NeverLost
  <1>5. \A n \in 0 .. MaxSteps : Under(way[n].at, root)
    OBVIOUS
  <1> HIDE DEF way, way2
  <1>6. 0 \in T
    <2>1. way2[0] = Image(way[0], root, other)
      BY <1>1, <1>2 DEF Image
    <2> QED BY <1>1, <2>1
  <1>7. ASSUME NEW n \in 1 .. MaxSteps, n - 1 \in T PROVE n \in T
    <2> DEFINE s == way[n - 1]
               t == Advance(fs, s)
    <2>1. n \in 0 .. MaxSteps /\ n - 1 \in 0 .. MaxSteps /\ way[n] = t
      BY <1>1
    <2>2. PICK k \in 0 .. n - 1 : way2[k] = Image(s, root, other)
      BY <1>7
    <2>3. /\ s \in States(fs) /\ Settled(fs, s.at) /\ s.at # Gone /\ Under(s.at, root)
          /\ t.at # Gone /\ Under(t.at, root)
      <3> HIDE DEF t
      <3> QED BY <1>3, <1>4, <1>5, <2>1
    <2> HIDE DEF s
    <2>4. \/ Image(t, root, other) = Image(s, root, other)
          \/ Image(t, root, other) = Advance(m, Image(s, root, other))
      BY <2>3, MirroredStep
    <2> HIDE DEF t
    <2>5. CASE Image(t, root, other) = Image(s, root, other)
      <3>1. k \in 0 .. n
        OBVIOUS
      <3> QED BY <2>1, <2>2, <2>5, <3>1
    <2>6. CASE Image(t, root, other) = Advance(m, Image(s, root, other))
      <3> DEFINE h == k + 1
      <3>1. h \in 1 .. MaxSteps /\ h \in 0 .. n /\ h - 1 = k
        BY <1>1
      <3>2. way2[h] = Advance(m, way2[k])
        BY <1>2, <3>1
      <3> HIDE DEF h
      <3>3. way2[h] = Image(way[n], root, other)
        BY <2>1, <2>2, <2>6, <3>2
      <3> QED BY <2>1, <3>1, <3>3
    <2> QED BY <2>4, <2>5, <2>6
  <1> HIDE DEF T
  <1>8. \A n \in 1 .. MaxSteps : n - 1 \in T => n \in T
    BY <1>7
  <1>9. MaxSteps \in T
    <2>1. \A n \in 0 .. MaxSteps : n \in T
      BY <1>1, <1>6, <1>8, CountingUp
    <2> QED BY <1>1, <2>1
  <1>10. PICK k \in 0 .. MaxSteps : way2[k] = Image(way[MaxSteps], root, other)
    BY <1>9 DEF T
  <1>11. way2[k].rest = <<>> /\ way2[k].at = other \o RelativeTo(Canonicalize(fs, at, path), root)
    <2>1. WithoutDots(<<>>) = <<>>
      <3>1. "." \in Names \cup {".", ".."}
        OBVIOUS
      <3> QED BY <3>1, DotsGo
    <2> QED BY <1>4, <1>10, <2>1 DEF Image
  <1>12. Canonicalize(m, at2, path2) = way2[k].at
    <2> HIDE DEF at2, path2
    <2>1. Lookup(m, at2, path2)[k].rest = <<>>
      BY <1>11 DEF way2
    <2>2. Canonicalize(m, at2, path2) = Lookup(m, at2, path2)[k].at
      BY <2>1, Arrived
    <2> QED BY <2>2 DEF way2
  <1> QED BY <1>11, <1>12

-----------------------------------------------------------------------------
(* What lies below a directory.                                            *)

(* A path below root that exists.                                          *)
BelowRoot(fs, root, q) ==
    /\ q \in Seq(Names) /\ q # <<>> /\ root \o q \in DOMAIN fs
    /\ root \o q \in Below(fs, root) /\ RelativeTo(root \o q, root) = q
    /\ Front(q) \in Seq(Names) /\ Front(root \o q) = root \o Front(q)
    /\ fs[Front(root \o q)] = Dir

LEMMA WhatIsBelow ==
    ASSUME NEW fs, IsFileSystem(fs, Names), NEW root \in DOMAIN fs,
           NEW q \in Seq(Names), q # <<>>, root \o q \in DOMAIN fs
    PROVE  BelowRoot(fs, root, q)
  <1>1. root \in Seq(Names)
    BY PathFacts
  <1>2. Under(root \o q, root) /\ RelativeTo(root \o q, root) = q
    BY <1>1, JoinedIsUnder
  <1>3. Front(q) \in Seq(Names)
    BY FrontAndLast
  <1>4. Front(root \o q) = root \o Front(q) /\ root \o q # <<>>
    BY <1>1, FrontOfJoint
  <1>5. fs[Front(root \o q)] = Dir
    BY <1>4, PathFacts DEF Parent
  <1>6. root \o q # root
    <2>1. Len(root \o q) = Len(root) + Len(q)
      BY <1>1, Joint
    <2>2. Len(q) \in Nat \ {0} /\ Len(root) \in Nat
      BY <1>1
    <2> QED BY <2>1, <2>2
  <1> QED BY <1>2, <1>3, <1>4, <1>5, <1>6 DEF BelowRoot, Below

LEMMA BelowIsUnder ==
    ASSUME NEW fs, IsFileSystem(fs, Names), NEW root \in DOMAIN fs, NEW p \in Below(fs, root)
    PROVE  p = root \o RelativeTo(p, root) /\ BelowRoot(fs, root, RelativeTo(p, root))
  <1> DEFINE q == RelativeTo(p, root)
  <1>1. p \in DOMAIN fs /\ Under(p, root) /\ p # root
    BY DEF Below
  <1>2. p \in Seq(Names) /\ root \in Seq(Names)
    BY <1>1, PathFacts
  <1>3. q \in Seq(Names) /\ p = root \o q
    BY <1>1, <1>2, UnderSplits
  <1> HIDE DEF q
  <1>4. q # <<>>
    <2>1. root \o <<>> = root
      BY <1>2, JoinNothing
    <2> QED BY <1>1, <1>3, <2>1
  <1>5. BelowRoot(fs, root, q)
    BY <1>1, <1>3, <1>4, WhatIsBelow
  <1> QED BY <1>3, <1>5 DEF q

LEMMA AboveIsBelow ==
    ASSUME NEW fs, IsFileSystem(fs, Names), NEW root \in DOMAIN fs,
           NEW q, BelowRoot(fs, root, q), NEW r \in Above(q)
    PROVE  BelowRoot(fs, root, r) /\ fs[root \o r] = Dir
  <1>1. q \in Seq(Names) /\ root \o q \in DOMAIN fs /\ root \in Seq(Names)
    BY PathFacts DEF BelowRoot
  <1>2. PICK n \in 1 .. Len(q) - 1 : r = SubSeq(q, 1, n)
    BY DEF Above
  <1>3. Len(q) \in Nat /\ n \in 0 .. Len(q) /\ n >= 1 /\ n < Len(q)
    BY <1>1
  <1>4. r \in Seq(Names) /\ Len(r) = n
    BY <1>1, <1>2, <1>3, CutAt
  <1> DEFINE j == root \o q
             k == Len(root) + n
  <1>5. SubSeq(j, 1, k) = root \o r
    BY <1>1, <1>2, <1>3, CutJoint
  <1>6. k \in 0 .. Len(j) - 1
    <2>1. Len(j) = Len(root) + Len(q) /\ Len(root) \in Nat
      BY <1>1, Joint
    <2> QED BY <1>3, <2>1
  <1>7. j \in DOMAIN fs
    BY <1>1
  <1> HIDE DEF j, k
  <1>8. SubSeq(j, 1, k) \in DOMAIN fs /\ fs[SubSeq(j, 1, k)] = Dir
    BY <1>6, <1>7, PathFacts
  <1>9. r # <<>>
    BY <1>3, <1>4
  <1> QED BY <1>4, <1>5, <1>8, <1>9, WhatIsBelow

-----------------------------------------------------------------------------
(* The walk of serialize.                                                  *)

IsCallOfWalk(c) ==
    IsFileSystem(c.fs, Names) /\ c.root \in DOMAIN c.fs /\ c.fs[c.root] = Dir

(* Every path below the root comes once.                                   *)
IsListing(w, below) ==
    /\ DOMAIN w = 1 .. Len(w) /\ Len(w) \in Nat /\ \A n \in DOMAIN w : w[n] \in below
    /\ \A m, n \in DOMAIN w : m # n => w[m] # w[n]
    /\ \A p \in below : \E n \in DOMAIN w : w[n] = p

LEMMA OrderIsListing ==
    ASSUME NEW c, IsCallOfWalk(c), NEW w \in WalkOrders(c)
    PROVE  IsListing(w, Below(c.fs, c.root))
  <1> DEFINE B == Below(c.fs, c.root)
             k == Cardinality(B)
  <1>1. IsFiniteSet(B)
    <2>1. B \in SUBSET DOMAIN c.fs
      BY DEF Below
    <2>2. IsFiniteSet(DOMAIN c.fs)
      BY DEF IsCallOfWalk, IsFileSystem
    <2> HIDE DEF B
    <2> QED BY <2>1, <2>2, FS_Subset
  <1>2. w \in SetToSeqs(B)
    BY DEF WalkOrders
  <1> HIDE DEF B
  <1>3. k \in Nat
    BY <1>1, FS_CardinalityType
  <1>4. w \in [1 .. k -> B] /\ \A m, n \in 1 .. k : m # n => w[m] # w[n]
    BY <1>2 DEF SetToSeqs
  <1> HIDE DEF k
  <1>5. IsFiniteSet(1 .. k) /\ Cardinality(1 .. k) = k
    <2>1. IsFiniteSet(1 .. k) /\ Cardinality(1 .. k) = IF 1 > k THEN 0 ELSE k - 1 + 1
      BY <1>3, FS_Interval
    <2> QED BY <1>3, <2>1
  <1>6. w \in Injection(1 .. k, B)
    BY <1>4 DEF Injection, IsInjective
  <1>7. w \in Surjection(1 .. k, B)
    <2> DEFINE S == 1 .. k
    <2>1. w \in Injection(S, B) /\ Cardinality(S) = Cardinality(B)
      BY <1>5, <1>6 DEF k
    <2> HIDE DEF S
    <2>2. w \in Surjection(S, B)
      BY <1>1, <2>1, FS_Injection
    <2> QED BY <2>2 DEF S
  <1>8. Len(w) = k /\ DOMAIN w = 1 .. k
    BY <1>3, <1>4
  <1>9. \A p \in B : \E n \in 1 .. k : w[n] = p
    BY <1>7 DEF Surjection
  <1>10. IsListing(w, B)
    BY <1>3, <1>4, <1>8, <1>9 DEF IsListing
  <1> QED BY <1>10 DEF B

(* What is refused, and what else becomes of a path below the root.        *)
WalkRefuses(c, p) ==
    c.fs[p].kind = "other" \/ (c.fs[p].kind = "link" /\ ~MayStay(c, p))

WalkedAs(c, q, e) ==
    /\ e \in Entries /\ (Usable(e) <=> ~WalkRefuses(c, c.root \o q))
    /\ Usable(e) => e.path = q /\ e.kind = c.fs[c.root \o q].kind
    /\ e.kind = "dir" <=> c.fs[c.root \o q].kind = "dir"

LEMMA NamesAreUsable ==
    ASSUME NEW q \in Seq(Names), q # <<>>, NEW e, e.path = q
    PROVE  Usable(e)
  BY NamesAssumption DEF Usable

LEMMA WalkEntryFacts ==
    ASSUME NEW c, IsCallOfWalk(c), NEW q, BelowRoot(c.fs, c.root, q)
    PROVE  WalkedAs(c, q, WalkEntry(c, c.root \o q))
  <1> DEFINE at == c.root \o q
             node == c.fs[at]
             e == WalkEntry(c, at)
  <1>1. q \in Seq(Names) /\ q # <<>> /\ at \in DOMAIN c.fs /\ RelativeTo(at, c.root) = q
    BY DEF BelowRoot
  <1>2. node.kind \in {"dir", "file", "link", "other"}
    BY <1>1, LinkFacts DEF IsCallOfWalk
  <1>3. e = CASE node.kind = "dir"                    -> [path |-> q, kind |-> "dir"]
              [] node.kind = "file"                   -> [path |-> q, kind |-> "file"]
              [] node.kind = "link" /\ MayStay(c, at) -> [path |-> q, kind |-> "link"]
              [] OTHER                                -> [path |-> <<>>, kind |-> "link"]
    BY <1>1 DEF WalkEntry
  <1> HIDE DEF e
  <1>4. q \in Seq(Names \cup Odd)
    BY <1>1
  <1>5. CASE WalkRefuses(c, at)
    <2>1. e = [path |-> <<>>, kind |-> "link"]
      BY <1>2, <1>3, <1>5 DEF WalkRefuses
    <2>2. ~Usable(e) /\ e \in Entries
      BY <2>1 DEF Usable, Entries, Kinds
    <2> QED BY <1>5, <2>1, <2>2 DEF WalkedAs, WalkRefuses, e
  <1>6. CASE ~WalkRefuses(c, at)
    <2>1. e = [path |-> q, kind |-> node.kind]
      BY <1>2, <1>3, <1>6 DEF WalkRefuses
    <2>2. e.path = q /\ e.kind = node.kind /\ node.kind \in Kinds
      BY <1>2, <1>6, <2>1 DEF Kinds, WalkRefuses
    <2>3. Usable(e)
      BY <1>1, <2>2, NamesAreUsable
    <2>4. e \in Entries
      BY <1>4, <2>1, <2>2 DEF Entries
    <2> QED BY <1>6, <2>2, <2>3, <2>4 DEF WalkedAs, e
  <1> QED BY <1>5, <1>6

LEMMA WalkSuits ==
    ASSUME NEW c, IsCallOfWalk(c), NEW w \in WalkOrders(c)
    PROVE  Suits("serializer", WalkEntries(c, w))
  <1> DEFINE B == Below(c.fs, c.root)
             list == WalkEntries(c, w)
             q(n) == RelativeTo(w[n], c.root)
  <1>1. IsListing(w, B)
    BY OrderIsListing
  <1>2. DOMAIN list = DOMAIN w /\ \A n \in DOMAIN w : list[n] = WalkEntry(c, w[n])
    BY DEF WalkEntries
  <1>3. ASSUME NEW n \in DOMAIN w
        PROVE  /\ w[n] = c.root \o q(n) /\ BelowRoot(c.fs, c.root, q(n))
               /\ WalkedAs(c, q(n), list[n])
    <2> DEFINE p == w[n]
               r == RelativeTo(p, c.root)
    <2>1. p \in Below(c.fs, c.root)
      BY <1>1 DEF IsListing
    <2> HIDE DEF p
    <2>2. p = c.root \o r /\ BelowRoot(c.fs, c.root, r)
      BY <2>1, BelowIsUnder DEF IsCallOfWalk
    <2> HIDE DEF r
    <2>3. WalkedAs(c, r, WalkEntry(c, c.root \o r))
      BY <2>2, WalkEntryFacts
    <2>4. list[n] = WalkEntry(c, c.root \o r)
      BY <1>2, <2>2 DEF p
    <2> HIDE DEF list
    <2> QED BY <2>2, <2>3, <2>4 DEF p, r
  <1> HIDE DEF list
  <1>4. list \in Seq(Entries)
    <2>1. \A n \in 1 .. Len(w) : list[n] \in Entries
      BY <1>1, <1>3 DEF IsListing, WalkedAs
    <2>2. DOMAIN list = 1 .. Len(w) /\ Len(w) \in Nat
      BY <1>1, <1>2 DEF IsListing
    <2>3. list = [n \in 1 .. Len(w) |-> list[n]]
      BY <2>2 DEF list, WalkEntries
    <2> QED BY <2>1, <2>2, <2>3
  <1>5. \A n \in DOMAIN list : list[n].kind = "dir" => Usable(list[n])
    BY <1>2, <1>3 DEF WalkedAs, WalkRefuses
  <1>6. ASSUME NEW i \in DOMAIN list, NEW j \in DOMAIN list, i # j,
               Usable(list[i]), Usable(list[j])
        PROVE  /\ list[i].path # list[j].path
               /\ list[i].path \in Above(list[j].path) => list[i].kind = "dir"
    <2> DEFINE qi == q(i)
               qj == q(j)
    <2>1. /\ w[i] = c.root \o qi /\ WalkedAs(c, qi, list[i])
          /\ w[j] = c.root \o qj /\ BelowRoot(c.fs, c.root, qj) /\ WalkedAs(c, qj, list[j])
      BY <1>2, <1>3, <1>6
    <2>2. w[i] # w[j]
      BY <1>1, <1>2, <1>6 DEF IsListing
    <2> HIDE DEF qi, qj
    <2>3. list[i].path = qi /\ list[j].path = qj /\ list[i].kind = c.fs[c.root \o qi].kind
      BY <1>6, <2>1 DEF WalkedAs
    <2>4. ASSUME qi \in Above(qj) PROVE c.fs[c.root \o qi] = Dir
      BY <2>1, <2>4, AboveIsBelow DEF IsCallOfWalk
    <2>5. qi # qj
      BY <2>1, <2>2
    <2>6. qi \in Above(qj) => list[i].kind = "dir"
      BY <2>3, <2>4 DEF Dir
    <2> QED BY <2>3, <2>5, <2>6
  <1>7. IsWalk(list)
    BY <1>5, <1>6 DEF IsWalk
  <1>8. Suits("serializer", list)
    BY <1>4, <1>7 DEF Suits
  <1> QED BY <1>8 DEF list

(* What the invariants say of a walk that was accepted.                    *)
WalkIsDone(c) ==
    /\ IsCallOfWalk(c) /\ \E w \in WalkOrders(c) : given = WalkEntries(c, w)
    /\ tool = "serializer" /\ verdict = "accepted" /\ AcceptedIffDisjoint /\ HoldsWhatWasGiven

NothingRefused(c) == \A p \in Below(c.fs, c.root) : ~WalkRefuses(c, p)

(* The tree has every path below the root, and no other.                   *)
LEMMA WalkedTree ==
    ASSUME NEW c, WalkIsDone(c)
    PROVE  /\ groups \cup Occupied = {RelativeTo(p, c.root) : p \in Below(c.fs, c.root)}
           /\ NothingRefused(c)
  <1> DEFINE B == Below(c.fs, c.root)
             list == {given[i] : i \in DOMAIN given}
             D == {RelativeTo(p, c.root) : p \in B}
  <1>1. PICK w \in WalkOrders(c) : given = WalkEntries(c, w)
    BY DEF WalkIsDone
  <1>2. IsCallOfWalk(c) /\ tool = "serializer" /\ verdict = "accepted"
    BY DEF WalkIsDone
  <1>3. IsListing(w, B)
    BY <1>1, <1>2, OrderIsListing
  <1>4. DOMAIN given = DOMAIN w /\ \A n \in DOMAIN w : given[n] = WalkEntry(c, w[n])
    BY <1>1 DEF WalkEntries
  <1>5. \A i \in DOMAIN given : Usable(given[i])
    BY <1>2 DEF WalkIsDone, AcceptedIffDisjoint, AllUsable, IsRoot
  <1>6. ASSUME NEW p \in B, NEW n \in DOMAIN w, w[n] = p
        PROVE  /\ ~WalkRefuses(c, p) /\ given[n].path = RelativeTo(p, c.root)
               /\ BelowRoot(c.fs, c.root, RelativeTo(p, c.root))
    <2> DEFINE r == RelativeTo(p, c.root)
    <2>1. p = c.root \o r /\ BelowRoot(c.fs, c.root, r)
      BY <1>2, BelowIsUnder DEF IsCallOfWalk
    <2> HIDE DEF r
    <2>2. WalkedAs(c, r, WalkEntry(c, c.root \o r))
      BY <1>2, <2>1, WalkEntryFacts
    <2>3. given[n] = WalkEntry(c, c.root \o r)
      BY <1>4, <1>6, <2>1
    <2>4. Usable(given[n])
      BY <1>4, <1>5
    <2> QED BY <2>1, <2>2, <2>3, <2>4 DEF WalkedAs, r
  <1>7. NothingRefused(c)
    <2>1. ASSUME NEW p \in B PROVE ~WalkRefuses(c, p)
      <3>1. PICK n \in DOMAIN w : w[n] = p
        BY <1>3 DEF IsListing
      <3> QED BY <1>6, <3>1
    <2> QED BY <2>1 DEF NothingRefused
  <1>8. \A n \in DOMAIN w : w[n] \in B
    BY <1>3 DEF IsListing
  <1>9. ASSUME NEW e \in list
        PROVE  e.path \in D /\ BelowRoot(c.fs, c.root, e.path)
    <2>1. PICK n \in DOMAIN w : e = given[n]
      BY <1>4
    <2> DEFINE p == w[n]
    <2>2. p \in B
      BY <1>8
    <2> HIDE DEF p, B
    <2>3. e.path = RelativeTo(p, c.root) /\ BelowRoot(c.fs, c.root, RelativeTo(p, c.root))
      BY <1>6, <2>1, <2>2 DEF p
    <2> QED BY <2>2, <2>3
  <1>10. ASSUME NEW e \in list, NEW x \in Above(e.path)
         PROVE  x \in D
    <2>1. BelowRoot(c.fs, c.root, e.path)
      BY <1>9
    <2>2. BelowRoot(c.fs, c.root, x)
      BY <1>2, <1>10, <2>1, AboveIsBelow DEF IsCallOfWalk
    <2> QED BY <2>2 DEF BelowRoot
  <1>11. ASSUME NEW p \in B PROVE \E e \in list : e.path = RelativeTo(p, c.root)
    <2>1. PICK n \in DOMAIN w : w[n] = p
      BY <1>3 DEF IsListing
    <2>2. given[n].path = RelativeTo(p, c.root)
      BY <1>6, <2>1
    <2> QED BY <1>4, <2>1, <2>2
  <1>12. /\ entries = {e \in list : e.kind # "dir"}
         /\ groups = (UNION {Above(e.path) : e \in list}) \cup {e.path : e \in list \ entries}
    BY <1>2 DEF WalkIsDone, HoldsWhatWasGiven
  <1> HIDE DEF list
  <1>13. groups \cup Occupied \subseteq D
    <2>1. Occupied \subseteq D
      BY <1>9, <1>12 DEF Occupied
    <2>2. ASSUME NEW x \in groups PROVE x \in D
      <3>1. CASE x \in UNION {Above(e.path) : e \in list}
        <4>1. PICK e \in list : x \in Above(e.path)
          BY <3>1
        <4> QED BY <1>10, <4>1
      <3>2. CASE x \in {e.path : e \in list \ entries}
        BY <1>9, <3>2
      <3> QED BY <1>12, <3>1, <3>2
    <2> QED BY <2>1, <2>2
  <1>14. ASSUME NEW x \in D PROVE x \in groups \cup Occupied
    <2>1. PICK p \in B : x = RelativeTo(p, c.root)
      OBVIOUS
    <2>2. PICK e \in list : e.path = x
      BY <1>11, <2>1
    <2>3. CASE e \in entries
      BY <2>2, <2>3 DEF Occupied
    <2>4. CASE e \notin entries
      BY <1>12, <2>2, <2>4
    <2> QED BY <2>3, <2>4
  <1>15. groups \cup Occupied = D
    BY <1>13, <1>14
  <1> QED BY <1>7, <1>15

(* What is at a path of the tree.                                          *)
SerializedAt(c, tree, q) ==
    /\ q \in DOMAIN tree <=> q # <<>> /\ c.root \o q \in DOMAIN c.fs
    /\ q \in DOMAIN tree =>
         /\ BelowRoot(c.fs, c.root, q) /\ ~WalkRefuses(c, c.root \o q)
         /\ tree[q] = IF c.fs[c.root \o q].kind = "link"
                      THEN Link(FALSE, KeptTarget(c, c.root \o q))
                      ELSE TreeNode(c.fs[c.root \o q], ExecutableForAnyone)

LEMMA SerializedTree ==
    ASSUME NEW c, WalkIsDone(c), NEW q \in Seq(Names)
    PROVE  SerializedAt(c, Serialized(c), q)
  <1> DEFINE D == groups \cup Occupied
             tree == Serialized(c)
  <1>1. D = {RelativeTo(p, c.root) : p \in Below(c.fs, c.root)} /\ NothingRefused(c)
    BY WalkedTree
  <1>2. IsCallOfWalk(c)
    BY DEF WalkIsDone
  <1>3. tree = [p \in D |-> IF c.fs[c.root \o p].kind = "link"
                            THEN Link(FALSE, KeptTarget(c, c.root \o p))
                            ELSE TreeNode(c.fs[c.root \o p], ExecutableForAnyone)]
    BY DEF Serialized
  <1> HIDE DEF D, tree
  <1>4. ASSUME q \in D
        PROVE  q # <<>> /\ c.root \o q \in DOMAIN c.fs /\ BelowRoot(c.fs, c.root, q)
    <2>1. PICK p \in Below(c.fs, c.root) : q = RelativeTo(p, c.root)
      BY <1>1, <1>4
    <2>2. BelowRoot(c.fs, c.root, q)
      BY <1>2, <2>1, BelowIsUnder DEF IsCallOfWalk
    <2> QED BY <2>2 DEF BelowRoot
  <1>5. ASSUME q # <<>>, c.root \o q \in DOMAIN c.fs
        PROVE  q \in D
    <2>1. BelowRoot(c.fs, c.root, q)
      BY <1>2, <1>5, WhatIsBelow DEF IsCallOfWalk
    <2>2. c.root \o q \in Below(c.fs, c.root) /\ RelativeTo(c.root \o q, c.root) = q
      BY <2>1 DEF BelowRoot
    <2> QED BY <1>1, <2>2
  <1>6. q \in D => ~WalkRefuses(c, c.root \o q)
    BY <1>1, <1>4 DEF NothingRefused, BelowRoot
  <1>7. DOMAIN tree = D
    BY <1>3
  <1>8. q \in D => tree[q] = IF c.fs[c.root \o q].kind = "link"
                             THEN Link(FALSE, KeptTarget(c, c.root \o q))
                             ELSE TreeNode(c.fs[c.root \o q], ExecutableForAnyone)
    BY <1>3
  <1>9. SerializedAt(c, tree, q)
    BY <1>4, <1>5, <1>6, <1>7, <1>8 DEF SerializedAt
  <1> QED BY <1>9 DEF tree

LEMMA TreeHasNames ==
    ASSUME NEW c, WalkIsDone(c), NEW q \in DOMAIN Serialized(c)
    PROVE  q \in Seq(Names)
  <1>1. DOMAIN Serialized(c) = groups \cup Occupied
    BY DEF Serialized
  <1>2. groups \cup Occupied = {RelativeTo(p, c.root) : p \in Below(c.fs, c.root)}
    BY WalkedTree
  <1>3. PICK p \in Below(c.fs, c.root) : q = RelativeTo(p, c.root)
    BY <1>1, <1>2
  <1>4. BelowRoot(c.fs, c.root, q)
    BY <1>3, BelowIsUnder DEF WalkIsDone, IsCallOfWalk
  <1> QED BY <1>4 DEF BelowRoot

-----------------------------------------------------------------------------
(* What a worker does with the tree.                                       *)

LEMMA TreeNodeKind ==
    ASSUME NEW fs, IsFileSystem(fs, Names), NEW p \in DOMAIN fs, NEW executable
    PROVE  TreeNode(fs[p], executable).kind = fs[p].kind
  <1> DEFINE node == fs[p]
  <1>1. TreeNode(node, executable) =
          IF node.kind = "file"
          THEN [kind |-> "file", content |-> node.content, executable |-> node.modes \in executable]
          ELSE node
    BY DEF TreeNode
  <1> HIDE DEF node
  <1>2. TreeNode(node, executable).kind = node.kind
    BY <1>1
  <1> QED BY <1>2 DEF node

LEMMA TreeLink ==
    ASSUME NEW c, WalkIsDone(c), NEW q \in Seq(Names), q \in DOMAIN Serialized(c)
    PROVE  /\ Serialized(c)[q].kind = c.fs[c.root \o q].kind
           /\ c.fs[c.root \o q].kind = "link" =>
                /\ MayStay(c, c.root \o q) /\ ~Serialized(c)[q].absolute
                /\ Serialized(c)[q].target = KeptTarget(c, c.root \o q)
  <1> DEFINE tree == Serialized(c)
             node == c.fs[c.root \o q]
  <1>1. SerializedAt(c, tree, q)
    BY SerializedTree
  <1> HIDE DEF tree
  <1>2. /\ BelowRoot(c.fs, c.root, q) /\ ~WalkRefuses(c, c.root \o q)
        /\ tree[q] = IF node.kind = "link" THEN Link(FALSE, KeptTarget(c, c.root \o q))
                     ELSE TreeNode(node, ExecutableForAnyone)
    BY <1>1 DEF SerializedAt, tree
  <1>3. TreeNode(node, ExecutableForAnyone).kind = node.kind
    BY <1>2, TreeNodeKind DEF WalkIsDone, IsCallOfWalk, BelowRoot
  <1> HIDE DEF node
  <1>4. CASE node.kind = "link"
    <2>1. tree[q] = [kind |-> "link", absolute |-> FALSE, target |-> KeptTarget(c, c.root \o q)]
      BY <1>2, <1>4 DEF Link
    <2>2. MayStay(c, c.root \o q)
      BY <1>2, <1>4 DEF WalkRefuses, node
    <2> QED BY <1>4, <2>1, <2>2 DEF tree, node
  <1>5. CASE node.kind # "link"
    BY <1>2, <1>3, <1>5 DEF tree, node
  <1> QED BY <1>4, <1>5

LEMMA MirrorOfTree ==
    ASSUME NEW c, WalkIsDone(c), NEW C, C = Names \cup {"worker", "build"}
    PROVE  Mirrors(Materialized(Serialized(c)), c.fs, c.root, Elsewhere)
  <1> DEFINE tree == Serialized(c)
             m == Materialized(tree)
             fs == c.fs
             root == c.root
             D == {<<>>, <<"worker">>, Elsewhere} \cup {Elsewhere \o q : q \in DOMAIN tree}
  <1>1. /\ IsFileSystem(fs, Names) /\ root \in DOMAIN fs /\ fs[root] = Dir
        /\ root \in Seq(Names)
    BY PathFacts DEF WalkIsDone, IsCallOfWalk
  <1>2. /\ DOMAIN m = D
        /\ \A p \in D : m[p] = IF Under(p, Elsewhere) /\ p # Elsewhere
                               THEN tree[RelativeTo(p, Elsewhere)] ELSE Dir
    BY DEF Materialized
  <1>3. \A q \in DOMAIN tree : q \in Seq(Names)
    BY TreeHasNames
  <1>4. Elsewhere \in Seq(C) /\ Len(Elsewhere) = 2 /\ Names \subseteq C
    BY DEF Elsewhere
  <1> HIDE DEF m
  <1>5. ASSUME NEW q \in Seq(Names) PROVE MirrorsAt(m, fs, root, Elsewhere, q)
    <2> DEFINE e == Elsewhere \o q
               at == root \o q
    <2>1. q \in Seq(C)
      BY <1>4
    <2>2. Len(e) = 2 + Len(q) /\ Len(q) \in Nat
      <3>1. Elsewhere \in Seq(C) /\ q \in Seq(C)
        BY <1>4, <2>1
      <3>2. Len(Elsewhere \o q) = Len(Elsewhere) + Len(q)
        BY <3>1, Joint
      <3> QED BY <1>4, <3>2
    <2>3. e # Gone /\ e # <<>> /\ e # <<"worker">>
      <3>1. Len(Gone) = 1 /\ Len(<<>>) = 0 /\ Len(<<"worker">>) = 1
        BY DEF Gone
      <3> HIDE DEF e
      <3>2. Len(e) # 1 /\ Len(e) # 0
        BY <2>2
      <3> QED BY <3>1, <3>2
    <2>4. CASE q = <<>>
      <3>1. e = Elsewhere /\ at = root
        BY <1>1, <1>4, <2>4, JoinNothing
      <3> HIDE DEF e, at
      <3>2. e \in D /\ m[e] = Dir
        BY <1>2, <3>1
      <3>3. e \in DOMAIN m /\ m[e].kind = "dir" /\ at \in DOMAIN fs /\ fs[at].kind = "dir"
        BY <1>1, <1>2, <3>1, <3>2 DEF Dir
      <3> QED BY <2>3, <3>3 DEF MirrorsAt, e, at
    <2>5. CASE q # <<>>
      <3>1. e # Elsewhere
        <4>1. Len(q) # 0
          BY <2>5
        <4>2. Len(Elsewhere) = 2
          BY <1>4
        <4> HIDE DEF e
        <4>3. Len(e) # 2
          BY <2>2, <4>1
        <4> QED BY <4>2, <4>3
      <3>2. e \in D <=> q \in DOMAIN tree
        <4>1. ASSUME NEW r \in DOMAIN tree, Elsewhere \o r = Elsewhere \o q PROVE r = q
          <5>1. r \in Seq(C)
            BY <1>3, <1>4
          <5>2. Elsewhere \in Seq(C)
            BY <1>4
          <5> HIDE DEF tree
          <5>3. RelativeTo(Elsewhere \o r, Elsewhere) = r
            BY <5>1, <5>2, JoinedIsUnder
          <5>4. RelativeTo(Elsewhere \o q, Elsewhere) = q
            BY <2>1, <5>2, JoinedIsUnder
          <5> QED BY <4>1, <5>3, <5>4
        <4> HIDE DEF tree
        <4> QED BY <2>3, <3>1, <4>1
      <3>3. SerializedAt(c, tree, q)
        BY SerializedTree
      <3>4. q \in DOMAIN tree <=> at \in DOMAIN fs
        <4> HIDE DEF tree
        <4> QED BY <2>5, <3>3 DEF SerializedAt
      <3>5. Under(e, Elsewhere) /\ RelativeTo(e, Elsewhere) = q
        BY <1>4, <2>1, JoinedIsUnder
      <3>6. e \in D => m[e] = tree[q]
        BY <1>2, <3>1, <3>5
      <3>7. q \in DOMAIN tree =>
              /\ tree[q].kind = fs[at].kind
              /\ fs[at].kind = "link" => /\ MayStay(c, at) /\ ~tree[q].absolute
                                         /\ tree[q].target = KeptTarget(c, at)
        BY TreeLink
      <3> HIDE DEF e, tree, D, at
      <3>8. at \in DOMAIN fs => m[e].kind = fs[at].kind
        BY <3>2, <3>4, <3>6, <3>7
      <3>9. at \in DOMAIN fs /\ fs[at].kind = "link" =>
              /\ ~fs[at].absolute /\ ~m[e].absolute
              /\ m[e].target = WithoutDots(fs[at].target)
        BY <3>2, <3>4, <3>6, <3>7 DEF MayStay, KeptTarget
      <3>10. e \in DOMAIN m <=> at \in DOMAIN fs
        BY <1>2, <3>2, <3>4
      <3> QED BY <2>3, <3>8, <3>9, <3>10 DEF MirrorsAt, e, at
    <2> QED BY <2>4, <2>5
  <1> QED BY <1>5 DEF Mirrors, m

LEMMA HermeticLink ==
    ASSUME NEW c, WalkIsDone(c), c.root # <<>>, NEW p \in DOMAIN Serialized(c),
           Serialized(c)[p].kind = "link", ~Leaves(c, c.root \o p)
    PROVE  Canonicalize(Materialized(Serialized(c)), Elsewhere \o Front(p), Serialized(c)[p].target)
             = Elsewhere \o RelativeTo(Resolved(c, c.root \o p), c.root)
  <1> DEFINE C == Names \cup {"worker", "build"}
             fs == c.fs
             root == c.root
             link == root \o p
             at == Front(link)
             to == fs[link].target
             m == Materialized(Serialized(c))
             target == Serialized(c)[p].target
  <1>1. IsFileSystem(fs, Names) /\ root \in DOMAIN fs /\ root # <<>> /\ root \in Seq(Names)
    BY PathFacts DEF WalkIsDone, IsCallOfWalk
  <1>2. p \in Seq(Names)
    BY TreeHasNames
  <1>3. fs[link].kind = "link" /\ MayStay(c, link) /\ target = WithoutDots(to)
    BY <1>2, TreeLink DEF KeptTarget
  <1>4. BelowRoot(fs, root, p)
    BY <1>2, SerializedTree DEF SerializedAt
  <1>5. link \in DOMAIN fs /\ Front(p) \in Seq(Names) /\ at = root \o Front(p) /\ fs[at] = Dir
    BY <1>4 DEF BelowRoot
  <1>6. at \in DOMAIN fs
    <2>1. Parent(link) \in DOMAIN fs /\ link # <<>>
      <3>1. link # <<>>
        BY <1>1, <1>2, <1>4, FrontOfJoint DEF BelowRoot
      <3> QED BY <1>1, <1>5, <3>1, PathFacts
    <2> QED BY <2>1 DEF Parent
  <1>7. Settled(fs, at)
    BY <1>5, <1>6 DEF Settled, Dir
  <1>8. to \in Typed
    BY <1>1, <1>3, <1>5, LinkFacts
  <1>9. Canonicalize(fs, at, to) # Gone
    BY <1>3 DEF MayStay, Resolved
  <1>10. \A n \in 0 .. MaxSteps : Under(Lookup(fs, at, to)[n].at, root)
    <2> DEFINE way == Lookup(fs, at, to)
    <2>1. \A n \in DOMAIN way : Under(way[n].at, root)
      BY DEF Leaves
    <2>2. IsWay(way, fs, at, to)
      BY LookupSteps
    <2> HIDE DEF way
    <2>3. DOMAIN way = 0 .. MaxSteps
      BY <2>2 DEF IsWay
    <2> QED BY <2>1, <2>3 DEF way
  <1>11. Mirrors(m, fs, root, Elsewhere)
    BY MirrorOfTree
  <1>12. Elsewhere \in Seq(C) /\ Names \subseteq C
    BY DEF Elsewhere
  <1>13. RelativeTo(at, root) = Front(p)
    BY <1>1, <1>5, JoinedIsUnder
  <1>14. Resolved(c, link) = Canonicalize(fs, at, to)
    BY DEF Resolved
  <1> HIDE DEF m, target, to, at, link, C
  <1>15. Canonicalize(m, Elsewhere \o RelativeTo(at, root), WithoutDots(to))
           = Elsewhere \o RelativeTo(Canonicalize(fs, at, to), root)
    BY <1>1, <1>7, <1>8, <1>9, <1>10, <1>11, <1>12, MirroredWalk
  <1>16. Canonicalize(m, Elsewhere \o Front(p), target)
           = Elsewhere \o RelativeTo(Resolved(c, link), root)
    BY <1>3, <1>13, <1>14, <1>15
  <1> QED BY <1>16 DEF m, target, link

-----------------------------------------------------------------------------
(* The tree of the other tool.                                             *)

(* What both tools say of a node, and when they say the same.              *)
Plain(node) ==
    CASE node.kind = "file" -> node.modes # {"others"}
      [] node.kind = "link" -> \A n \in DOMAIN node.target : node.target[n] # "."
      [] OTHER -> TRUE

LEMMA SameFile ==
    ASSUME NEW node, node.modes \in Modes, node.modes # {"others"}
    PROVE  TreeNode(node, ExecutableForAnyone) = TreeNode(node, ExecutableForOwner)
  <1> DEFINE m == node.modes
  <1>1. m \in ExecutableForAnyone <=> m \in ExecutableForOwner
    <2>1. m \subseteq {"owner", "others"} /\ m # {"others"} /\ m \in Modes
      BY DEF Modes
    <2> HIDE DEF m
    <2>2. m # {} <=> "owner" \in m
      BY <2>1
    <2> QED BY <2>1, <2>2 DEF ExecutableForAnyone, ExecutableForOwner
  <1> DEFINE ea == m \in ExecutableForAnyone
             eo == m \in ExecutableForOwner
  <1>2. ea = eo
    BY <1>1
  <1>3. /\ TreeNode(node, ExecutableForAnyone)
             = IF node.kind = "file"
               THEN [kind |-> "file", content |-> node.content, executable |-> ea] ELSE node
        /\ TreeNode(node, ExecutableForOwner)
             = IF node.kind = "file"
               THEN [kind |-> "file", content |-> node.content, executable |-> eo] ELSE node
    BY DEF TreeNode
  <1> HIDE DEF ea, eo
  <1> QED BY <1>2, <1>3

(* The tools agree on each path, and so on the tree.                       *)
LEMMA AgreeAt ==
    ASSUME NEW c, WalkIsDone(c), NEW q \in Seq(Names), q \in DOMAIN Serialized(c),
           Plain(c.fs[c.root \o q])
    PROVE  Serialized(c)[q] = TreeNode(c.fs[c.root \o q], ExecutableForOwner)
  <1> DEFINE tree == Serialized(c)
             at == c.root \o q
             node == c.fs[at]
  <1>1. SerializedAt(c, tree, q)
    BY SerializedTree
  <1> HIDE DEF tree
  <1>2. /\ BelowRoot(c.fs, c.root, q) /\ ~WalkRefuses(c, at)
        /\ tree[q] = IF node.kind = "link" THEN Link(FALSE, KeptTarget(c, at))
                     ELSE TreeNode(node, ExecutableForAnyone)
    BY <1>1 DEF SerializedAt, tree
  <1>3. at \in DOMAIN c.fs /\ IsFileSystem(c.fs, Names)
    BY <1>2 DEF BelowRoot, WalkIsDone, IsCallOfWalk
  <1>4. /\ node.kind = "link" => /\ node.target \in Typed /\ node.absolute \in BOOLEAN
                                 /\ node = Link(node.absolute, node.target)
        /\ node.kind = "file" => node.modes \in Modes
    BY <1>3, LinkFacts
  <1>5. CASE node.kind = "link"
    <2>1. ~node.absolute /\ KeptTarget(c, at) = WithoutDots(node.target)
      BY <1>2, <1>5 DEF WalkRefuses, MayStay, KeptTarget
    <2>2. WithoutDots(node.target) = node.target
      <3>1. \A n \in DOMAIN node.target : node.target[n] # "."
        BY <1>5 DEF Plain
      <3> QED BY <1>4, <1>5, <3>1, NoDots
    <2> HIDE DEF node
    <2>3. tree[q] = Link(FALSE, node.target) /\ node.absolute = FALSE
      BY <1>2, <1>4, <1>5, <2>1, <2>2
    <2>4. tree[q] = node
      BY <1>4, <1>5, <2>3
    <2>5. TreeNode(node, ExecutableForOwner) = node
      BY <1>5 DEF TreeNode
    <2> QED BY <2>4, <2>5 DEF tree, node
  <1>6. CASE node.kind = "file"
    <2>1. node.modes # {"others"}
      BY <1>6 DEF Plain
    <2>2. TreeNode(node, ExecutableForAnyone) = TreeNode(node, ExecutableForOwner)
      BY <1>4, <1>6, <2>1, SameFile
    <2> QED BY <1>2, <1>6, <2>2 DEF tree
  <1>7. CASE node.kind # "link" /\ node.kind # "file"
    <2>1. TreeNode(node, ExecutableForAnyone) = node /\ TreeNode(node, ExecutableForOwner) = node
      BY <1>7 DEF TreeNode
    <2> QED BY <1>2, <1>7, <2>1 DEF tree
  <1> QED BY <1>5, <1>6, <1>7

LEMMA SameTree ==
    ASSUME NEW c, WalkIsDone(c),
           \A p \in DOMAIN DirectoryAt(c.fs, c.root) : Plain(c.fs[c.root \o p])
    PROVE  Serialized(c) = DirectoryAt(c.fs, c.root)
  <1> DEFINE tree == Serialized(c)
             whole == DirectoryAt(c.fs, c.root)
             D == {RelativeTo(p, c.root) : p \in Below(c.fs, c.root)}
  <1>1. whole = [p \in D |-> TreeNode(c.fs[c.root \o p], ExecutableForOwner)]
    BY DEF DirectoryAt
  <1>2. groups \cup Occupied = D
    BY WalkedTree
  <1>3. DOMAIN tree = D /\ tree = [p \in D |-> tree[p]]
    BY <1>2 DEF Serialized
  <1>4. \A q \in DOMAIN tree : q \in Seq(Names)
    BY TreeHasNames
  <1>5. DOMAIN whole = D
    BY <1>1
  <1> HIDE DEF D
  <1>6. ASSUME NEW q \in D PROVE tree[q] = whole[q]
    <2>1. q \in Seq(Names) /\ q \in DOMAIN tree /\ Plain(c.fs[c.root \o q])
      BY <1>3, <1>4, <1>5
    <2>2. tree[q] = TreeNode(c.fs[c.root \o q], ExecutableForOwner)
      BY <2>1, AgreeAt
    <2>3. whole[q] = TreeNode(c.fs[c.root \o q], ExecutableForOwner)
      BY <1>1
    <2> QED BY <2>2, <2>3
  <1>7. whole = [p \in D |-> whole[p]]
    BY <1>1
  <1> HIDE DEF tree, whole
  <1>8. tree = whole
    BY <1>3, <1>6, <1>7
  <1> QED BY <1>8 DEF tree, whole

-----------------------------------------------------------------------------
(* What a filter names, and where it lands.                                *)

IsCallOfDigest(c) ==
    /\ IsFileSystem(c.fs, Names) /\ c.cwd \in DOMAIN c.fs /\ c.fs[c.cwd] = Dir
    /\ c.root \in Typed /\ c.filters \in Seq(Typed)

(* A filter that lands somewhere is a path to a directory, a name in it    *)
(* and dots.                                                               *)
IsSplit(c, filter, n) ==
    /\ n \in 1 .. Len(filter) /\ filter[n] # "." /\ filter[n] # ".."
    /\ \A m \in n + 1 .. Len(filter) : filter[m] = "."
    /\ Canonicalize(c.fs, c.cwd, SubSeq(filter, 1, n - 1)) # Gone
    /\ Lands(c, filter) = Append(Canonicalize(c.fs, c.cwd, SubSeq(filter, 1, n - 1)), filter[n])

LEMMA LandsSplits ==
    ASSUME NEW c, NEW filter \in Typed, Lands(c, filter) # Gone
    PROVE  \E n : IsSplit(c, filter, n)
  <1> DEFINE names == {n \in DOMAIN filter : filter[n] # "."}
             last == CHOOSE n \in names : \A m \in names : m <= n
             parent == Canonicalize(c.fs, c.cwd, SubSeq(filter, 1, last - 1))
  <1>1. Lands(c, filter) = IF names = {} \/ filter[last] = ".." \/ parent = Gone THEN Gone
                           ELSE Append(parent, filter[last])
    BY DEF Lands
  <1>2. /\ names \in SUBSET (1 .. Len(filter))
        /\ Len(filter) \in Nat /\ DOMAIN filter = 1 .. Len(filter)
    BY DEF Typed
  <1>3. \A n \in DOMAIN filter : n \in names <=> filter[n] # "."
    OBVIOUS
  <1> HIDE DEF names
  <1>4. \E n \in names : \A m \in names : m <= n
    <2>1. names # {}
      BY <1>1
    <2> QED BY <1>2, <2>1, GreatestMember
  <1>5. last \in names /\ \A m \in names : m <= last
    BY <1>4
  <1> HIDE DEF last
  <1>6. last \in 1 .. Len(filter) /\ filter[last] # "."
    BY <1>2, <1>3, <1>5
  <1>7. ASSUME NEW m \in last + 1 .. Len(filter) PROVE filter[m] = "."
    <2>1. m \in DOMAIN filter /\ ~(m <= last)
      BY <1>2, <1>6
    <2> QED BY <1>3, <1>5, <2>1
  <1>8. filter[last] # ".." /\ parent # Gone /\ Lands(c, filter) = Append(parent, filter[last])
    BY <1>1
  <1> QED BY <1>6, <1>7, <1>8 DEF IsSplit

(* What it names is where it lands, but for a link that is followed.       *)
NamesIt(c, filter) ==
    /\ Lands(c, filter) \in DOMAIN c.fs /\ FilterNode(c, filter) \in DOMAIN c.fs
    /\ \/ FilterNode(c, filter) = Lands(c, filter)
       \/ c.fs[Lands(c, filter)].kind = "link" /\ c.fs[FilterNode(c, filter)].kind # "link"

(* The last component is the name.                                         *)
LEMMA NameWithoutDots ==
    ASSUME NEW c, IsCallOfDigest(c), NEW filter \in Typed, NEW n, IsSplit(c, filter, n),
           n = Len(filter), FilterNode(c, filter) # Gone
    PROVE  NamesIt(c, filter)
  <1> DEFINE before == SubSeq(filter, 1, n - 1)
             parent == Canonicalize(c.fs, c.cwd, before)
             name == filter[n]
             at == Append(parent, name)
  <1>1. /\ name \notin {".", ".."} /\ n \in 1 .. Len(filter) /\ n = Len(filter)
        /\ Lands(c, filter) = at
    BY DEF IsSplit
  <1>2. filter # <<>> /\ Last(filter) = name /\ Front(filter) = before
    <2>1. filter # <<>>
      BY <1>1
    <2> QED BY <1>1, <2>1 DEF Last, Front
  <1> HIDE DEF before, name
  <1>3. FilterNode(c, filter) = IF parent # Gone /\ c.fs[parent].kind = "dir" /\ at \in DOMAIN c.fs
                                THEN at ELSE Gone
    BY <1>1, <1>2 DEF FilterNode, NoFollow
  <1> HIDE DEF parent, at
  <1>4. FilterNode(c, filter) = at /\ at \in DOMAIN c.fs
    BY <1>3
  <1> QED BY <1>1, <1>4 DEF NamesIt

(* The name is followed by dots.                                           *)
LEMMA NameBeforeDots ==
    ASSUME NEW c, IsCallOfDigest(c), NEW filter \in Typed, NEW n, IsSplit(c, filter, n),
           n # Len(filter), FilterNode(c, filter) # Gone
    PROVE  NamesIt(c, filter)
  <1> DEFINE B == Names \cup {".", ".."}
             fs == c.fs
             k == Len(filter)
             before == SubSeq(filter, 1, n - 1)
             after == SubSeq(filter, n, k)
             parent == Canonicalize(fs, c.cwd, before)
             name == filter[n]
             left == Tail(after)
             at == Append(parent, name)
             way == Lookup(fs, c.cwd, filter)
  <1>1. /\ name # "." /\ name # ".." /\ n \in 1 .. k /\ parent # Gone
        /\ \A m \in n + 1 .. k : filter[m] = "."
    BY DEF IsSplit
  <1>2. Lands(c, filter) = at
    BY DEF IsSplit
  <1>3. k \in Nat /\ n < k /\ filter # <<>> /\ filter \in Seq(B)
    <2>1. filter \in Seq(B)
      BY DEF Typed
    <2>2. k \in Nat
      BY <2>1
    <2>3. n < k
      BY <1>1, <2>2
    <2>4. filter # <<>>
      BY <1>1
    <2> QED BY <2>1, <2>2, <2>3, <2>4
  <1>4. before \in Seq(B) /\ after \in Seq(B) /\ filter = before \o after
    <2> DEFINE h == n - 1
    <2>1. h \in 0 .. k /\ h + 1 = n
      BY <1>1, <1>3
    <2> HIDE DEF h, B
    <2>2. /\ SubSeq(filter, 1, h) \in Seq(B) /\ SubSeq(filter, h + 1, k) \in Seq(B)
          /\ filter = SubSeq(filter, 1, h) \o SubSeq(filter, h + 1, k)
      BY <1>3, <2>1, CutInTwo
    <2> QED BY <2>1, <2>2 DEF h
  <1>5. after # <<>> /\ Head(after) = name /\ OnlyDots(left)
    <2>1. /\ Len(after) = k - n + 1
          /\ \A i \in 1 .. k - n + 1 : after[i] = filter[i + n - 1]
      BY <1>1, <1>3
    <2> HIDE DEF after
    <2>2. after # <<>> /\ Head(after) = after[1] /\ after[1] = filter[n]
      <3>1. 1 \in 1 .. k - n + 1 /\ 1 + n - 1 = n
        BY <1>1, <1>3
      <3>2. after # <<>>
        BY <2>1, <1>1, <1>3
      <3> QED BY <2>1, <3>1, <3>2
    <2>3. left \in Seq(B) /\ Len(left) = k - n /\ \A i \in 1 .. k - n : left[i] = after[i + 1]
      <3> HIDE DEF B
      <3> QED BY <1>1, <1>3, <1>4, <2>1, <2>2
    <2>4. ASSUME NEW i \in 1 .. k - n PROVE left[i] = "."
      <3> DEFINE h == i + 1
                 m == i + n
      <3>1. h \in 1 .. k - n + 1 /\ m \in n + 1 .. k /\ h + n - 1 = m
        BY <1>1, <1>3
      <3>2. left[i] = after[h]
        BY <2>3
      <3> HIDE DEF h, m, left
      <3>3. after[h] = filter[m]
        BY <2>1, <3>1
      <3> QED BY <1>1, <3>1, <3>2, <3>3
    <2>5. DOMAIN left = 1 .. k - n
      <3> HIDE DEF left
      <3> QED BY <2>3
    <2> HIDE DEF left
    <2> QED BY <2>2, <2>3, <2>4, <2>5 DEF OnlyDots, Typed
  <1>6. FilterNode(c, filter) = Canonicalize(fs, c.cwd, filter)
    <2>1. Last(filter) = "."
      <3>1. k \in n + 1 .. k
        BY <1>1, <1>3
      <3>2. filter[k] = "."
        BY <1>1, <3>1
      <3> QED BY <3>2 DEF Last
    <2> QED BY <2>1 DEF FilterNode, NoFollow
  <1>7. IsFileSystem(fs, Names) /\ c.cwd \in DOMAIN fs /\ Settled(fs, c.cwd)
    BY DEF IsCallOfDigest, Settled, Dir
  <1>8. before \in Typed /\ after \in Typed
    BY <1>4 DEF Typed
  <1> HIDE DEF before, after, name, left, k, B
  <1>9. PICK h \in 0 .. MaxSteps :
          Lookup(fs, c.cwd, before \o after)[h] = [at |-> parent, rest |-> after]
    <2>1. Canonicalize(fs, c.cwd, before) # Gone
      BY <1>1
    <2> QED BY <1>7, <1>8, <2>1, FirstPart
  <1>10. /\ way[MaxSteps].rest = <<>> /\ \A i \in 0 .. MaxSteps : way[i].at # Gone
    <2>1. Canonicalize(fs, c.cwd, filter) # Gone
      BY <1>6
    <2> QED BY <2>1, NeverLost
  <1>11. /\ MaxSteps \in Nat
         /\ \A i \in 1 .. MaxSteps : way[i] = Advance(fs, way[i - 1])
    <2>1. IsWay(way, fs, c.cwd, filter)
      BY LookupSteps
    <2> HIDE DEF way
    <2> QED BY <2>1 DEF IsWay
  <1>12. way[h] = [at |-> parent, rest |-> after]
    BY <1>4, <1>9
  <1>13. Settled(fs, FilterNode(c, filter))
    BY <1>6, <1>7, CanonicalIsNoLink
  <1> HIDE DEF way, parent
  <1>14. h + 1 \in 1 .. MaxSteps /\ (h + 1) - 1 = h /\ h + 1 \in 0 .. MaxSteps
    <2>1. h # MaxSteps
      BY <1>5, <1>10, <1>12
    <2> QED BY <1>11, <2>1
  <1>15. way[h + 1] = Onward(fs, parent, name, left)
    <2> DEFINE s == way[h]
    <2>1. s.at = parent /\ s.rest = after
      BY <1>12
    <2>2. way[h + 1] = Advance(fs, s)
      BY <1>11, <1>14
    <2> HIDE DEF s
    <2>3. Advance(fs, s) = Onward(fs, s.at, Head(s.rest), Tail(s.rest))
      BY <1>1, <1>5, <2>1, AdvanceIsOnward
    <2> QED BY <1>5, <2>1, <2>2, <2>3 DEF left
  <1>16. Entered(fs, parent, name) = at /\ at \in DOMAIN fs
    <2>1. Gone \notin DOMAIN fs
      BY <1>7 DEF IsFileSystem
    <2>2. Entered(fs, parent, name) = IF fs[parent].kind = "dir" /\ at \in DOMAIN fs
                                      THEN at ELSE Gone
      BY <1>1 DEF Entered
    <2>3. Entered(fs, parent, name) # Gone
      <3> DEFINE next == Entered(fs, parent, name)
      <3>1. SUFFICES ASSUME next = Gone PROVE FALSE
        OBVIOUS
      <3>2. Onward(fs, parent, name, left) = [at |-> next, rest |-> left]
        BY <2>1, <3>1 DEF Onward
      <3> HIDE DEF next
      <3> QED BY <1>10, <1>14, <1>15, <3>1, <3>2
    <2> HIDE DEF at
    <2> QED BY <2>2, <2>3
  <1> HIDE DEF at
  <1>17. FilterNode(c, filter) \in DOMAIN fs /\ fs[FilterNode(c, filter)].kind # "link"
    BY <1>13 DEF Settled
  <1>18. CASE fs[at].kind = "link"
    BY <1>2, <1>16, <1>17, <1>18 DEF NamesIt
  <1>19. CASE fs[at].kind # "link"
    <2>1. way[h + 1] = [at |-> at, rest |-> left]
      BY <1>15, <1>16, <1>19 DEF Onward
    <2> DEFINE j == h + 1
    <2>2. j \in 0 .. MaxSteps /\ Lookup(fs, c.cwd, filter)[j] = [at |-> at, rest |-> left]
      BY <1>14, <2>1 DEF way
    <2> HIDE DEF j
    <2>3. Canonicalize(fs, c.cwd, filter) # Gone
      BY <1>6
    <2>4. Canonicalize(fs, c.cwd, filter) = at
      BY <1>5, <1>7, <1>16, <1>19, <2>2, <2>3, DotsStay
    <2> QED BY <1>2, <1>6, <1>16, <2>4 DEF NamesIt
  <1> QED BY <1>18, <1>19

LEMMA FilterNamesIt ==
    ASSUME NEW c, IsCallOfDigest(c), NEW filter \in Typed,
           FilterNode(c, filter) # Gone, Lands(c, filter) # Gone
    PROVE  NamesIt(c, filter)
  <1>1. PICK n : IsSplit(c, filter, n)
    BY LandsSplits
  <1> QED BY <1>1, NameWithoutDots, NameBeforeDots

(* What exists is not below what does not.                                 *)
LEMMA NothingIsUnderGone ==
    ASSUME NEW fs, IsFileSystem(fs, Names), NEW at \in DOMAIN fs
    PROVE  ~Under(at, Gone)
  <1>1. SUFFICES ASSUME Under(at, Gone) PROVE FALSE
    OBVIOUS
  <1> DEFINE s == SubSeq(at, 1, 1)
  <1>2. at \in Seq(Names) /\ Gone \notin DOMAIN fs
    BY PathFacts DEF IsFileSystem
  <1>3. Len(Gone) = 1 /\ SubSeq(Gone, 1, 1) = Gone
    <2> DEFINE g == Gone
    <2>1. g \in Seq({"gone"}) /\ Len(g) = 1
      BY DEF Gone
    <2> HIDE DEF g
    <2>2. SubSeq(g, 1, 1) = g
      BY <2>1
    <2> QED BY <2>1, <2>2 DEF g
  <1>4. Len(at) >= 1 /\ s = Gone
    BY <1>1, <1>3 DEF Under, IsPrefix
  <1>5. CASE Len(at) = 1
    <2>1. s = at
      BY <1>2, <1>5
    <2> QED BY <1>2, <1>4, <2>1
  <1>6. CASE Len(at) # 1
    <2>1. 1 \in 0 .. Len(at) - 1
      BY <1>2, <1>4, <1>6
    <2>2. s \in DOMAIN fs
      BY <2>1, PathFacts
    <2> QED BY <1>2, <1>4, <2>2
  <1> QED BY <1>5, <1>6

RootOf(c) == Canonicalize(c.fs, c.cwd, c.root)

LEMMA RootIsNoLink ==
    ASSUME NEW c, IsCallOfDigest(c)
    PROVE  Settled(c.fs, RootOf(c))
  <1>1. Settled(c.fs, c.cwd)
    BY DEF IsCallOfDigest, Settled, Dir
  <1> QED BY <1>1, CanonicalIsNoLink DEF IsCallOfDigest, RootOf

(* What becomes of a filter.                                               *)
FilteredAs(c, filter, e) ==
    /\ e \in Entries /\ e.kind # "dir"
    /\ Usable(e) => /\ NamesIt(c, filter) /\ RootOf(c) \in DOMAIN c.fs
                    /\ BelowRoot(c.fs, RootOf(c), e.path)
                    /\ Lands(c, filter) = RootOf(c) \o e.path
                    /\ e.kind = LeafKind(c.fs[FilterNode(c, filter)])

LEMMA FilterEntryFacts ==
    ASSUME NEW c, IsCallOfDigest(c), NEW filter \in Typed
    PROVE  FilteredAs(c, filter, FilterEntry(c, filter))
  <1> DEFINE fs == c.fs
             at == Lands(c, filter)
             node == FilterNode(c, filter)
             root == RootOf(c)
             e == FilterEntry(c, filter)
             q == RelativeTo(at, root)
             inside == node # Gone /\ at # Gone /\ Under(at, root)
  <1>1. e = IF inside THEN [path |-> q, kind |-> LeafKind(fs[node])]
            ELSE [path |-> <<>>, kind |-> "file"]
    BY DEF FilterEntry, RootOf
  <1>2. IsFileSystem(fs, Names)
    BY DEF IsCallOfDigest
  <1>3. LeafKind(fs[node]) \in {"tree", "link", "file"}
    BY DEF LeafKind
  <1>4. inside => NamesIt(c, filter) /\ at \in DOMAIN fs
    BY FilterNamesIt DEF NamesIt
  <1>5. Settled(fs, root)
    BY RootIsNoLink
  <1> DEFINE kind == LeafKind(fs[node])
  <1> HIDE DEF e, q, kind, at, node, root
  <1>6. CASE ~inside
    <2>1. e = [path |-> <<>>, kind |-> "file"]
      BY <1>1, <1>6
    <2>2. ~Usable(e) /\ e \in Entries /\ e.kind # "dir"
      BY <2>1 DEF Usable, Entries, Kinds
    <2> QED BY <2>2 DEF FilteredAs, e
  <1>7. CASE inside
    <2>1. e = [path |-> q, kind |-> kind]
      BY <1>1, <1>7 DEF kind
    <2>2. root \in DOMAIN fs /\ root \in Seq(Names) /\ at \in Seq(Names)
      <3>1. root # Gone
        BY <1>2, <1>4, <1>7, NothingIsUnderGone
      <3>2. root \in DOMAIN fs
        BY <1>5, <3>1 DEF Settled
      <3> QED BY <1>2, <1>4, <1>7, <3>2, PathFacts
    <2>3. q \in Seq(Names) /\ at = root \o q
      BY <1>7, <2>2, UnderSplits DEF q
    <2>4. e \in Entries /\ e.kind # "dir" /\ e.path = q /\ e.kind = kind
      <3>1. kind \in Kinds /\ kind # "dir"
        BY <1>3 DEF kind, Kinds
      <3>2. q \in Seq(Names \cup Odd)
        BY <2>3
      <3> QED BY <2>1, <3>1, <3>2 DEF Entries
    <2>5. ASSUME Usable(e) PROVE BelowRoot(fs, root, q)
      <3>1. q # <<>>
        BY <2>4, <2>5 DEF Usable
      <3>2. root \o q \in DOMAIN fs
        BY <1>4, <1>7, <2>3
      <3> QED BY <1>2, <2>2, <2>3, <3>1, <3>2, WhatIsBelow
    <2>6. /\ e \in Entries /\ e.kind # "dir"
          /\ Usable(e) => /\ NamesIt(c, filter) /\ root \in DOMAIN fs
                          /\ BelowRoot(fs, root, e.path)
                          /\ at = root \o e.path
                          /\ e.kind = kind
      BY <1>4, <1>7, <2>2, <2>3, <2>4, <2>5
    <2> QED BY <2>6 DEF FilteredAs, e, at, root, kind, node
  <1> QED BY <1>6, <1>7

LEMMA FilterSuits ==
    ASSUME NEW c, IsCallOfDigest(c)
    PROVE  Suits("filter", FilterEntries(c))
  <1> DEFINE list == FilterEntries(c)
             k == Len(c.filters)
  <1>1. /\ DOMAIN c.filters = 1 .. k /\ k \in Nat
        /\ \A n \in DOMAIN c.filters : c.filters[n] \in Typed
    BY DEF IsCallOfDigest
  <1>2. /\ list = [n \in 1 .. k |-> FilterEntry(c, c.filters[n])]
    BY <1>1 DEF FilterEntries
  <1>3. \A n \in 1 .. k : FilterEntry(c, c.filters[n]) \in Entries
                          /\ FilterEntry(c, c.filters[n]).kind # "dir"
    BY <1>1, FilterEntryFacts DEF FilteredAs
  <1> HIDE DEF list, k
  <1>4. list \in Seq(Entries) /\ DOMAIN list = 1 .. k
    BY <1>1, <1>2, <1>3
  <1>5. \A n \in DOMAIN list : list[n].kind # "dir"
    BY <1>2, <1>3, <1>4
  <1>6. Suits("filter", list)
    BY <1>4, <1>5 DEF Suits
  <1> QED BY <1>6 DEF list

(* What the invariants say of filters that were accepted.                  *)
FiltersAreDone(c) ==
    /\ IsCallOfDigest(c) /\ given = FilterEntries(c)
    /\ tool = "filter" /\ verdict = "accepted" /\ AcceptedIffDisjoint /\ HoldsWhatWasGiven

(* No link is followed: a filter names what is at its place in the tree.   *)
IsNamed(c, n) ==
    /\ given[n].path \in Seq(Names) /\ RootOf(c) \in DOMAIN c.fs
    /\ BelowRoot(c.fs, RootOf(c), given[n].path)
    /\ FilterNode(c, c.filters[n]) = RootOf(c) \o given[n].path

LEMMA FilterIsNamed ==
    ASSUME NEW c, FiltersAreDone(c), NEW n \in DOMAIN given, ~Follows(c, n)
    PROVE  IsNamed(c, n)
  <1> DEFINE filter == c.filters[n]
             e == given[n]
             at == Lands(c, filter)
             node == FilterNode(c, filter)
  <1>1. DOMAIN given = DOMAIN c.filters /\ e = FilterEntry(c, filter) /\ filter \in Typed
    <2>1. given = [m \in DOMAIN c.filters |-> FilterEntry(c, c.filters[m])]
      BY DEF FiltersAreDone, FilterEntries
    <2>2. \A m \in DOMAIN c.filters : c.filters[m] \in Typed
      BY DEF FiltersAreDone, IsCallOfDigest
    <2> QED BY <2>1, <2>2
  <1>2. Usable(e)
    BY DEF FiltersAreDone, AcceptedIffDisjoint, AllUsable, IsRoot
  <1> HIDE DEF e, filter
  <1>3. FilteredAs(c, filter, e)
    BY <1>1, FilterEntryFacts DEF FiltersAreDone
  <1>4. /\ NamesIt(c, filter) /\ RootOf(c) \in DOMAIN c.fs
        /\ BelowRoot(c.fs, RootOf(c), e.path)
        /\ at = RootOf(c) \o e.path /\ e.kind = LeafKind(c.fs[node])
    BY <1>2, <1>3 DEF FilteredAs
  <1>5. node = at
    <2>1. SUFFICES ASSUME node # at PROVE FALSE
      OBVIOUS
    <2>2. c.fs[at].kind = "link" /\ c.fs[node].kind # "link"
      BY <1>4, <2>1 DEF NamesIt
    <2>3. e.kind # "link"
      BY <1>4, <2>2 DEF LeafKind
    <2> QED BY <2>2, <2>3 DEF Follows, e, filter
  <1> QED BY <1>4, <1>5 DEF IsNamed, BelowRoot, e, filter

-----------------------------------------------------------------------------
(* What the filters select.                                                *)

(* What a filter brings into the tree.                                     *)
Brought(c, n) ==
    LET at == FilterNode(c, c.filters[n])
    IN {given[n].path \o RelativeTo(q, at) : q \in Below(c.fs, at) \cup {at}}

IsOn(c, n, p) ==
    /\ p \in Brought(c, n) <=> p \in Seq(Names) /\ Under(p, given[n].path)
                               /\ RootOf(c) \o p \in DOMAIN c.fs
    /\ p \in Seq(Names) /\ Under(p, given[n].path) =>
         /\ p # <<>>
         /\ FilterNode(c, c.filters[n]) \o RelativeTo(p, given[n].path) = RootOf(c) \o p

LEMMA WhatIsBrought ==
    ASSUME NEW c, IsCallOfDigest(c), NEW n \in DOMAIN given, IsNamed(c, n), NEW p
    PROVE  IsOn(c, n, p)
  <1> DEFINE fs == c.fs
             root == RootOf(c)
             path == given[n].path
             at == FilterNode(c, c.filters[n])
  <1>1. /\ path \in Seq(Names) /\ root \in DOMAIN fs /\ at = root \o path
        /\ path # <<>> /\ at \in DOMAIN fs
    BY DEF IsNamed, BelowRoot
  <1>2. root \in Seq(Names) /\ at \in Seq(Names) /\ \A q \in DOMAIN fs : q \in Seq(Names)
    BY <1>1, PathFacts DEF IsCallOfDigest
  <1>3. Brought(c, n) = {path \o RelativeTo(q, at) : q \in Below(fs, at) \cup {at}}
    BY DEF Brought
  <1> HIDE DEF root, path, at, fs
  <1>4. Under(at, at)
    BY <1>2, SamePrefix
  <1>5. \A q : q \in Below(fs, at) \cup {at} <=> q \in DOMAIN fs /\ Under(q, at)
    BY <1>1, <1>4 DEF Below
  <1>6. ASSUME p \in Seq(Names), Under(p, path)
        PROVE  /\ p # <<>> /\ RelativeTo(p, path) \in Seq(Names)
               /\ at \o RelativeTo(p, path) = root \o p /\ p = path \o RelativeTo(p, path)
    <2> DEFINE r == RelativeTo(p, path)
    <2>1. r \in Seq(Names) /\ p = path \o r /\ Len(p) = Len(path) + Len(r)
      BY <1>1, <1>6, UnderSplits
    <2> HIDE DEF r
    <2>2. (root \o path) \o r = root \o (path \o r)
      <3>1. root \in Seq(Names) /\ path \in Seq(Names) /\ r \in Seq(Names)
        BY <1>1, <1>2, <2>1
      <3>2. JoinsTwice(root, path, r)
        BY <3>1, JoinTwice
      <3> QED BY <3>2 DEF JoinsTwice
    <2>3. p # <<>>
      <3>1. Len(path) \in Nat \ {0} /\ Len(r) \in Nat
        BY <1>1, <2>1
      <3>2. Len(p) # 0
        BY <2>1, <3>1
      <3> QED BY <3>2
    <2> QED BY <1>1, <2>1, <2>2, <2>3 DEF r
  <1>7. ASSUME p \in Brought(c, n)
        PROVE  p \in Seq(Names) /\ Under(p, path) /\ root \o p \in DOMAIN fs
    <2>1. PICK q : q \in DOMAIN fs /\ Under(q, at) /\ p = path \o RelativeTo(q, at)
      BY <1>3, <1>5, <1>7
    <2> DEFINE r == RelativeTo(q, at)
    <2>2. r \in Seq(Names) /\ q = at \o r
      BY <1>2, <2>1, UnderSplits
    <2>3. p = path \o r
      BY <2>1
    <2> HIDE DEF r
    <2>4. (root \o path) \o r = root \o (path \o r)
      <3>1. root \in Seq(Names) /\ path \in Seq(Names) /\ r \in Seq(Names)
        BY <1>1, <1>2, <2>2
      <3>2. JoinsTwice(root, path, r)
        BY <3>1, JoinTwice
      <3> QED BY <3>2 DEF JoinsTwice
    <2>5. path \o r \in Seq(Names) /\ Under(path \o r, path)
      <3>1. path \o r \in Seq(Names)
        BY <1>1, <2>2
      <3> QED BY <1>1, <2>2, <3>1, JoinedIsUnder
    <2> QED BY <1>1, <2>1, <2>2, <2>3, <2>4, <2>5
  <1>8. ASSUME p \in Seq(Names), Under(p, path), root \o p \in DOMAIN fs
        PROVE  p \in Brought(c, n)
    <2> DEFINE r == RelativeTo(p, path)
               q == root \o p
    <2>1. r \in Seq(Names) /\ at \o r = q /\ p = path \o r
      BY <1>6, <1>8
    <2>2. q \in DOMAIN fs
      BY <1>8
    <2> HIDE DEF r, q
    <2>3. Under(at \o r, at) /\ RelativeTo(at \o r, at) = r
      BY <1>2, <2>1, JoinedIsUnder
    <2>4. q \in Below(fs, at) \cup {at} /\ p = path \o RelativeTo(q, at)
      BY <1>5, <2>1, <2>2, <2>3
    <2> QED BY <1>3, <2>4
  <1> QED BY <1>6, <1>7, <1>8 DEF IsOn, root, path, at, fs

(* What is above a filter in the tree.                                     *)
LEMMA GroupsOfFilters ==
    ASSUME NEW c, FiltersAreDone(c)
    PROVE  groups = UNION {Above(given[n].path) : n \in DOMAIN given}
  <1> DEFINE list == {given[i] : i \in DOMAIN given}
  <1>1. /\ entries = {e \in list : e.kind # "dir"}
        /\ groups = (UNION {Above(e.path) : e \in list}) \cup {e.path : e \in list \ entries}
    BY DEF FiltersAreDone, HoldsWhatWasGiven
  <1>2. \A n \in DOMAIN given : given[n].kind # "dir"
    <2>1. \A n \in DOMAIN FilterEntries(c) : FilterEntries(c)[n].kind # "dir"
      BY FilterSuits DEF FiltersAreDone, Suits
    <2> QED BY <2>1 DEF FiltersAreDone
  <1>3. list \ entries = {}
    BY <1>1, <1>2
  <1>4. \A e : e \in list <=> \E n \in DOMAIN given : e = given[n]
    OBVIOUS
  <1> HIDE DEF list
  <1>5. {e.path : e \in list \ entries} = {}
    BY <1>3
  <1>6. {Above(e.path) : e \in list} = {Above(given[n].path) : n \in DOMAIN given}
    BY <1>4
  <1> QED BY <1>1, <1>5, <1>6

(* The part of the whole tree that is selected.                            *)
Whole(c) == DirectoryAt(c.fs, RootOf(c))
Selection(c) ==
    {p \in DOMAIN Whole(c) : \E n \in DOMAIN given :
       Under(p, given[n].path) \/ Under(given[n].path, p)}

LEMMA WhatIsWhole ==
    ASSUME NEW c, IsCallOfDigest(c), RootOf(c) \in DOMAIN c.fs, NEW p
    PROVE  /\ p \in DOMAIN Whole(c) <=> BelowRoot(c.fs, RootOf(c), p)
           /\ p \in DOMAIN Whole(c) =>
                Whole(c)[p] = TreeNode(c.fs[RootOf(c) \o p], ExecutableForOwner)
  <1> DEFINE root == RootOf(c)
             D == {RelativeTo(q, root) : q \in Below(c.fs, root)}
  <1>1. Whole(c) = [q \in D |-> TreeNode(c.fs[root \o q], ExecutableForOwner)]
    BY DEF Whole, DirectoryAt
  <1> HIDE DEF root
  <1>2. ASSUME p \in D PROVE BelowRoot(c.fs, root, p)
    <2>1. PICK q \in Below(c.fs, root) : p = RelativeTo(q, root)
      BY <1>2
    <2> QED BY <2>1, BelowIsUnder DEF IsCallOfDigest, root
  <1>3. ASSUME BelowRoot(c.fs, root, p) PROVE p \in D
    BY <1>3 DEF BelowRoot
  <1> HIDE DEF D
  <1>4. DOMAIN Whole(c) = D
    BY <1>1
  <1> QED BY <1>1, <1>2, <1>3, <1>4 DEF root

(* Above a filter there are directories.                                   *)
LEMMA GroupsAreDirectories ==
    ASSUME NEW c, IsCallOfDigest(c), NEW n \in DOMAIN given, IsNamed(c, n),
           NEW p \in Above(given[n].path)
    PROVE  /\ BelowRoot(c.fs, RootOf(c), p) /\ c.fs[RootOf(c) \o p] = Dir
           /\ Under(given[n].path, p)
  <1>1. /\ given[n].path \in Seq(Names) /\ RootOf(c) \in DOMAIN c.fs
        /\ BelowRoot(c.fs, RootOf(c), given[n].path)
    BY DEF IsNamed
  <1>2. BelowRoot(c.fs, RootOf(c), p) /\ c.fs[RootOf(c) \o p] = Dir
    BY <1>1, AboveIsBelow DEF IsCallOfDigest
  <1>3. p \in Seq(Names)
    BY <1>2 DEF BelowRoot
  <1> QED BY <1>1, <1>2, <1>3, AboveIsUnder

(* The filtered tree has the paths that are selected, and what is at them. *)
LEMMA SelectedIsFiltered ==
    ASSUME NEW c, FiltersAreDone(c), \A n \in DOMAIN given : IsNamed(c, n)
    PROVE  FilteredPaths(c) = Selection(c)
  <1> DEFINE root == RootOf(c)
             P == FilteredPaths(c)
  <1>1. IsCallOfDigest(c)
    BY DEF FiltersAreDone
  <1>2. groups = UNION {Above(given[n].path) : n \in DOMAIN given}
    BY GroupsOfFilters
  <1>3. P = groups \cup UNION {Brought(c, n) : n \in DOMAIN given}
    BY DEF FilteredPaths, Brought
  <1> HIDE DEF P
  <1>4. \A p : p \in P <=> \E n \in DOMAIN given : p \in Above(given[n].path) \/ p \in Brought(c, n)
    <2> HIDE DEF Above, Brought
    <2> QED BY <1>2, <1>3
  <1>5. ASSUME NEW n \in DOMAIN given, NEW p \in Above(given[n].path)
        PROVE  p \in Selection(c)
    <2>1. IsNamed(c, n)
      OBVIOUS
    <2>2. BelowRoot(c.fs, root, p) /\ Under(given[n].path, p)
      BY <1>1, <1>5, <2>1, GroupsAreDirectories
    <2>3. p \in DOMAIN Whole(c)
      BY <1>1, <2>1, <2>2, WhatIsWhole DEF IsNamed
    <2> QED BY <2>2, <2>3 DEF Selection
  <1>6. ASSUME NEW n \in DOMAIN given, NEW p \in Brought(c, n)
        PROVE  p \in Selection(c)
    <2>1. IsNamed(c, n) /\ root \in DOMAIN c.fs
      BY DEF IsNamed
    <2>2. IsOn(c, n, p)
      BY <1>1, <2>1, WhatIsBrought
    <2>3. /\ p \in Seq(Names) /\ p # <<>> /\ root \o p \in DOMAIN c.fs
          /\ Under(p, given[n].path)
      BY <1>6, <2>2 DEF IsOn
    <2>4. BelowRoot(c.fs, root, p)
      BY <1>1, <2>1, <2>3, WhatIsBelow DEF IsCallOfDigest
    <2>5. p \in DOMAIN Whole(c)
      BY <1>1, <2>1, <2>4, WhatIsWhole
    <2> QED BY <2>3, <2>5 DEF Selection
  <1>7. ASSUME NEW p \in Selection(c) PROVE p \in P
    <2>1. PICK n \in DOMAIN given : Under(p, given[n].path) \/ Under(given[n].path, p)
      BY <1>7 DEF Selection
    <2>2. p \in DOMAIN Whole(c)
      BY <1>7 DEF Selection
    <2>3. IsNamed(c, n) /\ root \in DOMAIN c.fs /\ given[n].path \in Seq(Names)
      BY DEF IsNamed
    <2>4. BelowRoot(c.fs, root, p)
      BY <1>1, <2>2, <2>3, WhatIsWhole
    <2>5. p \in Seq(Names) /\ p # <<>> /\ root \o p \in DOMAIN c.fs
      BY <2>4 DEF BelowRoot
    <2>6. CASE Under(p, given[n].path)
      <3>1. IsOn(c, n, p)
        BY <1>1, <2>3, WhatIsBrought
      <3>2. p \in Brought(c, n)
        BY <2>5, <2>6, <3>1 DEF IsOn
      <3> QED BY <1>4, <3>2
    <2>7. CASE ~Under(p, given[n].path)
      <3>1. Under(given[n].path, p)
        BY <2>1, <2>7
      <3>2. p # given[n].path
        <4>1. Under(p, p)
          BY <2>5, SamePrefix
        <4> QED BY <2>7, <4>1
      <3>3. p \in Above(given[n].path)
        BY <2>3, <2>5, <3>1, <3>2, AboveIsUnder
      <3> QED BY <1>4, <3>3
    <2> QED BY <2>6, <2>7
  <1>8. P \subseteq Selection(c) /\ Selection(c) \subseteq P
    BY <1>4, <1>5, <1>6, <1>7
  <1> QED BY <1>8 DEF P

LEMMA FilteredValue ==
    ASSUME NEW c, FiltersAreDone(c), \A n \in DOMAIN given : IsNamed(c, n),
           NEW p \in Selection(c)
    PROVE  FilteredAt(c, p) = Whole(c)[p]
  <1> DEFINE root == RootOf(c)
             on(n) == Under(p, given[n].path)
             m == CHOOSE n \in DOMAIN given : on(n)
             at == FilterNode(c, c.filters[m])
             node == c.fs[at \o RelativeTo(p, given[m].path)]
  <1>1. IsCallOfDigest(c)
    BY DEF FiltersAreDone
  <1>2. /\ p \in DOMAIN Whole(c)
        /\ \E n \in DOMAIN given : on(n) \/ Under(given[n].path, p)
    BY DEF Selection
  <1>3. FilteredAt(c, p) = IF \E n \in DOMAIN given : on(n)
                           THEN TreeNode(node, ExecutableForOwner) ELSE Dir
    BY DEF FilteredAt
  <1>4. root \in DOMAIN c.fs
    BY <1>2 DEF IsNamed
  <1>5. /\ BelowRoot(c.fs, root, p)
        /\ Whole(c)[p] = TreeNode(c.fs[root \o p], ExecutableForOwner)
    BY <1>1, <1>2, <1>4, WhatIsWhole
  <1>6. p \in Seq(Names) /\ p # <<>>
    BY <1>5 DEF BelowRoot
  <1> HIDE DEF node
  <1>7. CASE \E n \in DOMAIN given : on(n)
    <2>1. m \in DOMAIN given /\ on(m)
      BY <1>7
    <2> HIDE DEF m
    <2>2. IsOn(c, m, p)
      BY <1>1, <2>1, WhatIsBrought
    <2>3. at \o RelativeTo(p, given[m].path) = root \o p
      BY <1>6, <2>1, <2>2 DEF IsOn
    <2>4. node = c.fs[root \o p]
      BY <2>3 DEF node
    <2> QED BY <1>3, <1>5, <1>7, <2>4
  <1>8. CASE ~(\E n \in DOMAIN given : on(n))
    <2>1. PICK n \in DOMAIN given : ~Under(p, given[n].path) /\ Under(given[n].path, p)
      BY <1>2, <1>8
    <2>2. IsNamed(c, n) /\ given[n].path \in Seq(Names)
      BY DEF IsNamed
    <2>3. p # given[n].path
      <3>1. Under(p, p)
        BY <1>6, SamePrefix
      <3> QED BY <2>1, <3>1
    <2>4. p \in Above(given[n].path)
      BY <1>6, <2>1, <2>2, <2>3, AboveIsUnder
    <2>5. c.fs[root \o p] = Dir
      BY <1>1, <2>2, <2>4, GroupsAreDirectories
    <2>6. TreeNode(Dir, ExecutableForOwner) = Dir
      BY DEF TreeNode, Dir
    <2> QED BY <1>3, <1>5, <1>8, <2>5, <2>6
  <1> QED BY <1>7, <1>8

LEMMA SelectionIsWhole ==
    ASSUME NEW c, FiltersAreDone(c), \A n \in DOMAIN given : ~Follows(c, n)
    PROVE  Filtered(c) = [p \in Selection(c) |-> Whole(c)[p]]
  <1>1. \A n \in DOMAIN given : IsNamed(c, n)
    BY FilterIsNamed
  <1>2. FilteredPaths(c) = Selection(c)
    BY <1>1, SelectedIsFiltered
  <1>3. \A p \in Selection(c) : FilteredAt(c, p) = Whole(c)[p]
    BY <1>1, FilteredValue
  <1>4. Filtered(c) = [p \in Selection(c) |-> FilteredAt(c, p)]
    BY <1>2 DEF Filtered
  <1> QED BY <1>3, <1>4

-----------------------------------------------------------------------------
(* Calls on a file system.                                                 *)

LEMMA WalkedMeans ==
    ASSUME WalkIsDone(call)
    PROVE  SerializedIsHermetic /\ ToolsAgree
  <1>1. SerializedIsHermetic
    <2>1. SUFFICES ASSUME call.root # <<>>, NEW p \in DOMAIN Serialized(call),
                          Serialized(call)[p].kind = "link", ~Leaves(call, call.root \o p)
                   PROVE  Canonicalize(Materialized(Serialized(call)), Elsewhere \o Front(p),
                                       Serialized(call)[p].target)
                            = Elsewhere \o RelativeTo(Resolved(call, call.root \o p), call.root)
      BY DEF SerializedIsHermetic
    <2> QED BY <2>1, HermeticLink
  <1>2. ToolsAgree
    <2> DEFINE whole == DirectoryAt(call.fs, call.root)
    <2>1. SUFFICES ASSUME \A p \in DOMAIN whole : Plain(call.fs[call.root \o p])
                   PROVE  Serialized(call) = whole
      BY DEF ToolsAgree, Plain
    <2> QED BY <2>1, SameTree
  <1> QED BY <1>1, <1>2

LEMMA DigestedMeans ==
    ASSUME FiltersAreDone(call)
    PROVE  FiltersSelect
  <1>1. SUFFICES ASSUME \A n \in DOMAIN given : ~Follows(call, n)
                 PROVE  Filtered(call) = [p \in Selection(call) |-> Whole(call)[p]]
    BY DEF FiltersSelect, Selection, Whole, RootOf
  <1> QED BY <1>1, SelectionIsWhole

-----------------------------------------------------------------------------
(* The theorems.                                                           *)

LEMMA TrieInvHolds ==
    Spec => []TrieInv
  <1>1. Init => TrieInv
    BY InitSuits, BeginsWell
  <1>2. TrieInv /\ [Build]_trieVars => TrieInv'
    BY BuildKeepsInv
  <1> QED BY <1>1, <1>2, PTL DEF Spec

(* A list of filters, or the inputs and trees of a spec, are accepted      *)
(* exactly when no path is, or lies below, another (insert_filter,         *)
(* DirectoryComposer): however long the list, however deep the paths, and  *)
(* in whatever order they come.                                            *)
THEOREM AcceptedWheneverDisjoint == Spec => []AcceptedIffDisjoint
  <1>1. TrieInv => AcceptedIffDisjoint
    BY AcceptedIsFine
  <1> QED BY <1>1, TrieInvHolds, PTL

(* What is built is what was given and the directories above it, and no    *)
(* name stands for two things on the way.                                  *)
THEOREM HoldsNothingElse == Spec => []HoldsWhatWasGiven
  <1>1. TrieInv => HoldsWhatWasGiven
    BY NothingElseIsHeld
  <1> QED BY <1>1, TrieInvHolds, PTL

(* The same of every list that may come from a file system: of the walk of *)
(* `re-dispatch serialize` (DirectoryBuilder), which is never refused for  *)
(* a collision, and of filters that were resolved.                         *)
THEOREM SoundForEveryList ==
    ASSUME NEW t, NEW list, Suits(t, list)
    PROVE  Begin(t, list) /\ [][Build]_trieVars
             => [](AcceptedIffDisjoint /\ HoldsWhatWasGiven)
  <1>1. Begin(t, list) => TrieInv
    BY BeginsWell
  <1>2. TrieInv /\ [Build]_trieVars => TrieInv'
    BY BuildKeepsInv
  <1>3. TrieInv => AcceptedIffDisjoint /\ HoldsWhatWasGiven
    BY AcceptedIsFine, NothingElseIsHeld
  <1> QED BY <1>1, <1>2, <1>3, PTL

(* Whatever a list comes from: a spec, a walk or filters on a file system. *)
LocalInv ==
    /\ TrieInv
    /\ tool = "serializer" =>
         call \in Walks /\ \E w \in WalkOrders(call) : given = WalkEntries(call, w)
    /\ tool = "filter" /\ call # None => call \in Digests /\ given = FilterEntries(call)

LEMMA LocalInitIsFine ==
    ASSUME LocalInit
    PROVE  LocalInv
  <1>1. CASE Init /\ call = None
    <2>1. TrieInv
      BY <1>1, InitSuits, BeginsWell
    <2>2. tool # "serializer"
      BY <1>1 DEF Init, Begin
    <2> QED BY <1>1, <2>1, <2>2 DEF LocalInv
  <1>2. CASE \E c \in Digests : call = c /\ Begin("filter", FilterEntries(c))
    <2>1. call \in Digests /\ Begin("filter", FilterEntries(call))
      BY <1>2
    <2>2. IsCallOfDigest(call)
      BY <2>1, CallsAssumption DEF IsCallOfDigest
    <2>3. TrieInv
      BY <2>1, <2>2, FilterSuits, BeginsWell
    <2>4. tool = "filter" /\ given = FilterEntries(call)
      BY <2>1 DEF Begin
    <2> QED BY <2>1, <2>3, <2>4 DEF LocalInv
  <1>3. CASE \E c \in Walks : /\ call = c
                              /\ \E w \in WalkOrders(c) : Begin("serializer", WalkEntries(c, w))
    <2>1. PICK w \in WalkOrders(call) : call \in Walks /\ Begin("serializer", WalkEntries(call, w))
      BY <1>3
    <2>2. IsCallOfWalk(call)
      BY <2>1, CallsAssumption DEF IsCallOfWalk
    <2>3. TrieInv
      BY <2>1, <2>2, WalkSuits, BeginsWell
    <2>4. tool = "serializer" /\ given = WalkEntries(call, w)
      BY <2>1 DEF Begin
    <2> QED BY <2>1, <2>3, <2>4 DEF LocalInv
  <1> QED BY <1>1, <1>2, <1>3 DEF LocalInit

LEMMA NextKeepsInv ==
    ASSUME LocalInv, [Next]_vars
    PROVE  LocalInv'
  <1>1. [Build]_trieVars /\ UNCHANGED call
    BY DEF Next, vars
  <1>2. TrieInv'
    BY <1>1, BuildKeepsInv DEF LocalInv
  <1>3. UNCHANGED <<tool, given>>
    BY <1>1 DEF Build, MountRoot, Insert, EnsureDir, Reject, Accept, trieVars
  <1>4. WalkOrders(call)' = WalkOrders(call) /\ FilterEntries(call)' = FilterEntries(call)
        /\ \A w : WalkEntries(call, w)' = WalkEntries(call, w)
    BY <1>1
  <1> QED BY <1>1, <1>2, <1>3, <1>4 DEF LocalInv

LEMMA LocalInvMeans ==
    ASSUME LocalInv
    PROVE  /\ AcceptedIffDisjoint /\ HoldsWhatWasGiven
           /\ FiltersSelect /\ SerializedIsHermetic /\ ToolsAgree
  <1>1. AcceptedIffDisjoint /\ HoldsWhatWasGiven
    BY AcceptedIsFine, NothingElseIsHeld DEF LocalInv
  <1>2. SerializedIsHermetic /\ ToolsAgree
    <2>1. CASE Walked
      <3>1. /\ tool = "serializer" /\ verdict = "accepted"
            /\ call \in Walks /\ \E w \in WalkOrders(call) : given = WalkEntries(call, w)
        BY <2>1 DEF Walked, LocalInv
      <3>2. IsCallOfWalk(call)
        BY <3>1, CallsAssumption DEF IsCallOfWalk
      <3>3. WalkIsDone(call)
        BY <1>1, <3>1, <3>2 DEF WalkIsDone
      <3> QED BY <3>3, WalkedMeans
    <2>2. CASE ~Walked
      BY <2>2 DEF SerializedIsHermetic, ToolsAgree
    <2> QED BY <2>1, <2>2
  <1>3. FiltersSelect
    <2>1. CASE Digested
      <3>1. /\ tool = "filter" /\ verdict = "accepted"
            /\ call \in Digests /\ given = FilterEntries(call)
        BY <2>1 DEF Digested, LocalInv
      <3>2. IsCallOfDigest(call)
        BY <3>1, CallsAssumption DEF IsCallOfDigest
      <3>3. FiltersAreDone(call)
        BY <1>1, <3>1, <3>2 DEF FiltersAreDone
      <3> QED BY <3>3, DigestedMeans
    <2>2. CASE ~Digested
      BY <2>2 DEF FiltersSelect
    <2> QED BY <2>1, <2>2
  <1> QED BY <1>1, <1>2, <1>3

LEMMA LocalInvHolds ==
    LocalSpec => []LocalInv
  <1>1. LocalInit => LocalInv
    BY LocalInitIsFine
  <1>2. LocalInv /\ [Next]_vars => LocalInv'
    BY NextKeepsInv
  <1> QED BY <1>1, <1>2, PTL DEF LocalSpec

(* The two theorems above also hold of the walks and the filters of every  *)
(* file system.                                                            *)
THEOREM SoundOnEveryFileSystem ==
    LocalSpec => [](AcceptedIffDisjoint /\ HoldsWhatWasGiven)
  <1>1. LocalInv => AcceptedIffDisjoint /\ HoldsWhatWasGiven
    BY LocalInvMeans
  <1> QED BY <1>1, LocalInvHolds, PTL

(* `digest --filter` gives the part of the whole tree that was selected    *)
(* (build_filtered_directory): for every file system, however deep and     *)
(* with whatever links, and every list of filters that was accepted.       *)
THEOREM FilteredTreeIsPartOfWhole == LocalSpec => []FiltersSelect
  <1>1. LocalInv => FiltersSelect
    BY LocalInvMeans
  <1> QED BY <1>1, LocalInvHolds, PTL

(* What `serialize` lets through is hermetic (validate_symlink_target): in *)
(* every file system, each link of the tree, put elsewhere, leads to the   *)
(* same place in the tree as before, unless it leaves the root on its way. *)
THEOREM SerializedTreeIsHermetic == LocalSpec => []SerializedIsHermetic
  <1>1. LocalInv => SerializedIsHermetic
    BY LocalInvMeans
  <1> QED BY <1>1, LocalInvHolds, PTL

(* build_directory and the walk of `serialize` give the same tree of the   *)
(* same directory, if its files are executable for their owner or for      *)
(* nobody and its links have no "." in them.                               *)
THEOREM BothToolsAgree == LocalSpec => []ToolsAgree
  <1>1. LocalInv => ToolsAgree
    BY LocalInvMeans
  <1> QED BY <1>1, LocalInvHolds, PTL
=============================================================================
