------------------------------ MODULE ListProofs ------------------------------
(***************************************************************************)
(* What the operators of ListOps compute, for lists of any length.  The    *)
(* library states induction for operators; here it is stated for sets of   *)
(* numbers, which the provers can instantiate.                             *)
(***************************************************************************)
EXTENDS ListOps, WellFoundedInduction, TLAPS

-----------------------------------------------------------------------------
(* Induction and recursion.                                                *)

(* A set of natural numbers that is not empty has a least member.          *)
LEMMA LeastMember ==
    ASSUME NEW T, T \subseteq Nat, T # {}
    PROVE  \E n \in T : \A m \in T : n <= m
  <1>1. PICK n \in T : \A m \in T : ~(<<m, n>> \in OpToRel(<, Nat))
    BY NatLessThanWellFounded, WFMin
  <1>2. \A m \in T : ~(m < n)
    BY <1>1 DEF OpToRel
  <1> QED BY <1>2

(* A set of numbers up to k that is not empty has a greatest member.       *)
LEMMA GreatestMember ==
    ASSUME NEW k \in Nat, NEW S \in SUBSET (1 .. k), S # {}
    PROVE  \E n \in S : \A m \in S : m <= n
  <1> DEFINE T == {k - n : n \in S}
  <1>1. T \subseteq Nat /\ T # {}
    <2>1. \A n \in S : k - n \in Nat
      OBVIOUS
    <2>2. \A n \in S : k - n \in T
      OBVIOUS
    <2> QED BY <2>1, <2>2
  <1> HIDE DEF T
  <1>2. PICK t \in T : \A u \in T : t <= u
    BY <1>1, LeastMember
  <1>3. PICK n \in S : t = k - n
    BY <1>2 DEF T
  <1>4. \A m \in S : k - m \in T
    BY DEF T
  <1>5. \A m \in S : m <= n
    <2>1. ASSUME NEW m \in S PROVE m <= n
      <3>1. k - n <= k - m /\ m \in 1 .. k /\ n \in 1 .. k
        BY <1>2, <1>3, <1>4
      <3> QED BY <3>1
    <2> QED BY <2>1
  <1> QED BY <1>5

(* A set that has 0 and, with each number, the next one up to N.           *)
LEMMA CountingUp ==
    ASSUME NEW N \in Nat, NEW T, 0 \in T,
           \A n \in 1 .. N : n - 1 \in T => n \in T
    PROVE  \A n \in 0 .. N : n \in T
  <1> DEFINE Out == {n \in 0 .. N : n \notin T}
  <1>1. SUFFICES ASSUME Out # {} PROVE FALSE
    OBVIOUS
  <1>2. PICK n \in Out : \A m \in Out : n <= m
    <2>1. Out \subseteq Nat
      OBVIOUS
    <2> QED BY <1>1, <2>1, LeastMember
  <1>3. n \in 1 .. N
    BY <1>2
  <1>4. n - 1 \in 0 .. N /\ n - 1 \notin Out
    BY <1>2, <1>3
  <1> QED BY <1>2, <1>3, <1>4

(* f is made by steps, from zero.                                          *)
Steps(f, N, zero, step) ==
    f[0] = zero /\ \A n \in 1 .. N : f[n] = step[n][f[n - 1]]

(* A function may be defined by recursion on the numbers up to N.          *)
LEMMA RecursionUpTo ==
    ASSUME NEW N \in Nat, NEW S, NEW zero \in S, NEW step \in [1 .. N -> [S -> S]]
    PROVE  \E f \in [0 .. N -> S] : Steps(f, N, zero, step)
  <1> DEFINE Good(k, f) == Steps(f, k, zero, step)
             T == {k \in 0 .. N : \E f \in [0 .. k -> S] : Good(k, f)}
  <1>1. 0 \in T
    <2>1. [n \in 0 .. 0 |-> zero] \in [0 .. 0 -> S]
      OBVIOUS
    <2>2. Good(0, [n \in 0 .. 0 |-> zero])
      BY DEF Steps
    <2>3. 0 \in 0 .. N
      OBVIOUS
    <2> HIDE DEF Good
    <2> QED BY <2>1, <2>2, <2>3
  <1>2. ASSUME NEW k \in 1 .. N, k - 1 \in T PROVE k \in T
    <2>1. PICK f \in [0 .. k - 1 -> S] : Good(k - 1, f)
      BY <1>2
    <2> DEFINE g == [n \in 0 .. k |-> IF n = k THEN step[k][f[k - 1]] ELSE f[n]]
    <2>2. step[k][f[k - 1]] \in S
      OBVIOUS
    <2>3. g \in [0 .. k -> S]
      BY <2>2
    <2>4. g[0] = zero
      BY <2>1 DEF Steps
    <2>5. ASSUME NEW n \in 1 .. k PROVE g[n] = step[n][g[n - 1]]
      <3>1. g[n - 1] = f[n - 1]
        OBVIOUS
      <3>2. CASE n = k
        BY <3>1, <3>2
      <3>3. CASE n # k
        <4>1. n \in 1 .. k - 1
          BY <3>3
        <4> QED BY <3>1, <3>3, <4>1, <2>1 DEF Steps
      <3> QED BY <3>2, <3>3
    <2>6. Good(k, g)
      <3> HIDE DEF g
      <3> QED BY <2>4, <2>5 DEF Steps
    <2>7. k \in 0 .. N
      OBVIOUS
    <2> HIDE DEF Good, g
    <2> QED BY <2>3, <2>6, <2>7
  <1>3. N \in T
    <2> HIDE DEF T
    <2>1. \A k \in 1 .. N : k - 1 \in T => k \in T
      BY <1>2
    <2>2. \A k \in 0 .. N : k \in T
      BY <1>1, <2>1, CountingUp
    <2> QED BY <2>2
  <1> QED BY <1>3

-----------------------------------------------------------------------------
(* Joining and cutting lists.                                              *)

(* The beginning of a list, and its end.                                   *)
LEMMA CutAt ==
    ASSUME NEW C, NEW q \in Seq(C), NEW n \in 0 .. Len(q)
    PROVE  /\ SubSeq(q, 1, n) \in Seq(C) /\ Len(SubSeq(q, 1, n)) = n
           /\ \A i \in 1 .. n : SubSeq(q, 1, n)[i] = q[i]
  OBVIOUS

LEMMA CutOff ==
    ASSUME NEW C, NEW q \in Seq(C), NEW n \in 0 .. Len(q)
    PROVE  /\ SubSeq(q, n + 1, Len(q)) \in Seq(C)
           /\ Len(SubSeq(q, n + 1, Len(q))) = Len(q) - n
           /\ \A i \in 1 .. Len(q) - n : SubSeq(q, n + 1, Len(q))[i] = q[i + n]
  OBVIOUS

(* Two lists, one behind the other.                                        *)
LEMMA Joint ==
    ASSUME NEW C, NEW p \in Seq(C), NEW r \in Seq(C)
    PROVE  /\ p \o r \in Seq(C) /\ Len(p \o r) = Len(p) + Len(r)
           /\ \A i \in 1 .. Len(p) : (p \o r)[i] = p[i]
           /\ \A i \in 1 .. Len(r) : (p \o r)[i + Len(p)] = r[i]
  OBVIOUS

(* Lists are equal if they have the same items.                            *)
LEMMA SameList ==
    ASSUME NEW C, NEW p \in Seq(C), NEW q \in Seq(C), Len(p) = Len(q),
           \A i \in 1 .. Len(p) : p[i] = q[i]
    PROVE  p = q
  OBVIOUS

(* A list is its beginning and its end.                                    *)
LEMMA CutInTwo ==
    ASSUME NEW C, NEW q \in Seq(C), NEW n \in 0 .. Len(q)
    PROVE  /\ SubSeq(q, 1, n) \in Seq(C) /\ SubSeq(q, n + 1, Len(q)) \in Seq(C)
           /\ q = SubSeq(q, 1, n) \o SubSeq(q, n + 1, Len(q))
  <1> DEFINE a == SubSeq(q, 1, n)
             b == SubSeq(q, n + 1, Len(q))
             j == a \o b
  <1>1. a \in Seq(C) /\ Len(a) = n /\ \A i \in 1 .. n : a[i] = q[i]
    BY CutAt
  <1>2. b \in Seq(C) /\ Len(b) = Len(q) - n /\ \A i \in 1 .. Len(q) - n : b[i] = q[i + n]
    BY CutOff
  <1> HIDE DEF a, b
  <1>3. /\ j \in Seq(C) /\ Len(j) = Len(a) + Len(b)
        /\ \A i \in 1 .. Len(a) : j[i] = a[i]
        /\ \A i \in 1 .. Len(b) : j[i + Len(a)] = b[i]
    <2>1. a \in Seq(C) /\ b \in Seq(C)
      BY <1>1, <1>2
    <2> QED BY <2>1, Joint
  <1> HIDE DEF j
  <1>4. Len(j) = Len(q) /\ Len(q) \in Nat /\ n \in Nat
    BY <1>1, <1>2, <1>3
  <1>5. ASSUME NEW i \in 1 .. Len(q) PROVE q[i] = j[i]
    <2>1. CASE i \in 1 .. n
      BY <1>1, <1>3, <2>1
    <2>2. CASE i \notin 1 .. n
      <3> DEFINE k == i - n
      <3>1. k \in 1 .. Len(q) - n /\ k + n = i
        BY <1>4, <2>2
      <3> HIDE DEF k
      <3>2. q[i] = b[k]
        BY <1>2, <3>1
      <3>3. j[i] = b[k]
        BY <1>1, <1>2, <1>3, <3>1
      <3> QED BY <3>2, <3>3
    <2> QED BY <2>1, <2>2
  <1>6. q = j
    BY <1>3, <1>4, <1>5, SameList
  <1> QED BY <1>1, <1>2, <1>6 DEF j, a, b

(* Three lists, joined in either order.                                    *)
JoinsTwice(p, q, r) == (p \o q) \o r = p \o (q \o r)
LEMMA JoinTwice ==
    ASSUME NEW C, NEW p \in Seq(C), NEW q \in Seq(C), NEW r \in Seq(C)
    PROVE  JoinsTwice(p, q, r)
  <1> DEFINE a == p \o q
             b == q \o r
             l == a \o r
             m == p \o b
  <1>1. /\ a \in Seq(C) /\ Len(a) = Len(p) + Len(q)
        /\ \A i \in 1 .. Len(p) : a[i] = p[i]
        /\ \A i \in 1 .. Len(q) : a[i + Len(p)] = q[i]
    BY Joint
  <1>2. /\ b \in Seq(C) /\ Len(b) = Len(q) + Len(r)
        /\ \A i \in 1 .. Len(q) : b[i] = q[i]
        /\ \A i \in 1 .. Len(r) : b[i + Len(q)] = r[i]
    BY Joint
  <1> HIDE DEF a, b
  <1>3. /\ l \in Seq(C) /\ Len(l) = Len(a) + Len(r)
        /\ \A i \in 1 .. Len(a) : l[i] = a[i]
        /\ \A i \in 1 .. Len(r) : l[i + Len(a)] = r[i]
    <2>1. a \in Seq(C)
      BY <1>1
    <2> QED BY <2>1, Joint
  <1>4. /\ m \in Seq(C) /\ Len(m) = Len(p) + Len(b)
        /\ \A i \in 1 .. Len(p) : m[i] = p[i]
        /\ \A i \in 1 .. Len(b) : m[i + Len(p)] = b[i]
    <2>1. b \in Seq(C)
      BY <1>2
    <2> QED BY <2>1, Joint
  <1> HIDE DEF l, m
  <1>5. Len(p) \in Nat /\ Len(q) \in Nat /\ Len(r) \in Nat
    OBVIOUS
  <1>6. ASSUME NEW i \in 1 .. Len(l) PROVE l[i] = m[i]
    <2>1. CASE i \in 1 .. Len(p)
      <3>1. i \in 1 .. Len(a)
        BY <1>1, <1>5, <2>1
      <3> QED BY <1>1, <1>3, <1>4, <2>1, <3>1
    <2>2. CASE i > Len(p) /\ i <= Len(p) + Len(q)
      <3> DEFINE k == i - Len(p)
      <3>1. k \in 1 .. Len(q) /\ k \in 1 .. Len(b) /\ k + Len(p) = i /\ i \in 1 .. Len(a)
        BY <1>1, <1>2, <1>5, <2>2
      <3> HIDE DEF k
      <3>2. l[i] = q[k]
        BY <1>1, <1>3, <3>1
      <3>3. m[i] = q[k]
        BY <1>2, <1>4, <3>1
      <3> QED BY <3>2, <3>3
    <2>3. CASE i > Len(p) + Len(q)
      <3> DEFINE k == i - (Len(p) + Len(q))
                 h == k + Len(q)
      <3>1. /\ k \in 1 .. Len(r) /\ k + Len(a) = i
            /\ h \in 1 .. Len(b) /\ h = k + Len(q) /\ h + Len(p) = i
        BY <1>1, <1>2, <1>3, <1>5, <2>3
      <3> HIDE DEF k, h
      <3>2. l[i] = r[k]
        BY <1>3, <3>1
      <3>3. b[k + Len(q)] = r[k]
        BY <1>2, <3>1
      <3>4. m[i] = b[h]
        BY <1>4, <3>1
      <3> QED BY <3>1, <3>2, <3>3, <3>4
    <2> QED BY <1>5, <2>1, <2>2, <2>3
  <1>7. Len(l) = Len(m)
    BY <1>1, <1>2, <1>3, <1>4, <1>5
  <1>8. l = m
    BY <1>3, <1>4, <1>6, <1>7, SameList
  <1> QED BY <1>8 DEF JoinsTwice, l, m, a, b

LEMMA JoinNothing ==
    ASSUME NEW C, NEW p \in Seq(C)
    PROVE  p \o <<>> = p /\ <<>> \o p = p
  OBVIOUS

LEMMA JoinOneMore ==
    ASSUME NEW C, NEW p \in Seq(C), NEW r \in Seq(C), NEW x \in C
    PROVE  /\ Append(p \o r, x) = p \o Append(r, x) /\ Append(r, x) \in Seq(C)
           /\ Append(p, x) = p \o <<x>> /\ <<x>> \in Seq(C)
  <1>1. <<x>> \in Seq(C) /\ Append(r, x) = r \o <<x>> /\ p \o r \in Seq(C)
        /\ Append(p, x) = p \o <<x>>
    OBVIOUS
  <1>2. (p \o r) \o <<x>> = p \o (r \o <<x>>)
    <2>1. JoinsTwice(p, r, <<x>>)
      BY <1>1, JoinTwice
    <2> QED BY <2>1 DEF JoinsTwice
  <1>3. Append(p \o r, x) = (p \o r) \o <<x>>
    <2> DEFINE j == p \o r
    <2> HIDE DEF j
    <2>1. j \in Seq(C)
      BY <1>1 DEF j
    <2>2. Append(j, x) = j \o <<x>>
      BY <2>1
    <2> QED BY <2>2 DEF j
  <1> QED BY <1>1, <1>2, <1>3

AppendJoins(p, r, x) == Append(p \o r, x) = p \o Append(r, x)
LEMMA AppendJoint ==
    ASSUME NEW C, NEW p \in Seq(C), NEW r \in Seq(C), NEW x \in C
    PROVE  AppendJoins(p, r, x)
  BY JoinOneMore DEF AppendJoins

(* A cut in the second of two lists.                                       *)
LEMMA CutJoint ==
    ASSUME NEW C, NEW p \in Seq(C), NEW q \in Seq(C), NEW n \in 0 .. Len(q)
    PROVE  SubSeq(p \o q, 1, Len(p) + n) = p \o SubSeq(q, 1, n)
  <1> DEFINE j == p \o q
             s == SubSeq(q, 1, n)
             l == SubSeq(j, 1, Len(p) + n)
             r == p \o s
  <1>1. /\ j \in Seq(C) /\ Len(j) = Len(p) + Len(q)
        /\ \A i \in 1 .. Len(p) : j[i] = p[i]
        /\ \A i \in 1 .. Len(q) : j[i + Len(p)] = q[i]
    BY Joint
  <1>2. s \in Seq(C) /\ Len(s) = n /\ \A i \in 1 .. n : s[i] = q[i]
    BY CutAt
  <1> HIDE DEF s, j
  <1>3. /\ r \in Seq(C) /\ Len(r) = Len(p) + Len(s)
        /\ \A i \in 1 .. Len(p) : r[i] = p[i]
        /\ \A i \in 1 .. Len(s) : r[i + Len(p)] = s[i]
    <2>1. s \in Seq(C)
      BY <1>2
    <2> QED BY <2>1, Joint
  <1>4. Len(p) \in Nat /\ Len(q) \in Nat /\ n \in Nat /\ n <= Len(q)
    OBVIOUS
  <1>5. l \in Seq(C) /\ Len(l) = Len(p) + n /\ \A i \in 1 .. Len(p) + n : l[i] = j[i]
    <2>1. j \in Seq(C) /\ Len(p) + n \in 0 .. Len(j)
      BY <1>1, <1>4
    <2> QED BY <2>1, CutAt
  <1> HIDE DEF l, r
  <1>6. ASSUME NEW i \in 1 .. Len(p) + n PROVE l[i] = r[i]
    <2>1. CASE i \in 1 .. Len(p)
      BY <1>1, <1>3, <1>5, <2>1
    <2>2. CASE i \notin 1 .. Len(p)
      <3> DEFINE k == i - Len(p)
      <3>1. k \in 1 .. n /\ k \in 1 .. Len(q) /\ k + Len(p) = i
        BY <1>4, <2>2
      <3> HIDE DEF k
      <3>2. l[i] = q[k]
        BY <1>1, <1>5, <3>1
      <3>3. r[i] = s[k]
        BY <1>2, <1>3, <3>1
      <3> QED BY <1>2, <3>1, <3>2, <3>3
    <2> QED BY <2>1, <2>2
  <1>7. Len(l) = Len(r) /\ \A i \in 1 .. Len(l) : l[i] = r[i]
    BY <1>2, <1>3, <1>4, <1>5, <1>6
  <1>8. l = r
    BY <1>3, <1>5, <1>7, SameList
  <1> QED BY <1>8 DEF l, r, j, s

(* The head and the tail of two lists.                                     *)
HeadJoins(p, q) ==
    p \o q # <<>> /\ Head(p \o q) = Head(p) /\ Tail(p \o q) = Tail(p) \o q
LEMMA HeadOfJoint ==
    ASSUME NEW C, NEW p \in Seq(C), NEW q \in Seq(C), p # <<>>
    PROVE  HeadJoins(p, q) /\ Tail(p) \in Seq(C) /\ Head(p) \in C
  <1> DEFINE x == Head(p)
             t == Tail(p)
             j == t \o q
  <1>1. x \in C /\ t \in Seq(C) /\ p = <<x>> \o t /\ <<x>> \in Seq(C)
    OBVIOUS
  <1> HIDE DEF x, t
  <1>2. (<<x>> \o t) \o q = <<x>> \o j
    <2>1. JoinsTwice(<<x>>, t, q)
      BY <1>1, JoinTwice
    <2> QED BY <2>1 DEF JoinsTwice, j
  <1>3. j \in Seq(C)
    BY <1>1
  <1> HIDE DEF j
  <1>4. <<x>> \o j # <<>> /\ Head(<<x>> \o j) = x /\ Tail(<<x>> \o j) = j
    BY <1>1, <1>3
  <1>5. p \o q = <<x>> \o j
    BY <1>1, <1>2
  <1> QED BY <1>1, <1>4, <1>5 DEF HeadJoins, x, t, j

-----------------------------------------------------------------------------
(* Selected and Joined, step by step.                                      *)

SelectedUpTo(f, list, S) ==
    f[0] = <<>> /\ \A n \in 1 .. Len(list) : f[n] = Extended(f[n - 1], list[n], S)

LEMMA SelectedSteps ==
    ASSUME NEW A, NEW list \in Seq(A), NEW S
    PROVE  \E f \in [0 .. Len(list) -> Seq(A)] :
             SelectedUpTo(f, list, S) /\ Selected(list, S) = f[Len(list)]
  <1> DEFINE N == Len(list)
             step == [n \in 1 .. N |-> [x \in Seq(A) |-> Extended(x, list[n], S)]]
             Body(f) == [n \in 0 .. N |->
                           IF n = 0 THEN <<>> ELSE Extended(f[n - 1], list[n], S)]
  <1>1. N \in Nat /\ <<>> \in Seq(A)
    OBVIOUS
  <1>2. step \in [1 .. N -> [Seq(A) -> Seq(A)]]
    BY DEF Extended
  <1>3. PICK f \in [0 .. N -> Seq(A)] :
           f[0] = <<>> /\ \A n \in 1 .. N : f[n] = step[n][f[n - 1]]
    <2> DEFINE B == Seq(A)
               none == <<>>
    <2>1. none \in B /\ step \in [1 .. N -> [B -> B]]
      BY <1>1, <1>2
    <2> HIDE DEF N, step, Body, B, none
    <2>2. \E f \in [0 .. N -> B] : Steps(f, N, none, step)
      BY <1>1, <2>1, RecursionUpTo
    <2> QED BY <2>2 DEF B, none, Steps
  <1>4. \A n \in 1 .. N :
          f[n] = Extended(f[n - 1], list[n], S)
    <2> HIDE DEF Body
    <2> SUFFICES ASSUME NEW n \in 1 .. N
                 PROVE  f[n] = Extended(f[n - 1], list[n], S)
      OBVIOUS
    <2>1. f[n - 1] \in Seq(A)
      OBVIOUS
    <2> QED BY <1>3, <2>1
  <1>5. f = Body(f)
    <2> HIDE DEF step
    <2>1. DOMAIN Body(f) = 0 .. N /\ DOMAIN f = 0 .. N
      OBVIOUS
    <2>2. ASSUME NEW n \in 0 .. N PROVE f[n] = Body(f)[n]
      <3>1. CASE n = 0
        BY <1>3, <3>1
      <3>2. CASE n # 0
        <4>1. n \in 1 .. N
          BY <3>2
        <4> QED BY <1>4, <3>2, <4>1
      <3> QED BY <3>1, <3>2
    <2> QED
      <3>1. Body(f) = [n \in 0 .. N |-> Body(f)[n]]
        OBVIOUS
      <3>2. f = [n \in 0 .. N |-> f[n]]
        OBVIOUS
      <3> HIDE DEF Body, N
      <3> QED BY <2>2, <3>1, <3>2
  <1>6. PICK g : g = Body(g) /\ Selected(list, S) = g[N]
    <2> HIDE DEF Body
    <2>1. (CHOOSE g : g = Body(g)) = Body(CHOOSE g : g = Body(g))
      BY <1>5
    <2> QED BY <2>1 DEF Selected, Body
  <1>7. g = [n \in 0 .. N |-> g[n]]
    <2> HIDE DEF step
    <2>1. Body(g) = [n \in 0 .. N |-> Body(g)[n]]
      OBVIOUS
    <2> HIDE DEF Body
    <2> QED BY <1>6, <2>1
  <1>8. /\ g[0] = <<>>
        /\ \A n \in 1 .. N :
             g[n] = Extended(g[n - 1], list[n], S)
    <2> HIDE DEF step
    <2>1. \A n \in 0 .. N : Body(g)[n] = IF n = 0 THEN <<>> ELSE Extended(g[n - 1], list[n], S)
      OBVIOUS
    <2> HIDE DEF Body
    <2>2. \A n \in 0 .. N : g[n] = IF n = 0 THEN <<>> ELSE Extended(g[n - 1], list[n], S)
      BY <1>6, <2>1
    <2> HIDE DEF N
    <2>3. 0 \in 0 .. N /\ \A n \in 1 .. N : n \in 0 .. N /\ n # 0
      BY <1>1
    <2> QED BY <2>2, <2>3
  <1>9. \A n \in 0 .. N : g[n] \in Seq(A)
    <2> DEFINE T == {n \in 0 .. N : g[n] \in Seq(A)}
    <2> HIDE DEF Body, step
    <2>1. 0 \in T
      <3>1. g[0] \in Seq(A)
        BY <1>1, <1>8
      <3>2. 0 \in 0 .. N
        BY <1>1
      <3> HIDE DEF N
      <3> QED BY <3>1, <3>2
    <2>2. ASSUME NEW n \in 1 .. N, n - 1 \in T PROVE n \in T
      <3>1. list[n] \in A /\ g[n - 1] \in Seq(A) /\ n \in 0 .. N
        BY <2>2
      <3>2. g[n] = Extended(g[n - 1], list[n], S)
        BY <1>8
      <3>3. g[n] \in Seq(A)
        BY <3>1, <3>2 DEF Extended
      <3> HIDE DEF N
      <3> QED BY <3>1, <3>3
    <2> HIDE DEF T
    <2>3. \A n \in 1 .. N : n - 1 \in T => n \in T
      BY <2>2
    <2>4. \A n \in 0 .. N : n \in T
      BY <1>1, <2>1, <2>3, CountingUp
    <2> QED BY <2>4 DEF T
  <1>10. g \in [0 .. N -> Seq(A)]
    <2> HIDE DEF Body, step
    <2> QED BY <1>7, <1>9
  <1> QED
    <2> HIDE DEF Body, step
    <2> QED BY <1>6, <1>8, <1>10 DEF SelectedUpTo

LEMMA JoinedSteps ==
    ASSUME NEW A, NEW lists \in Seq(Seq(A))
    PROVE  \E f \in [0 .. Len(lists) -> Seq(A)] :
             /\ f[0] = <<>>
             /\ \A n \in 1 .. Len(lists) : f[n] = f[n - 1] \o lists[n]
             /\ Joined(lists) = f[Len(lists)]
  <1> DEFINE N == Len(lists)
             step == [n \in 1 .. N |-> [x \in Seq(A) |-> x \o lists[n]]]
             Body(f) == [n \in 0 .. N |-> IF n = 0 THEN <<>> ELSE f[n - 1] \o lists[n]]
  <1>1. N \in Nat /\ <<>> \in Seq(A)
    OBVIOUS
  <1>2. step \in [1 .. N -> [Seq(A) -> Seq(A)]]
    OBVIOUS
  <1>3. PICK f \in [0 .. N -> Seq(A)] :
           f[0] = <<>> /\ \A n \in 1 .. N : f[n] = step[n][f[n - 1]]
    <2> DEFINE B == Seq(A)
               none == <<>>
    <2>1. none \in B /\ step \in [1 .. N -> [B -> B]]
      BY <1>1, <1>2
    <2> HIDE DEF N, step, Body, B, none
    <2>2. \E f \in [0 .. N -> B] : Steps(f, N, none, step)
      BY <1>1, <2>1, RecursionUpTo
    <2> QED BY <2>2 DEF B, none, Steps
  <1>4. \A n \in 1 .. N : f[n] = f[n - 1] \o lists[n]
    <2> HIDE DEF Body
    <2> SUFFICES ASSUME NEW n \in 1 .. N
                 PROVE  f[n] = f[n - 1] \o lists[n]
      OBVIOUS
    <2>1. f[n - 1] \in Seq(A)
      OBVIOUS
    <2> QED BY <1>3, <2>1
  <1>5. f = Body(f)
    <2> HIDE DEF step
    <2>1. DOMAIN Body(f) = 0 .. N /\ DOMAIN f = 0 .. N
      OBVIOUS
    <2>2. ASSUME NEW n \in 0 .. N PROVE f[n] = Body(f)[n]
      <3>1. CASE n = 0
        BY <1>3, <3>1
      <3>2. CASE n # 0
        <4>1. n \in 1 .. N
          BY <3>2
        <4> QED BY <1>4, <3>2, <4>1
      <3> QED BY <3>1, <3>2
    <2> QED
      <3>1. Body(f) = [n \in 0 .. N |-> Body(f)[n]]
        OBVIOUS
      <3>2. f = [n \in 0 .. N |-> f[n]]
        OBVIOUS
      <3> HIDE DEF Body, N
      <3> QED BY <2>2, <3>1, <3>2
  <1>6. PICK g : g = Body(g) /\ Joined(lists) = g[N]
    <2> HIDE DEF Body
    <2>1. (CHOOSE g : g = Body(g)) = Body(CHOOSE g : g = Body(g))
      BY <1>5
    <2> QED BY <2>1 DEF Joined, Body
  <1>7. g = [n \in 0 .. N |-> g[n]]
    <2> HIDE DEF step
    <2>1. Body(g) = [n \in 0 .. N |-> Body(g)[n]]
      OBVIOUS
    <2> HIDE DEF Body
    <2> QED BY <1>6, <2>1
  <1>8. /\ g[0] = <<>>
        /\ \A n \in 1 .. N : g[n] = g[n - 1] \o lists[n]
    <2> HIDE DEF step
    <2>1. \A n \in 0 .. N : Body(g)[n] = IF n = 0 THEN <<>> ELSE g[n - 1] \o lists[n]
      OBVIOUS
    <2> HIDE DEF Body
    <2>2. \A n \in 0 .. N : g[n] = IF n = 0 THEN <<>> ELSE g[n - 1] \o lists[n]
      BY <1>6, <2>1
    <2> HIDE DEF N
    <2>3. 0 \in 0 .. N /\ \A n \in 1 .. N : n \in 0 .. N /\ n # 0
      BY <1>1
    <2> QED BY <2>2, <2>3
  <1>9. \A n \in 0 .. N : g[n] \in Seq(A)
    <2> DEFINE T == {n \in 0 .. N : g[n] \in Seq(A)}
    <2> HIDE DEF Body, step
    <2>1. 0 \in T
      <3>1. g[0] \in Seq(A)
        BY <1>1, <1>8
      <3>2. 0 \in 0 .. N
        BY <1>1
      <3> HIDE DEF N
      <3> QED BY <3>1, <3>2
    <2>2. ASSUME NEW n \in 1 .. N, n - 1 \in T PROVE n \in T
      <3>1. lists[n] \in Seq(A) /\ g[n - 1] \in Seq(A) /\ n \in 0 .. N
        BY <2>2
      <3>2. g[n] = g[n - 1] \o lists[n]
        BY <1>8
      <3>3. g[n] \in Seq(A)
        BY <3>1, <3>2
      <3> HIDE DEF N
      <3> QED BY <3>1, <3>3
    <2> HIDE DEF T
    <2>3. \A n \in 1 .. N : n - 1 \in T => n \in T
      BY <2>2
    <2>4. \A n \in 0 .. N : n \in T
      BY <1>1, <2>1, <2>3, CountingUp
    <2> QED BY <2>4 DEF T
  <1>10. g \in [0 .. N -> Seq(A)]
    <2> HIDE DEF Body, step
    <2> QED BY <1>7, <1>9
  <1> QED
    <2> HIDE DEF Body, step
    <2> QED BY <1>6, <1>8, <1>10

-----------------------------------------------------------------------------
(* What Joined computes.                                                   *)

LEMMA JoinedType ==
    ASSUME NEW A, NEW lists \in Seq(Seq(A))
    PROVE  Joined(lists) \in Seq(A)
  <1>1. PICK f \in [0 .. Len(lists) -> Seq(A)] : Joined(lists) = f[Len(lists)]
    BY JoinedSteps
  <1>2. Len(lists) \in 0 .. Len(lists)
    OBVIOUS
  <1> QED BY <1>1, <1>2

LEMMA JoinedNone ==
    Joined(<<>>) = <<>>
  <1>1. <<>> \in Seq(Seq({})) /\ Len(<<>>) = 0
    OBVIOUS
  <1>2. PICK f \in [0 .. Len(<<>>) -> Seq({})] :
          f[0] = <<>> /\ Joined(<<>>) = f[Len(<<>>)]
    BY <1>1, JoinedSteps
  <1> QED BY <1>1, <1>2

LEMMA JoinedAppend ==
    ASSUME NEW A, NEW lists \in Seq(Seq(A)), NEW last \in Seq(A)
    PROVE  Joined(Append(lists, last)) = Joined(lists) \o last
  <1> DEFINE N == Len(lists)
             more == Append(lists, last)
  <1>1. /\ N \in Nat /\ Len(more) = N + 1 /\ more \in Seq(Seq(A))
        /\ more[N + 1] = last
        /\ \A n \in 1 .. N : more[n] = lists[n]
    OBVIOUS
  <1>2. PICK f \in [0 .. N -> Seq(A)] :
          /\ f[0] = <<>>
          /\ \A n \in 1 .. N : f[n] = f[n - 1] \o lists[n]
          /\ Joined(lists) = f[N]
    BY JoinedSteps
  <1> HIDE DEF more
  <1>3. PICK g \in [0 .. Len(more) -> Seq(A)] :
          /\ g[0] = <<>>
          /\ \A n \in 1 .. Len(more) : g[n] = g[n - 1] \o more[n]
          /\ Joined(more) = g[Len(more)]
    BY <1>1, JoinedSteps
  <1> DEFINE T == {n \in 0 .. N : g[n] = f[n]}
  <1> HIDE DEF N
  <1>4. 0 \in T
    BY <1>1, <1>2, <1>3
  <1>5. ASSUME NEW n \in 1 .. N, n - 1 \in T PROVE n \in T
    <2>1. n \in 0 .. N /\ n \in 1 .. Len(more)
      BY <1>1
    <2>2. g[n] = g[n - 1] \o more[n] /\ f[n] = f[n - 1] \o lists[n]
      BY <1>2, <1>3, <2>1
    <2>3. more[n] = lists[n]
      BY <1>1
    <2>4. g[n - 1] = f[n - 1]
      BY <1>5
    <2> QED BY <2>1, <2>2, <2>3, <2>4
  <1>6. g[N] = f[N]
    <2>1. \A n \in 1 .. N : n - 1 \in T => n \in T
      BY <1>5
    <2> HIDE DEF T
    <2>2. \A n \in 0 .. N : n \in T
      BY <1>1, <1>4, <2>1, CountingUp
    <2>3. N \in 0 .. N
      BY <1>1
    <2> QED BY <2>2, <2>3 DEF T
  <1>7. g[N + 1] = g[N] \o last
    <2>1. N + 1 \in 1 .. Len(more) /\ (N + 1) - 1 = N
      BY <1>1
    <2>2. g[N + 1] = g[(N + 1) - 1] \o more[N + 1]
      BY <1>3, <2>1
    <2> QED BY <1>1, <2>1, <2>2
  <1> QED BY <1>1, <1>2, <1>3, <1>6, <1>7 DEF more

Members(s) == {s[i] : i \in DOMAIN s}

(* What is in the joined list is what is in the lists.                     *)
LEMMA JoinedItems ==
    ASSUME NEW A, NEW lists \in Seq(Seq(A))
    PROVE  Members(Joined(lists)) = UNION {Members(lists[n]) : n \in DOMAIN lists}
  <1> DEFINE N == Len(lists)
  <1>1. N \in Nat /\ DOMAIN lists = 1 .. N
    OBVIOUS
  <1>2. PICK f \in [0 .. N -> Seq(A)] :
          /\ f[0] = <<>>
          /\ \A n \in 1 .. N : f[n] = f[n - 1] \o lists[n]
          /\ Joined(lists) = f[N]
    BY JoinedSteps
  <1>3. \A s \in Seq(A), t \in Seq(A) : Members(s \o t) = Members(s) \cup Members(t)
    <2> SUFFICES ASSUME NEW s \in Seq(A), NEW t \in Seq(A)
                 PROVE  Members(s \o t) = Members(s) \cup Members(t)
      OBVIOUS
    <2> USE DEF Members
    <2>1. ASSUME NEW x \in Members(s \o t) PROVE x \in Members(s) \cup Members(t)
      <3>1. PICK i \in 1 .. Len(s) + Len(t) : x = (s \o t)[i]
        OBVIOUS
      <3>2. CASE i <= Len(s)
        <4>1. i \in DOMAIN s /\ x = s[i]
          BY <3>1, <3>2
        <4> QED BY <4>1
      <3>3. CASE i > Len(s)
        <4>1. i - Len(s) \in DOMAIN t /\ x = t[i - Len(s)]
          BY <3>1, <3>3
        <4> QED BY <4>1
      <3> QED BY <3>2, <3>3
    <2>2. ASSUME NEW x \in Members(s) PROVE x \in Members(s \o t)
      <3>1. PICK i \in DOMAIN s : x = s[i]
        OBVIOUS
      <3>2. i \in DOMAIN (s \o t) /\ x = (s \o t)[i]
        BY <3>1
      <3> QED BY <3>2
    <2>3. ASSUME NEW x \in Members(t) PROVE x \in Members(s \o t)
      <3>1. PICK i \in DOMAIN t : x = t[i]
        OBVIOUS
      <3>2. i + Len(s) \in DOMAIN (s \o t) /\ x = (s \o t)[i + Len(s)]
        BY <3>1
      <3> QED BY <3>2
    <2> QED BY <2>1, <2>2, <2>3
  <1>4. Members(<<>>) = {}
    BY DEF Members
  <1> HIDE DEF N
  <1> DEFINE T == {n \in 0 .. N : Members(f[n]) = UNION {Members(lists[m]) : m \in 1 .. n}}
  <1>5. 0 \in T
    <2>1. 0 \in 0 .. N /\ 1 .. 0 = {}
      BY <1>1
    <2> QED BY <1>2, <1>4, <2>1
  <1>6. ASSUME NEW n \in 1 .. N, n - 1 \in T PROVE n \in T
    <2>1. n \in 0 .. N /\ n - 1 \in 0 .. N /\ 1 .. n = (1 .. (n - 1)) \cup {n}
      BY <1>1
    <2>2. lists[n] \in Seq(A) /\ f[n - 1] \in Seq(A)
      BY <1>1, <2>1
    <2>3. Members(f[n]) = Members(f[n - 1]) \cup Members(lists[n])
      BY <1>2, <1>3, <2>2
    <2>4. Members(f[n - 1]) = UNION {Members(lists[m]) : m \in 1 .. (n - 1)}
      BY <1>6
    <2>5. Members(f[n]) = UNION {Members(lists[m]) : m \in 1 .. n}
      BY <2>1, <2>3, <2>4
    <2> QED BY <2>1, <2>5
  <1>7. N \in T
    <2>1. \A n \in 1 .. N : n - 1 \in T => n \in T
      BY <1>6
    <2> HIDE DEF T
    <2>2. \A n \in 0 .. N : n \in T
      BY <1>1, <1>5, <2>1, CountingUp
    <2>3. N \in 0 .. N
      BY <1>1
    <2> QED BY <2>2, <2>3
  <1> QED BY <1>1, <1>2, <1>7

-----------------------------------------------------------------------------
(* What Selected computes.                                                 *)

(* part[i] is list[k[i]], and every item of S up to n has its place.       *)
Places(k, part, list, n, S) ==
    /\ k \in [DOMAIN part -> 1 .. n]
    /\ \A i, j \in DOMAIN part : k[i] = k[j] => i = j
    /\ \A i \in DOMAIN part : part[i] = list[k[i]] /\ part[i] \in S
    /\ \A m \in 1 .. n : list[m] \in S => \E i \in DOMAIN part : k[i] = m

LEMMA PlacesOneMore ==
    ASSUME NEW A, NEW list \in Seq(A), NEW S, NEW n \in 1 .. Len(list),
           NEW part \in Seq(A), NEW k, Places(k, part, list, n - 1, S)
    PROVE  \E h : Places(h, Extended(part, list[n], S), list, n, S)
  <1>1. CASE list[n] \notin S
    <2>1. k \in [DOMAIN part -> 1 .. n]
      BY DEF Places
    <2>2. ASSUME NEW m \in 1 .. n, list[m] \in S PROVE \E i \in DOMAIN part : k[i] = m
      <3>1. m \in 1 .. n - 1
        BY <1>1, <2>2
      <3> QED BY <2>2, <3>1 DEF Places
    <2>3. Places(k, part, list, n, S)
      BY <2>1, <2>2 DEF Places
    <2> QED BY <1>1, <2>3 DEF Extended
  <1>2. CASE list[n] \in S
    <2> DEFINE L == Len(part) + 1
               more == Append(part, list[n])
               h == [i \in 1 .. L |-> IF i = L THEN n ELSE k[i]]
    <2>1. /\ DOMAIN more = 1 .. L /\ DOMAIN part = 1 .. L - 1 /\ L \in Nat \ {0}
          /\ more[L] = list[n]
          /\ \A i \in 1 .. L - 1 : more[i] = part[i]
      OBVIOUS
    <2>2. k \in [1 .. L - 1 -> 1 .. n - 1]
      BY <2>1 DEF Places
    <2> HIDE DEF L, more
    <2>3. h \in [1 .. L -> 1 .. n]
      BY <2>1, <2>2
    <2>4. h[L] = n /\ \A i \in 1 .. L - 1 : h[i] = k[i] /\ h[i] # n
      BY <2>1, <2>2
    <2>5. \A i \in 1 .. L : i = L \/ i \in 1 .. L - 1
      BY <2>1
    <2> HIDE DEF h
    <2>6. ASSUME NEW i \in 1 .. L, NEW j \in 1 .. L, h[i] = h[j] PROVE i = j
      <3>1. k[i] = k[j] /\ i \in 1 .. L - 1 /\ j \in 1 .. L - 1 => i = j
        BY <2>1 DEF Places
      <3> QED BY <2>4, <2>5, <2>6, <3>1
    <2>7. ASSUME NEW i \in 1 .. L PROVE more[i] = list[h[i]] /\ more[i] \in S
      BY <1>2, <2>1, <2>4, <2>5 DEF Places
    <2>8. ASSUME NEW m \in 1 .. n, list[m] \in S PROVE \E i \in 1 .. L : h[i] = m
      <3>1. CASE m = n
        BY <2>1, <2>4, <3>1
      <3>2. CASE m # n
        <4>1. m \in 1 .. n - 1
          BY <3>2
        <4>2. PICK i \in 1 .. L - 1 : k[i] = m
          BY <2>1, <2>8, <4>1 DEF Places
        <4>3. i \in 1 .. L
          BY <2>1
        <4> QED BY <2>4, <4>2, <4>3
      <3> QED BY <3>1, <3>2
    <2>9. Places(h, more, list, n, S)
      BY <2>1, <2>3, <2>6, <2>7, <2>8 DEF Places
    <2> QED BY <1>2, <2>9 DEF more, Extended
  <1> QED BY <1>1, <1>2

LEMMA SelectedPlaces ==
    ASSUME NEW A, NEW list \in Seq(A), NEW S
    PROVE  /\ Selected(list, S) \in Seq(A)
           /\ \E k : Places(k, Selected(list, S), list, Len(list), S)
  <1> DEFINE N == Len(list)
  <1>1. PICK f \in [0 .. N -> Seq(A)] : SelectedUpTo(f, list, S) /\ Selected(list, S) = f[N]
    BY SelectedSteps
  <1>2. /\ f[0] = <<>>
        /\ \A n \in 1 .. N : f[n] = Extended(f[n - 1], list[n], S)
        /\ Selected(list, S) = f[N]
    BY <1>1 DEF SelectedUpTo
  <1> DEFINE T == {n \in 0 .. N : \E k : Places(k, f[n], list, n, S)}
  <1>3. N \in Nat /\ N \in 0 .. N
    OBVIOUS
  <1>4. 0 \in T
    <2>1. Places([i \in {} |-> 0], <<>>, list, 0, S)
      BY DEF Places
    <2>2. 0 \in 0 .. N
      BY <1>3
    <2> QED BY <1>2, <2>1, <2>2
  <1>5. ASSUME NEW n \in 1 .. N, n - 1 \in T PROVE n \in T
    <2>1. PICK k : Places(k, f[n - 1], list, n - 1, S)
      BY <1>5
    <2>2. f[n - 1] \in Seq(A) /\ n \in 0 .. N
      OBVIOUS
    <2>3. \E h : Places(h, Extended(f[n - 1], list[n], S), list, n, S)
      BY <2>1, <2>2, PlacesOneMore
    <2> QED BY <1>2, <2>2, <2>3
  <1>6. \A n \in 1 .. N : n - 1 \in T => n \in T
    BY <1>5
  <1>7. N \in T
    <2> HIDE DEF T, N
    <2>1. \A n \in 0 .. N : n \in T
      BY <1>3, <1>4, <1>6, CountingUp
    <2> QED BY <1>3, <2>1
  <1> QED BY <1>2, <1>3, <1>7

LEMMA SelectedItems ==
    ASSUME NEW A, NEW list \in Seq(A), NEW S
    PROVE  Members(Selected(list, S)) = Members(list) \cap S
  <1> DEFINE part == Selected(list, S)
  <1>1. PICK k : Places(k, part, list, Len(list), S)
    BY SelectedPlaces
  <1>2. DOMAIN list = 1 .. Len(list)
    OBVIOUS
  <1> HIDE DEF part
  <1>3. ASSUME NEW i \in DOMAIN part PROVE part[i] \in {list[j] : j \in DOMAIN list} \cap S
    BY <1>1, <1>2 DEF Places
  <1>4. ASSUME NEW j \in DOMAIN list, list[j] \in S PROVE \E i \in DOMAIN part : part[i] = list[j]
    BY <1>1, <1>2, <1>4 DEF Places
  <1> QED BY <1>3, <1>4 DEF part, Members

(* What is selected from two lists is selected from each.                  *)
ExtendsJoint(p, q, x, S) == Extended(p \o q, x, S) = p \o Extended(q, x, S)
LEMMA ExtendedJoint ==
    ASSUME NEW A, NEW p \in Seq(A), NEW q \in Seq(A), NEW x \in A, NEW S
    PROVE  ExtendsJoint(p, q, x, S)
  <1>1. Append(p \o q, x) = p \o Append(q, x)
    BY JoinOneMore
  <1> QED BY <1>1 DEF Extended, ExtendsJoint

LEMMA SelectedJoint ==
    ASSUME NEW A, NEW a \in Seq(A), NEW b \in Seq(A), NEW S
    PROVE  Selected(a \o b, S) = Selected(a, S) \o Selected(b, S)
  <1> DEFINE j == a \o b
             La == Len(a)
             Lb == Len(b)
  <1>1. /\ j \in Seq(A) /\ La \in Nat /\ Lb \in Nat /\ Len(j) = La + Lb
        /\ \A n \in 1 .. La : j[n] = a[n] /\ n \in 1 .. La + Lb
        /\ \A n \in 1 .. Lb : j[n + La] = b[n]
    BY Joint
  <1> HIDE DEF j
  <1>2. PICK f \in [0 .. La -> Seq(A)] : SelectedUpTo(f, a, S) /\ Selected(a, S) = f[La]
    BY SelectedSteps
  <1>3. PICK g \in [0 .. Lb -> Seq(A)] : SelectedUpTo(g, b, S) /\ Selected(b, S) = g[Lb]
    BY SelectedSteps
  <1>4. PICK h \in [0 .. Len(j) -> Seq(A)] : SelectedUpTo(h, j, S) /\ Selected(j, S) = h[Len(j)]
    <2>1. j \in Seq(A)
      BY <1>1
    <2> QED BY <2>1, SelectedSteps
  <1>5. /\ f[0] = <<>> /\ g[0] = <<>> /\ h[0] = <<>>
        /\ \A n \in 1 .. La : f[n] = Extended(f[n - 1], a[n], S)
        /\ \A n \in 1 .. Lb : g[n] = Extended(g[n - 1], b[n], S)
        /\ \A n \in 1 .. La + Lb : h[n] = Extended(h[n - 1], j[n], S)
    BY <1>1, <1>2, <1>3, <1>4 DEF SelectedUpTo
  <1> HIDE DEF La, Lb
  <1> DEFINE T == {n \in 0 .. La : h[n] = f[n]}
             R == {n \in 0 .. Lb : h[La + n] = f[La] \o g[n]}
  <1>6. \A n \in 0 .. La : n \in T
    <2>1. 0 \in T
      BY <1>1, <1>5
    <2>2. ASSUME NEW n \in 1 .. La, n - 1 \in T PROVE n \in T
      <3>1. n \in 0 .. La /\ n \in 1 .. La + Lb /\ j[n] = a[n] /\ h[n - 1] = f[n - 1]
        BY <1>1, <2>2
      <3>2. h[n] = Extended(h[n - 1], j[n], S) /\ f[n] = Extended(f[n - 1], a[n], S)
        BY <1>5, <3>1
      <3> QED BY <3>1, <3>2
    <2> HIDE DEF T
    <2>3. \A n \in 1 .. La : n - 1 \in T => n \in T
      BY <2>2
    <2> QED BY <1>1, <2>1, <2>3, CountingUp
  <1>7. f[La] \in Seq(A) /\ g[Lb] \in Seq(A) /\ h[La] = f[La]
    <2>1. La \in 0 .. La /\ Lb \in 0 .. Lb
      BY <1>1
    <2>2. La \in T
      BY <1>6, <2>1
    <2> QED BY <1>2, <1>3, <2>1, <2>2
  <1>8. \A n \in 0 .. Lb : n \in R
    <2>1. 0 \in R
      <3>1. f[La] \o <<>> = f[La] /\ La + 0 = La /\ 0 \in 0 .. Lb
        BY <1>1, <1>7
      <3> QED BY <1>5, <1>7, <3>1
    <2>2. ASSUME NEW n \in 1 .. Lb, n - 1 \in R PROVE n \in R
      <3> DEFINE x == b[n]
                 p == f[La]
                 q == g[n - 1]
      <3>1. /\ n \in 0 .. Lb /\ n + La \in 1 .. La + Lb /\ (n + La) - 1 = La + (n - 1)
            /\ n + La = La + n /\ n - 1 \in 0 .. Lb
        BY <1>1
      <3>2. j[n + La] = x /\ x \in A
        BY <1>1 DEF Lb
      <3>3. h[La + (n - 1)] = p \o q /\ p \in Seq(A) /\ q \in Seq(A)
        BY <1>3, <1>7, <2>2, <3>1
      <3>4. h[n + La] = Extended(h[(n + La) - 1], j[n + La], S) /\ g[n] = Extended(q, x, S)
        BY <1>5, <3>1
      <3> HIDE DEF x, p, q
      <3>5. h[n + La] = Extended(p \o q, x, S)
        BY <3>1, <3>2, <3>3, <3>4
      <3>6. Extended(p \o q, x, S) = p \o Extended(q, x, S)
        <4>1. ExtendsJoint(p, q, x, S)
          BY <3>2, <3>3, ExtendedJoint
        <4> QED BY <4>1 DEF ExtendsJoint
      <3>7. h[n + La] = p \o g[n]
        BY <3>4, <3>5, <3>6
      <3> QED BY <3>1, <3>7 DEF p
    <2> HIDE DEF R
    <2>3. \A n \in 1 .. Lb : n - 1 \in R => n \in R
      BY <2>2
    <2> QED BY <1>1, <2>1, <2>3, CountingUp
  <1>9. h[La + Lb] = f[La] \o g[Lb]
    <2>1. Lb \in 0 .. Lb
      BY <1>1
    <2> QED BY <1>8, <2>1
  <1> QED BY <1>1, <1>2, <1>3, <1>4, <1>7, <1>9 DEF j

LEMMA SelectedOne ==
    ASSUME NEW A, NEW x \in A, NEW S
    PROVE  /\ Selected(<<x>>, S) = IF x \in S THEN <<x>> ELSE <<>>
           /\ Selected(<<>>, S) = <<>>
  <1>1. PICK f \in [0 .. Len(<<x>>) -> Seq(A)] :
          SelectedUpTo(f, <<x>>, S) /\ Selected(<<x>>, S) = f[Len(<<x>>)]
    <2>1. <<x>> \in Seq(A)
      OBVIOUS
    <2> QED BY <2>1, SelectedSteps
  <1>2. Len(<<x>>) = 1 /\ <<x>>[1] = x /\ 1 \in 1 .. 1 /\ 1 - 1 = 0 /\ Append(<<>>, x) = <<x>>
    OBVIOUS
  <1>3. f[0] = <<>> /\ f[1] = Extended(f[0], x, S)
    BY <1>1, <1>2 DEF SelectedUpTo
  <1>4. PICK g \in [0 .. Len(<<>>) -> Seq(A)] :
          SelectedUpTo(g, <<>>, S) /\ Selected(<<>>, S) = g[Len(<<>>)]
    <2>1. <<>> \in Seq(A)
      OBVIOUS
    <2> QED BY <2>1, SelectedSteps
  <1>5. Len(<<>>) = 0 /\ g[0] = <<>>
    BY <1>4 DEF SelectedUpTo
  <1> QED BY <1>1, <1>2, <1>3, <1>4, <1>5 DEF Extended

(* Nothing is left out of a list that has nothing else in it.              *)
LEMMA SelectedAll ==
    ASSUME NEW A, NEW list \in Seq(A), NEW S, \A n \in DOMAIN list : list[n] \in S
    PROVE  Selected(list, S) = list
  <1> DEFINE k == Len(list)
  <1>1. PICK f \in [0 .. k -> Seq(A)] : SelectedUpTo(f, list, S) /\ Selected(list, S) = f[k]
    BY SelectedSteps
  <1>2. f[0] = <<>> /\ \A n \in 1 .. k : f[n] = Extended(f[n - 1], list[n], S)
    BY <1>1 DEF SelectedUpTo
  <1>3. k \in Nat /\ DOMAIN list = 1 .. k /\ \A n \in 1 .. k : list[n] \in A
    OBVIOUS
  <1>4. SubSeq(list, 1, 0) = <<>> /\ SubSeq(list, 1, k) = list
    OBVIOUS
  <1>5. \A n \in 1 .. k : SubSeq(list, 1, n) = Append(SubSeq(list, 1, n - 1), list[n])
    OBVIOUS
  <1> HIDE DEF k
  <1> DEFINE T == {n \in 0 .. k : f[n] = SubSeq(list, 1, n)}
  <1>6. 0 \in T
    BY <1>2, <1>3, <1>4
  <1>7. ASSUME NEW n \in 1 .. k, n - 1 \in T PROVE n \in T
    <2>1. n \in 0 .. k /\ f[n - 1] = SubSeq(list, 1, n - 1)
      BY <1>3, <1>7
    <2>2. list[n] \in S
      BY <1>3
    <2>3. f[n] = Append(f[n - 1], list[n])
      BY <1>2, <2>2 DEF Extended
    <2>4. f[n] = SubSeq(list, 1, n)
      BY <1>5, <2>1, <2>3
    <2> QED BY <2>1, <2>4
  <1> HIDE DEF T
  <1>8. \A n \in 1 .. k : n - 1 \in T => n \in T
    BY <1>7
  <1>9. k \in T
    <2>1. k \in 0 .. k
      BY <1>3
    <2> QED BY <1>3, <1>6, <1>8, <2>1, CountingUp
  <1>10. f[k] = SubSeq(list, 1, k)
    BY <1>9 DEF T
  <1> QED BY <1>1, <1>4, <1>10 DEF k
=============================================================================
