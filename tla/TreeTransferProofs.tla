-------------------------- MODULE TreeTransferProofs --------------------------
(***************************************************************************)
(* What is uploaded comes back: directories of any depth and shape, in     *)
(* which equal subdirectories have one digest, by levels or by their Tree, *)
(* whatever the CAS drops meanwhile.                                       *)
(***************************************************************************)
EXTENDS TreeTransfer, ListProofs

-----------------------------------------------------------------------------
(* Paths.                                                                  *)

LEMMA AppendedPath ==
    ASSUME NEW p \in Seq(Names), NEW n \in Names
    PROVE  LET q == Append(p, n) IN
           /\ q \in Seq(Names) /\ q # <<>>
           /\ Parent(q) = p /\ Name(q) = n /\ Len(q) = Len(p) + 1
  <1> DEFINE q == Append(p, n)
  <1>1. q \in Seq(Names) /\ Len(q) = Len(p) + 1 /\ Len(p) \in Nat
    OBVIOUS
  <1>2. q[Len(p) + 1] = n /\ \A i \in 1 .. Len(p) : q[i] = p[i]
    OBVIOUS
  <1>3. q # <<>>
    BY <1>1
  <1>4. SubSeq(q, 1, Len(p)) = p
    BY <1>1, <1>2
  <1>5. Len(q) - 1 = Len(p)
    BY <1>1
  <1> QED BY <1>1, <1>2, <1>3, <1>4, <1>5 DEF Parent, Name

LEMMA ParentAndName ==
    ASSUME NEW q \in Seq(Names), q # <<>>
    PROVE  /\ Parent(q) \in Seq(Names) /\ Name(q) \in Names
           /\ Append(Parent(q), Name(q)) = q
           /\ Len(Parent(q)) = Len(q) - 1 /\ Len(q) \in Nat \ {0}
  <1>1. Len(q) \in Nat \ {0} /\ q[Len(q)] \in Names
    OBVIOUS
  <1> DEFINE p == SubSeq(q, 1, Len(q) - 1)
  <1>2. p \in Seq(Names) /\ Len(p) = Len(q) - 1 /\ \A i \in 1 .. Len(q) - 1 : p[i] = q[i]
    <2>1. \A m \in 0 .. Len(q) :
            /\ SubSeq(q, 1, m) \in Seq(Names) /\ Len(SubSeq(q, 1, m)) = m
            /\ \A i \in 1 .. m : SubSeq(q, 1, m)[i] = q[i]
      OBVIOUS
    <2>2. Len(q) - 1 \in 0 .. Len(q)
      BY <1>1
    <2> QED BY <2>1, <2>2
  <1> HIDE DEF p
  <1>3. Append(p, q[Len(q)]) = q
    BY <1>1, <1>2
  <1> QED BY <1>1, <1>2, <1>3 DEF Parent, Name, p

-----------------------------------------------------------------------------
(* Messages.  Every directory has one, made of those of the directories    *)
(* below it.                                                               *)

(* message is right for the directories in S.                              *)
Right(d, message, S) == message = [p \in S |-> MessageOf(d, p, message)]
DeepDirs(d, n) == {p \in Dirs(d) : Len(p) >= n}

LEMMA ChildOf ==
    ASSUME NEW d, IsDirectory(d), NEW p \in DOMAIN d
    PROVE  /\ p \in Seq(Names) /\ Len(p) \in Nat
           /\ \A n \in NamesIn(d, p) :
                /\ n \in Names /\ Append(p, n) \in DOMAIN d
                /\ Len(Append(p, n)) = Len(p) + 1
  <1>1. p \in Seq(Names)
    BY DEF IsDirectory
  <1>2. \A n \in Names : Len(Append(p, n)) = Len(p) + 1
    BY <1>1, AppendedPath
  <1> QED BY <1>1, <1>2 DEF NamesIn

LEMMA MessageOfAgrees ==
    ASSUME NEW d, NEW p, NEW f, NEW g,
           \A n \in NamesIn(d, p) :
             d[Append(p, n)] = Dir => f[Append(p, n)] = g[Append(p, n)]
    PROVE  MessageOf(d, p, f) = MessageOf(d, p, g)
  <1>1. \A n \in NamesIn(d, p) : NodeOf(d, Append(p, n), f) = NodeOf(d, Append(p, n), g)
    BY DEF NodeOf
  <1> QED BY <1>1 DEF MessageOf

(* One level up.                                                           *)
LEMMA OneLevelUp ==
    ASSUME NEW d, IsDirectory(d), NEW n \in Nat, NEW f, Right(d, f, DeepDirs(d, n + 1))
    PROVE  \E g : Right(d, g, DeepDirs(d, n))
  <1> DEFINE S == DeepDirs(d, n)
             g == [p \in S |-> IF Len(p) = n THEN MessageOf(d, p, f) ELSE f[p]]
  <1>1. ASSUME NEW p \in S
        PROVE  /\ p \in DOMAIN d /\ Len(p) \in Nat /\ Len(p) >= n
               /\ \A x \in NamesIn(d, p) :
                    d[Append(p, x)] = Dir =>
                      /\ Append(p, x) \in DeepDirs(d, n + 1)
                      /\ f[Append(p, x)] = g[Append(p, x)]
    <2>1. p \in DOMAIN d /\ Len(p) >= n
      BY <1>1 DEF DeepDirs, Dirs
    <2>2. /\ Len(p) \in Nat
          /\ \A x \in NamesIn(d, p) : /\ Append(p, x) \in DOMAIN d
                                      /\ Len(Append(p, x)) = Len(p) + 1
      BY <2>1, ChildOf
    <2>3. ASSUME NEW x \in NamesIn(d, p), d[Append(p, x)] = Dir
          PROVE  /\ Append(p, x) \in DeepDirs(d, n + 1)
                 /\ f[Append(p, x)] = g[Append(p, x)]
      <3> DEFINE q == Append(p, x)
      <3>1. q \in Dirs(d) /\ Len(q) = Len(p) + 1
        BY <2>2, <2>3 DEF Dirs
      <3> HIDE DEF q
      <3>2. Len(q) >= n + 1 /\ Len(q) # n /\ Len(q) >= n
        BY <2>1, <2>2, <3>1
      <3>3. q \in DeepDirs(d, n + 1) /\ q \in S
        BY <3>1, <3>2 DEF DeepDirs
      <3>4. g[q] = f[q]
        BY <3>2, <3>3
      <3> HIDE DEF g
      <3> QED BY <3>3, <3>4 DEF q
    <2> QED BY <2>1, <2>2, <2>3
  <1>2. ASSUME NEW p \in S PROVE g[p] = MessageOf(d, p, g)
    <2>1. MessageOf(d, p, f) = MessageOf(d, p, g)
      <3> HIDE DEF g, S
      <3> QED BY <1>1, <1>2, MessageOfAgrees
    <2>2. CASE Len(p) = n
      <3>1. g[p] = MessageOf(d, p, f)
        BY <2>2
      <3> QED BY <2>1, <3>1
    <2>3. CASE Len(p) # n
      <3>1. Len(p) >= n + 1
        BY <1>1, <2>3
      <3>2. p \in DeepDirs(d, n + 1)
        BY <3>1 DEF DeepDirs
      <3>3. f[p] = MessageOf(d, p, f)
        BY <3>2 DEF Right
      <3>4. g[p] = f[p]
        BY <2>3
      <3> HIDE DEF g
      <3> QED BY <2>1, <3>3, <3>4
    <2> QED BY <2>2, <2>3
  <1>3. g = [p \in S |-> g[p]]
    OBVIOUS
  <1> HIDE DEF g
  <1>4. Right(d, g, S)
    BY <1>2, <1>3 DEF Right
  <1> QED BY <1>4

LEMMA SomeMessages ==
    ASSUME NEW d, IsDirectory(d), NEW D \in Nat, \A q \in DOMAIN d : Len(q) <= D
    PROVE  \E f : Right(d, f, Dirs(d))
  <1> DEFINE Done(n) == \E f : Right(d, f, DeepDirs(d, n))
             T == {k \in 0 .. D + 1 : Done(D + 1 - k)}
  <1>1. \A q \in DOMAIN d : Len(q) \in Nat
    BY ChildOf
  <1>2. 0 \in T
    <2>1. DeepDirs(d, D + 1) = {}
      BY <1>1 DEF DeepDirs, Dirs
    <2> DEFINE f == [p \in {} |-> p]
    <2>2. f = [p \in {} |-> MessageOf(d, p, f)]
      OBVIOUS
    <2> HIDE DEF f
    <2>3. Done(D + 1)
      BY <2>1, <2>2 DEF Right
    <2>4. D + 1 - 0 = D + 1 /\ 0 \in 0 .. D + 1
      OBVIOUS
    <2> HIDE DEF Done
    <2> QED BY <2>3, <2>4
  <1>3. ASSUME NEW k \in 1 .. D + 1, k - 1 \in T PROVE k \in T
    <2> DEFINE n == D + 1 - k
    <2>1. n \in Nat /\ D + 1 - (k - 1) = n + 1 /\ k \in 0 .. D + 1
      OBVIOUS
    <2>2. Done(n + 1)
      <3>1. Done(D + 1 - (k - 1))
        BY <1>3
      <3> HIDE DEF Done, n
      <3> QED BY <2>1, <3>1
    <2> HIDE DEF n
    <2>3. PICK f : Right(d, f, DeepDirs(d, n + 1))
      BY <2>2
    <2>4. Done(n)
      BY <2>1, <2>3, OneLevelUp
    <2> HIDE DEF Done
    <2> QED BY <2>1, <2>4 DEF n
  <1>4. Done(0)
    <2>1. \A k \in 1 .. D + 1 : k - 1 \in T => k \in T
      BY <1>3
    <2> HIDE DEF T
    <2>2. \A k \in 0 .. D + 1 : k \in T
      BY <1>2, <2>1, CountingUp
    <2>3. D + 1 \in T
      BY <2>2
    <2>4. Done(D + 1 - (D + 1)) /\ D + 1 - (D + 1) = 0
      BY <2>3 DEF T
    <2> HIDE DEF Done
    <2> QED BY <2>4
  <1>5. DeepDirs(d, 0) = Dirs(d)
    BY <1>1 DEF DeepDirs, Dirs
  <1> QED BY <1>4, <1>5

(* A directory whose paths do not get longer and longer.                   *)
Proper(d) == IsDirectory(d) /\ \E p \in DOMAIN d : IsDeepest(d, p)

LEMMA MessagesAreRight ==
    ASSUME NEW d, Proper(d)
    PROVE  \E g : Right(d, g, Dirs(d)) /\ \A p : Message(d, p) = g[p]
  <1> DEFINE Body(g) == [q \in Dirs(d) |-> MessageOf(d, q, g)]
  <1>1. \E f : f = Body(f)
    <2>1. PICK deep \in DOMAIN d : IsDeepest(d, deep)
      BY DEF Proper
    <2>2. IsDirectory(d) /\ Len(deep) \in Nat /\ \A q \in DOMAIN d : Len(q) <= Len(deep)
      BY <2>1, ChildOf DEF Proper, IsDeepest
    <2>3. \E f : Right(d, f, Dirs(d))
      BY <2>2, SomeMessages
    <2> QED BY <2>3 DEF Right
  <1>2. PICK g : g = Body(g) /\ \A p : Message(d, p) = g[p]
    <2> HIDE DEF Body
    <2>1. (CHOOSE g : g = Body(g)) = Body(CHOOSE g : g = Body(g))
      BY <1>1
    <2> QED BY <2>1 DEF Message, Body
  <1> QED BY <1>2 DEF Right

LEMMA NodeKinds ==
    ASSUME NEW d, IsDirectory(d), NEW p \in DOMAIN d
    PROVE  /\ d[p].kind \in {"dir", "file", "link"}
           /\ d[p] = Dir <=> d[p].kind = "dir"
           /\ d[p].kind = "dir" <=> p \in Dirs(d)
           /\ p # <<>> => Parent(p) \in Dirs(d)
  <1>1. IsNode(d[p])
    BY DEF IsDirectory
  <1>2. /\ d[p].kind \in {"dir", "file", "link"}
        /\ d[p] = Dir <=> d[p].kind = "dir"
    BY <1>1 DEF IsNode, Dir
  <1> QED BY <1>2 DEF Dirs, IsDirectory

(* What a message says of the entry at path q, in node.                    *)
NodeFor(d, q, node) ==
    /\ d[q].kind = "dir" => node = [kind |-> "dir", digest |-> Message(d, q)]
    /\ d[q].kind = "file" => node = FileNode(d[q])
    /\ d[q].kind = "link" => node = d[q]
    /\ node.kind = d[q].kind

LEMMA MessageNodes ==
    ASSUME NEW d, Proper(d), NEW p \in Dirs(d)
    PROVE  /\ DOMAIN Message(d, p) = NamesIn(d, p)
           /\ \A n \in NamesIn(d, p) : NodeFor(d, Append(p, n), Message(d, p)[n])
  <1>1. PICK g : Right(d, g, Dirs(d)) /\ \A q : Message(d, q) = g[q]
    BY MessagesAreRight
  <1>2. g[p] = MessageOf(d, p, g)
    <2> HIDE DEF MessageOf
    <2> QED BY <1>1 DEF Right
  <1>3. Message(d, p) = [n \in NamesIn(d, p) |-> NodeOf(d, Append(p, n), g)]
    <2>1. Message(d, p) = g[p]
      BY <1>1
    <2> QED BY <1>2, <2>1 DEF MessageOf
  <1> DEFINE m == Message(d, p)
  <1>4. DOMAIN m = NamesIn(d, p) /\ \A n \in NamesIn(d, p) : m[n] = NodeOf(d, Append(p, n), g)
    BY <1>3
  <1> HIDE DEF m
  <1>5. ASSUME NEW n \in NamesIn(d, p)
        PROVE  NodeFor(d, Append(p, n), m[n])
    <2> DEFINE q == Append(p, n)
    <2>1. q \in DOMAIN d
      BY DEF NamesIn
    <2>2. m[n] = NodeOf(d, q, g) /\ g[q] = Message(d, q)
      BY <1>1, <1>4
    <2> HIDE DEF q
    <2>3. d[q].kind \in {"dir", "file", "link"} /\ (d[q] = Dir <=> d[q].kind = "dir")
      BY <2>1, NodeKinds DEF Proper
    <2>4. /\ d[q].kind = "dir" => m[n] = [kind |-> "dir", digest |-> Message(d, q)]
          /\ d[q].kind = "file" => m[n] = FileNode(d[q])
          /\ d[q].kind = "link" => m[n] = d[q]
      BY <2>2, <2>3 DEF NodeOf
    <2>5. m[n].kind = d[q].kind
      BY <2>3, <2>4 DEF FileNode
    <2> QED BY <2>4, <2>5 DEF NodeFor, q
  <1> QED BY <1>4, <1>5 DEF m

-----------------------------------------------------------------------------
(* A level: the directories in P, with their messages, and what is in them. *)

Entries(d, P) == {<<p, Message(d, p)>> : p \in P}
Inside(d, P)  == {q \in DOMAIN d : q # <<>> /\ Parent(q) \in P}
InsideOf(d, P, k) == {q \in Inside(d, P) : d[q].kind = k}

LEMMA InsideIs ==
    ASSUME NEW d, IsDirectory(d), NEW p \in Dirs(d), NEW q \in Inside(d, {p})
    PROVE  Name(q) \in NamesIn(d, p) /\ Append(p, Name(q)) = q
  <1>1. q \in DOMAIN d /\ q # <<>> /\ Parent(q) = p
    BY DEF Inside
  <1>2. q \in Seq(Names)
    BY <1>1 DEF IsDirectory
  <1>3. Name(q) \in Names /\ Append(p, Name(q)) = q
    BY <1>1, <1>2, ParentAndName
  <1> QED BY <1>1, <1>3 DEF NamesIn

LEMMA BelowIs ==
    ASSUME NEW d, Proper(d), NEW p \in Dirs(d), NEW k
    PROVE  Below(p, Message(d, p), k) = InsideOf(d, {p}, k)
  <1> DEFINE m == Message(d, p)
  <1>1. /\ DOMAIN m = NamesIn(d, p)
        /\ \A n \in NamesIn(d, p) : m[n].kind = d[Append(p, n)].kind
    BY MessageNodes DEF NodeFor
  <1>2. p \in Seq(Names) /\ IsDirectory(d)
    BY ChildOf DEF Proper, Dirs
  <1>3. ASSUME NEW n \in NamesIn(d, p), m[n].kind = k
        PROVE  Append(p, n) \in InsideOf(d, {p}, k)
    <2>1. n \in Names /\ Append(p, n) \in DOMAIN d
      BY DEF NamesIn
    <2>2. Append(p, n) # <<>> /\ Parent(Append(p, n)) = p
      BY <1>2, <2>1, AppendedPath
    <2> QED BY <1>1, <1>3, <2>1, <2>2 DEF InsideOf, Inside
  <1>4. ASSUME NEW q \in InsideOf(d, {p}, k)
        PROVE  /\ Name(q) \in NamesIn(d, p) /\ Append(p, Name(q)) = q
               /\ m[Name(q)].kind = k
    <2>1. q \in Inside(d, {p}) /\ d[q].kind = k
      BY DEF InsideOf
    <2>2. Name(q) \in NamesIn(d, p) /\ Append(p, Name(q)) = q
      BY <1>2, <2>1, InsideIs
    <2> QED BY <1>1, <2>1, <2>2
  <1>5. Below(p, m, k) = {Append(p, n) : n \in {x \in NamesIn(d, p) : m[x].kind = k}}
    BY <1>1 DEF Below
  <1> HIDE DEF m
  <1>6. Below(p, m, k) = InsideOf(d, {p}, k)
    <2>1. \A q \in Below(p, m, k) : q \in InsideOf(d, {p}, k)
      BY <1>3, <1>5
    <2>2. \A q \in InsideOf(d, {p}, k) : q \in Below(p, m, k)
      BY <1>4, <1>5
    <2> QED BY <2>1, <2>2
  <1> QED BY <1>6 DEF m

(* Looked up in the message of its directory, every entry is found.        *)
LEMMA EntryNode ==
    ASSUME NEW d, Proper(d), NEW p \in Dirs(d), NEW q \in Inside(d, {p})
    PROVE  NodeFor(d, q, Message(d, p)[Name(q)])
  <1>1. Name(q) \in NamesIn(d, p) /\ Append(p, Name(q)) = q
    BY InsideIs DEF Proper
  <1>2. \A n \in NamesIn(d, p) : NodeFor(d, Append(p, n), Message(d, p)[n])
    BY MessageNodes
  <1> QED BY <1>1, <1>2

LEMMA EntriesAre ==
    ASSUME NEW d, NEW P
    PROVE  /\ \A e \in Entries(d, P) : e[1] \in P /\ e[2] = Message(d, e[1])
           /\ \A p \in P : \E e \in Entries(d, P) : e[1] = p /\ e[2] = Message(d, p)
  <1>1. ASSUME NEW p \in P PROVE \E e \in Entries(d, P) : e[1] = p /\ e[2] = Message(d, p)
    <2> DEFINE e == <<p, Message(d, p)>>
    <2>1. e \in Entries(d, P) /\ e[1] = p /\ e[2] = Message(d, p)
      BY DEF Entries
    <2> QED BY <2>1
  <1>2. \A e \in Entries(d, P) : e[1] \in P /\ e[2] = Message(d, e[1])
    BY DEF Entries
  <1> QED BY <1>1, <1>2

LEMMA BelowEntries ==
    ASSUME NEW d, Proper(d), NEW P \in SUBSET Dirs(d), NEW k
    PROVE  UNION {Below(e[1], e[2], k) : e \in Entries(d, P)} = InsideOf(d, P, k)
  <1>1. \A p \in P : Below(p, Message(d, p), k) = InsideOf(d, {p}, k)
    BY BelowIs
  <1>2. ASSUME NEW x, NEW e \in Entries(d, P), x \in Below(e[1], e[2], k)
        PROVE  x \in InsideOf(d, P, k)
    <2>1. e[1] \in P /\ x \in InsideOf(d, {e[1]}, k)
      BY <1>1, <1>2, EntriesAre
    <2> QED BY <2>1 DEF InsideOf, Inside
  <1>3. ASSUME NEW q \in InsideOf(d, P, k)
        PROVE  \E e \in Entries(d, P) : q \in Below(e[1], e[2], k)
    <2>1. PICK p \in P : q \in InsideOf(d, {p}, k)
      BY DEF InsideOf, Inside
    <2>2. PICK e \in Entries(d, P) : e[1] = p /\ e[2] = Message(d, p)
      BY EntriesAre
    <2> QED BY <1>1, <2>1, <2>2
  <1> QED BY <1>2, <1>3

LEMMA NextLevel ==
    ASSUME NEW d, Proper(d), NEW P \in SUBSET Dirs(d)
    PROVE  UNION {DirsAt(e[1], e[2]) : e \in Entries(d, P)} = Entries(d, InsideOf(d, P, "dir"))
  <1>1. ASSUME NEW p \in P
        PROVE  DirsAt(p, Message(d, p)) = Entries(d, InsideOf(d, {p}, "dir"))
    <2>1. Below(p, Message(d, p), "dir") = InsideOf(d, {p}, "dir")
      BY BelowIs
    <2>2. ASSUME NEW q \in InsideOf(d, {p}, "dir")
          PROVE  Message(d, p)[Name(q)].digest = Message(d, q)
      <3>1. q \in Inside(d, {p}) /\ d[q].kind = "dir"
        BY DEF InsideOf
      <3>2. Message(d, p)[Name(q)] = [kind |-> "dir", digest |-> Message(d, q)]
        BY <3>1, EntryNode DEF NodeFor
      <3> QED BY <3>2
    <2>3. DirsAt(p, Message(d, p))
            = {<<q, Message(d, p)[Name(q)].digest>> : q \in InsideOf(d, {p}, "dir")}
      BY <2>1 DEF DirsAt
    <2> QED BY <2>2, <2>3 DEF Entries
  <1>2. ASSUME NEW x, NEW e \in Entries(d, P), x \in DirsAt(e[1], e[2])
        PROVE  x \in Entries(d, InsideOf(d, P, "dir"))
    <2>1. e[1] \in P /\ x \in Entries(d, InsideOf(d, {e[1]}, "dir"))
      BY <1>1, <1>2, EntriesAre
    <2> QED BY <2>1 DEF Entries, InsideOf, Inside
  <1>3. ASSUME NEW x \in Entries(d, InsideOf(d, P, "dir"))
        PROVE  \E e \in Entries(d, P) : x \in DirsAt(e[1], e[2])
    <2>1. PICK p \in P : x \in Entries(d, InsideOf(d, {p}, "dir"))
      BY DEF Entries, InsideOf, Inside
    <2>2. PICK e \in Entries(d, P) : e[1] = p /\ e[2] = Message(d, p)
      BY EntriesAre
    <2> QED BY <1>1, <2>1, <2>2
  <1> QED BY <1>2, <1>3

(* The files inside the directories of P, to be written.                   *)
ToWrite(d, P) == {<<q, d[q].data, d[q].mode = "owner">> : q \in InsideOf(d, P, "file")}

LEMMA NextTargets ==
    ASSUME NEW d, Proper(d), NEW P \in SUBSET Dirs(d)
    PROVE  UNION {TargetsAt(e[1], e[2]) : e \in Entries(d, P)} = ToWrite(d, P)
  <1>1. ASSUME NEW p \in P
        PROVE  TargetsAt(p, Message(d, p)) = ToWrite(d, {p})
    <2>1. Below(p, Message(d, p), "file") = InsideOf(d, {p}, "file")
      BY BelowIs
    <2> DEFINE t(q) == <<q, Message(d, p)[Name(q)].digest, Message(d, p)[Name(q)].exec>>
               w(q) == <<q, d[q].data, d[q].mode = "owner">>
    <2>2. ASSUME NEW q \in InsideOf(d, {p}, "file") PROVE t(q) = w(q)
      <3>1. q \in Inside(d, {p}) /\ d[q].kind = "file"
        BY DEF InsideOf
      <3>3. Message(d, p)[Name(q)] = FileNode(d[q])
        BY <3>1, EntryNode DEF NodeFor
      <3>4. /\ FileNode(d[q]).digest = d[q].data
            /\ FileNode(d[q]).exec = (d[q].mode = "owner")
        BY DEF FileNode
      <3> QED BY <3>3, <3>4
    <2>3. TargetsAt(p, Message(d, p)) = {t(q) : q \in InsideOf(d, {p}, "file")}
      BY <2>1 DEF TargetsAt
    <2>4. ToWrite(d, {p}) = {w(q) : q \in InsideOf(d, {p}, "file")}
      BY DEF ToWrite
    <2> HIDE DEF t, w
    <2> QED BY <2>2, <2>3, <2>4
  <1>2. ASSUME NEW x, NEW e \in Entries(d, P), x \in TargetsAt(e[1], e[2])
        PROVE  x \in ToWrite(d, P)
    <2>1. e[1] \in P /\ x \in ToWrite(d, {e[1]})
      BY <1>1, <1>2, EntriesAre
    <2> QED BY <2>1 DEF ToWrite, InsideOf, Inside
  <1>3. ASSUME NEW x \in ToWrite(d, P)
        PROVE  \E e \in Entries(d, P) : x \in TargetsAt(e[1], e[2])
    <2>1. PICK p \in P : x \in ToWrite(d, {p})
      BY DEF ToWrite, InsideOf, Inside
    <2>2. PICK e \in Entries(d, P) : e[1] = p /\ e[2] = Message(d, p)
      BY EntriesAre
    <2> QED BY <1>1, <2>1, <2>2
  <1> QED BY <1>2, <1>3

LEMMA EntryChosen ==
    ASSUME NEW d, NEW P, NEW p \in P
    PROVE  (CHOOSE e \in Entries(d, P) : e[1] = p)[2] = Message(d, p)
  <1>1. \E e \in Entries(d, P) : e[1] = p
    BY EntriesAre
  <1>2. \A e \in Entries(d, P) : e[1] = p => e[2] = Message(d, p)
    BY EntriesAre
  <1> HIDE DEF Entries
  <1> QED BY <1>1, <1>2

(* What is on disk once the directories in P were fetched: all but files.  *)
Shown(d, P) == [q \in P \cup InsideOf(d, P, "link") |-> d[q]]

LEMMA LevelShown ==
    ASSUME NEW d, Proper(d), NEW P \in SUBSET Dirs(d), NEW Q \in SUBSET Dirs(d)
    PROVE  WithLevel(Entries(d, P), Shown(d, Q)) = Shown(d, Q \cup P)
  <1> DEFINE level == Entries(d, P)
             links == UNION {Below(e[1], e[2], "link") : e \in level}
             at(q) == (CHOOSE e \in level : e[1] = Parent(q))[2][Name(q)]
             dirs == {e[1] : e \in level}
             L == [q \in links |-> at(q)]
             D == [p \in dirs |-> Dir]
             o == Shown(d, Q)
  <1>1. links = InsideOf(d, P, "link")
    BY BelowEntries
  <1>2. dirs = P
    BY EntriesAre
  <1>3. ASSUME NEW q \in links PROVE at(q) = d[q]
    <2>1. Parent(q) \in P /\ q \in Inside(d, {Parent(q)}) /\ d[q].kind = "link"
      BY <1>1 DEF InsideOf, Inside
    <2>2. at(q) = Message(d, Parent(q))[Name(q)]
      BY <2>1, EntryChosen
    <2>3. Parent(q) \in Dirs(d)
      BY <2>1
    <2>4. Message(d, Parent(q))[Name(q)] = d[q]
      BY <2>1, <2>3, EntryNode DEF NodeFor
    <2> HIDE DEF at
    <2> QED BY <2>2, <2>4
  <1>4. \A p \in dirs : d[p] = Dir
    BY <1>2 DEF Dirs
  <1>5. L = [q \in links |-> d[q]] /\ D = [p \in dirs |-> d[p]]
    BY <1>3, <1>4
  <1>6. o = [q \in Q \cup InsideOf(d, Q, "link") |-> d[q]]
    BY DEF Shown
  <1>7. WithLevel(level, o) = Over(o, Over(D, L))
    BY DEF WithLevel
  <1> HIDE DEF L, D, o, links, dirs
  <1>8. Over(D, L) = [x \in dirs \cup links |-> d[x]]
    BY <1>5 DEF Over
  <1>9. Over(o, Over(D, L)) = [x \in (Q \cup InsideOf(d, Q, "link")) \cup (dirs \cup links) |-> d[x]]
    BY <1>6, <1>8 DEF Over
  <1>10. (Q \cup InsideOf(d, Q, "link")) \cup (P \cup InsideOf(d, P, "link"))
           = (Q \cup P) \cup InsideOf(d, Q \cup P, "link")
    BY DEF InsideOf, Inside
  <1> DEFINE R == (Q \cup P) \cup InsideOf(d, Q \cup P, "link")
  <1>11. (Q \cup InsideOf(d, Q, "link")) \cup (dirs \cup links) = R
    BY <1>1, <1>2, <1>10
  <1>12. Shown(d, Q \cup P) = [x \in R |-> d[x]]
    BY DEF Shown
  <1> HIDE DEF R
  <1>13. WithLevel(level, o) = [x \in R |-> d[x]]
    BY <1>7, <1>9, <1>11
  <1> QED BY <1>12, <1>13 DEF o

-----------------------------------------------------------------------------
(* The directories by the length of their paths.                           *)

AtLevel(d, n) == {p \in Dirs(d) : Len(p) = n}
Above(d, n)   == {p \in Dirs(d) : Len(p) < n}

LEMMA DirPaths ==
    ASSUME NEW d, IsDirectory(d), NEW p \in Dirs(d)
    PROVE  /\ p \in Seq(Names) /\ Len(p) \in Nat
           /\ p # <<>> => Parent(p) \in Dirs(d) /\ Len(Parent(p)) = Len(p) - 1 /\ Len(p) > 0
           /\ Len(p) = 0 => p = <<>>
  <1>1. p \in Seq(Names) /\ p \in DOMAIN d
    BY DEF IsDirectory, Dirs
  <1>2. p # <<>> => Parent(p) \in Dirs(d)
    BY <1>1, NodeKinds
  <1>3. p # <<>> => Len(Parent(p)) = Len(p) - 1 /\ Len(p) \in Nat \ {0}
    BY <1>1, ParentAndName
  <1>4. Len(p) \in Nat
    BY <1>1
  <1> QED BY <1>1, <1>2, <1>3, <1>4

LEMMA FirstLevel ==
    ASSUME NEW d, Proper(d)
    PROVE  AtLevel(d, 0) = {<<>>} /\ Above(d, 0) = {} /\ <<>> \in Dirs(d)
  <1>1. <<>> \in Dirs(d) /\ Len(<<>>) = 0
    BY DEF Proper, IsDirectory, Dirs
  <1>2. \A p \in Dirs(d) : Len(p) \in Nat /\ (Len(p) = 0 => p = <<>>)
    BY DirPaths DEF Proper
  <1> QED BY <1>1, <1>2 DEF AtLevel, Above

LEMMA LevelBelow ==
    ASSUME NEW d, Proper(d), NEW n \in Nat
    PROVE  /\ InsideOf(d, AtLevel(d, n), "dir") = AtLevel(d, n + 1)
           /\ Above(d, n) \cup AtLevel(d, n) = Above(d, n + 1)
  <1>1. \A p \in Dirs(d) : Len(p) \in Nat
    BY DirPaths DEF Proper
  <1>2. ASSUME NEW q \in InsideOf(d, AtLevel(d, n), "dir") PROVE q \in AtLevel(d, n + 1)
    <2>1. q \in Dirs(d) /\ q # <<>> /\ Len(Parent(q)) = n
      BY NodeKinds DEF InsideOf, Inside, AtLevel, Proper
    <2>2. Len(Parent(q)) = Len(q) - 1 /\ Len(q) \in Nat
      BY <2>1, DirPaths DEF Proper
    <2> QED BY <2>1, <2>2 DEF AtLevel
  <1>3. ASSUME NEW q \in AtLevel(d, n + 1) PROVE q \in InsideOf(d, AtLevel(d, n), "dir")
    <2>1. q \in Dirs(d) /\ Len(q) = n + 1 /\ q \in DOMAIN d
      BY DEF AtLevel, Dirs
    <2>2. q # <<>>
      <3>1. Len(<<>>) = 0
        OBVIOUS
      <3> QED BY <2>1, <3>1
    <2>3. Parent(q) \in Dirs(d) /\ Len(Parent(q)) = Len(q) - 1
      BY <2>1, <2>2, DirPaths DEF Proper
    <2>4. Len(Parent(q)) = n
      BY <2>1, <2>3
    <2>5. d[q].kind = "dir"
      BY <2>1, NodeKinds DEF Proper
    <2> QED BY <2>1, <2>2, <2>3, <2>4, <2>5 DEF AtLevel, InsideOf, Inside
  <1>4. Above(d, n) \cup AtLevel(d, n) = Above(d, n + 1)
    BY <1>1 DEF Above, AtLevel
  <1> QED BY <1>2, <1>3, <1>4

(* Below an empty level there is none: the walk has seen everything.       *)
LEMMA NothingBelow ==
    ASSUME NEW d, Proper(d), NEW n \in Nat, AtLevel(d, n) = {}
    PROVE  Above(d, n) = Dirs(d)
  <1>1. ASSUME NEW p \in Dirs(d) PROVE Len(p) < n
    <2>1. Len(p) \in Nat
      BY DirPaths DEF Proper
    <2> SUFFICES ASSUME Len(p) >= n PROVE FALSE
      BY <2>1
    <2> DEFINE m == Len(p) - n
               T == {k \in 0 .. m : AtLevel(d, n + k) = {}}
    <2>2. m \in Nat
      BY <2>1
    <2>3. 0 \in T
      <3>1. n + 0 = n /\ 0 \in 0 .. m
        BY <2>2
      <3> HIDE DEF m
      <3> QED BY <3>1
    <2>4. ASSUME NEW k \in 1 .. m, k - 1 \in T PROVE k \in T
      <3> HIDE DEF m
      <3>1. n + (k - 1) \in Nat /\ (n + (k - 1)) + 1 = n + k /\ k \in 0 .. m
        BY <2>2
      <3>2. AtLevel(d, n + (k - 1)) = {}
        BY <2>4
      <3>3. InsideOf(d, AtLevel(d, n + (k - 1)), "dir") = AtLevel(d, (n + (k - 1)) + 1)
        BY <3>1, LevelBelow
      <3>4. AtLevel(d, n + k) = {}
        <4>1. InsideOf(d, {}, "dir") = {}
          BY DEF InsideOf, Inside
        <4> QED BY <3>1, <3>2, <3>3, <4>1
      <3> QED BY <3>1, <3>4
    <2>5. AtLevel(d, n + m) = {}
      <3>1. \A k \in 1 .. m : k - 1 \in T => k \in T
        BY <2>4
      <3> HIDE DEF T, m
      <3>2. \A k \in 0 .. m : k \in T
        BY <2>2, <2>3, <3>1, CountingUp
      <3>3. m \in T
        BY <2>2, <3>2
      <3> QED BY <3>3 DEF T
    <2>6. n + m = Len(p)
      BY <2>1
    <2> HIDE DEF m
    <2> QED BY <2>5, <2>6 DEF AtLevel
  <1> QED BY <1>1 DEF Above

(* The walk of the Tree finds every directory.                             *)
LEMMA ReachedIsAll ==
    ASSUME NEW d, Proper(d)
    PROVE  Reached(d) = Entries(d, Dirs(d))
  <1> DEFINE N == Depth(d)
             Kids == Descendants(d)
             Step(S) == {c \in UNION {DirsAt(e[1], e[2]) : e \in S} : c[2] \in Kids}
             Body(f) == [n \in 0 .. N |-> IF n = 0 THEN {<<<<>>, Root(d)>>} ELSE Step(f[n - 1])]
             L == [n \in 0 .. N |-> Entries(d, AtLevel(d, n))]
  <1>1. N \in Nat /\ \A p \in Dirs(d) : Len(p) \in 0 .. N
    <2> DEFINE deep == CHOOSE p \in DOMAIN d : IsDeepest(d, p)
    <2>1. deep \in DOMAIN d /\ IsDeepest(d, deep)
      BY DEF Proper
    <2> HIDE DEF deep
    <2>2. \A p \in DOMAIN d : Len(p) \in Nat
      BY ChildOf DEF Proper
    <2>3. \A p \in Dirs(d) : p \in DOMAIN d
      BY DEF Dirs
    <2> QED BY <2>1, <2>2, <2>3 DEF Depth, IsDeepest, deep
  <1> HIDE DEF N
  <1>2. {<<<<>>, Root(d)>>} = Entries(d, AtLevel(d, 0))
    BY FirstLevel DEF Entries, Root
  <1>3. ASSUME NEW n \in 1 .. N
        PROVE  Step(Entries(d, AtLevel(d, n - 1))) = Entries(d, AtLevel(d, n))
    <2>1. n - 1 \in Nat /\ (n - 1) + 1 = n
      OBVIOUS
    <2>2. AtLevel(d, n - 1) \in SUBSET Dirs(d)
      BY DEF AtLevel
    <2>3. InsideOf(d, AtLevel(d, n - 1), "dir") = AtLevel(d, n)
      <3>1. InsideOf(d, AtLevel(d, n - 1), "dir") = AtLevel(d, (n - 1) + 1)
        BY <2>1, LevelBelow
      <3> QED BY <2>1, <3>1
    <2>4. UNION {DirsAt(e[1], e[2]) : e \in Entries(d, AtLevel(d, n - 1))}
            = Entries(d, AtLevel(d, n))
      BY <2>2, <2>3, NextLevel
    <2>5. ASSUME NEW c \in Entries(d, AtLevel(d, n)) PROVE c[2] \in Kids
      <3>1. c[1] \in AtLevel(d, n) /\ c[2] = Message(d, c[1])
        BY EntriesAre
      <3>2. c[1] \in Dirs(d) /\ Len(c[1]) = n /\ Len(<<>>) = 0
        BY <3>1 DEF AtLevel
      <3>3. c[1] \in Dirs(d) \ {<<>>}
        BY <3>2
      <3> QED BY <3>1, <3>3 DEF Descendants
    <2> HIDE DEF Kids
    <2> QED BY <2>4, <2>5
  <1> HIDE DEF Step
  <1>4. L = Body(L)
    <2>1. ASSUME NEW n \in 0 .. N, n # 0 PROVE L[n] = Step(L[n - 1])
      <3>1. n \in 1 .. N /\ n - 1 \in 0 .. N
        BY <1>1, <2>1
      <3>2. L[n] = Entries(d, AtLevel(d, n)) /\ L[n - 1] = Entries(d, AtLevel(d, n - 1))
        BY <3>1
      <3> QED BY <1>3, <3>1, <3>2
    <2>2. 0 \in 0 .. N /\ L[0] = {<<<<>>, Root(d)>>}
      BY <1>1, <1>2
    <2>3. L = [n \in 0 .. N |-> L[n]]
      OBVIOUS
    <2> HIDE DEF L
    <2> QED BY <2>1, <2>2, <2>3
  <1>5. ASSUME NEW f, f = Body(f) PROVE \A n \in 0 .. N : f[n] = L[n]
    <2> DEFINE T == {n \in 0 .. N : f[n] = L[n]}
    <2>1. /\ f[0] = {<<<<>>, Root(d)>>}
          /\ \A n \in 1 .. N : n - 1 \in 0 .. N /\ f[n] = Step(f[n - 1])
      <3>1. \A n \in 0 .. N : f[n] = IF n = 0 THEN {<<<<>>, Root(d)>>} ELSE Step(f[n - 1])
        BY <1>5
      <3>2. 0 \in 0 .. N /\ \A n \in 1 .. N : n \in 0 .. N /\ n # 0 /\ n - 1 \in 0 .. N
        BY <1>1
      <3> QED BY <3>1, <3>2
    <2>2. 0 \in T
      <3>1. 0 \in 0 .. N /\ L[0] = Entries(d, AtLevel(d, 0))
        BY <1>1
      <3>2. f[0] = L[0]
        BY <1>2, <2>1, <3>1
      <3> HIDE DEF L
      <3> QED BY <3>1, <3>2
    <2>3. \A n \in 1 .. N : n - 1 \in T => n \in T
      <3>1. ASSUME NEW n \in 1 .. N, n - 1 \in T PROVE n \in T
        <4>1. f[n - 1] = Entries(d, AtLevel(d, n - 1)) /\ n \in 0 .. N
          BY <3>1
        <4>2. f[n] = Entries(d, AtLevel(d, n))
          BY <1>3, <2>1, <4>1
        <4> QED BY <4>1, <4>2
      <3> QED BY <3>1
    <2> HIDE DEF T
    <2>4. \A n \in 0 .. N : n \in T
      BY <1>1, <2>2, <2>3, CountingUp
    <2> QED BY <2>4 DEF T
  <1> DEFINE level == CHOOSE f : f = Body(f)
  <1>6. level = Body(level)
    <2> HIDE DEF Body
    <2> QED BY <1>4
  <1>7. Reached(d) = UNION {level[n] : n \in 0 .. N}
    BY DEF Reached, N, Step, Kids
  <1> HIDE DEF level, Body
  <1>8. \A n \in 0 .. N : level[n] = Entries(d, AtLevel(d, n))
    BY <1>5, <1>6
  <1>9. Reached(d) = UNION {Entries(d, AtLevel(d, n)) : n \in 0 .. N}
    BY <1>7, <1>8
  <1>10. @ = Entries(d, Dirs(d))
    BY <1>1 DEF Entries, AtLevel
  <1> QED BY <1>9, <1>10

-----------------------------------------------------------------------------
(* Two directories of one shape: equal but for the permission bits that no *)
(* message carries.                                                        *)

SameShape(d, e) ==
    /\ DOMAIN d = DOMAIN e
    /\ \A p \in DOMAIN d :
         /\ d[p].kind = e[p].kind
         /\ d[p].kind = "file" => FileNode(d[p]) = FileNode(e[p])
         /\ d[p].kind = "link" => d[p] = e[p]

(* A directory has one message only.                                       *)
LEMMA OnlyMessages ==
    ASSUME NEW d, Proper(d), NEW f, NEW g,
           Right(d, f, Dirs(d)), Right(d, g, Dirs(d))
    PROVE  f = g
  <1>1. PICK D \in Nat : \A p \in DOMAIN d : Len(p) \in 0 .. D
    <2>1. PICK deep \in DOMAIN d : IsDeepest(d, deep)
      BY DEF Proper
    <2>2. \A p \in DOMAIN d : Len(p) \in Nat
      BY ChildOf DEF Proper
    <2> QED BY <2>1, <2>2 DEF IsDeepest
  <1> DEFINE T == {k \in 0 .. D + 1 : \A p \in DeepDirs(d, D + 1 - k) : f[p] = g[p]}
  <1>2. 0 \in T
    <2>1. DeepDirs(d, D + 1) = {} /\ D + 1 - 0 = D + 1 /\ 0 \in 0 .. D + 1
      BY <1>1 DEF DeepDirs, Dirs
    <2> QED BY <2>1
  <1>3. ASSUME NEW k \in 1 .. D + 1, k - 1 \in T PROVE k \in T
    <2> DEFINE n == D + 1 - k
    <2>1. n \in Nat /\ D + 1 - (k - 1) = n + 1 /\ k \in 0 .. D + 1
      OBVIOUS
    <2>2. \A p \in DeepDirs(d, D + 1 - (k - 1)) : f[p] = g[p]
      BY <1>3
    <2> HIDE DEF n
    <2>3. ASSUME NEW p \in DeepDirs(d, n) PROVE f[p] = g[p]
      <3>1. p \in Dirs(d) /\ p \in DOMAIN d /\ Len(p) \in Nat /\ Len(p) >= n
        BY <1>1 DEF DeepDirs, Dirs
      <3>2. f[p] = MessageOf(d, p, f) /\ g[p] = MessageOf(d, p, g)
        BY <3>1 DEF Right
      <3>3. ASSUME NEW x \in NamesIn(d, p), d[Append(p, x)] = Dir
            PROVE  f[Append(p, x)] = g[Append(p, x)]
        <4>1. Append(p, x) \in DOMAIN d /\ Len(Append(p, x)) = Len(p) + 1
          BY <3>1, ChildOf DEF Proper
        <4> DEFINE q == Append(p, x)
        <4>2. q \in Dirs(d) /\ Len(q) = Len(p) + 1
          BY <3>3, <4>1 DEF Dirs
        <4> HIDE DEF q
        <4>3. Len(q) >= n + 1
          BY <2>1, <3>1, <4>2
        <4>4. q \in DeepDirs(d, n + 1)
          BY <4>2, <4>3 DEF DeepDirs
        <4>5. f[q] = g[q]
          BY <2>1, <2>2, <4>4
        <4> QED BY <4>5 DEF q
      <3>4. MessageOf(d, p, f) = MessageOf(d, p, g)
        BY <3>3, MessageOfAgrees
      <3> QED BY <3>2, <3>4
    <2> QED BY <2>1, <2>3 DEF n
  <1>4. \A p \in DeepDirs(d, 0) : f[p] = g[p]
    <2>1. \A k \in 1 .. D + 1 : k - 1 \in T => k \in T
      BY <1>3
    <2> HIDE DEF T
    <2>2. \A k \in 0 .. D + 1 : k \in T
      BY <1>2, <2>1, CountingUp
    <2>3. D + 1 \in T
      BY <2>2
    <2>4. D + 1 - (D + 1) = 0
      OBVIOUS
    <2> QED BY <2>3, <2>4 DEF T
  <1>5. DeepDirs(d, 0) = Dirs(d)
    BY <1>1 DEF DeepDirs, Dirs
  <1> QED BY <1>4, <1>5 DEF Right

(* Directories of one shape have one message, whatever is equal inside.    *)
LEMMA SameMessages ==
    ASSUME NEW d, Proper(d), NEW e, Proper(e), SameShape(d, e)
    PROVE  Dirs(d) = Dirs(e) /\ \A p \in Dirs(d) : Message(d, p) = Message(e, p)
  <1>1. DOMAIN d = DOMAIN e /\ \A p \in DOMAIN d : d[p] = Dir <=> e[p] = Dir
    <2>1. DOMAIN d = DOMAIN e /\ \A p \in DOMAIN d : d[p].kind = e[p].kind
      BY DEF SameShape
    <2>2. \A p \in DOMAIN d : (d[p] = Dir <=> d[p].kind = "dir")
      BY NodeKinds DEF Proper
    <2>3. \A p \in DOMAIN e : (e[p] = Dir <=> e[p].kind = "dir")
      BY NodeKinds DEF Proper
    <2> QED BY <2>1, <2>2, <2>3
  <1>2. Dirs(d) = Dirs(e)
    BY <1>1 DEF Dirs
  <1>3. \A p : NamesIn(d, p) = NamesIn(e, p)
    BY <1>1 DEF NamesIn
  <1>4. PICK f : Right(d, f, Dirs(d)) /\ \A p : Message(d, p) = f[p]
    BY MessagesAreRight
  <1>5. PICK g : Right(e, g, Dirs(e)) /\ \A p : Message(e, p) = g[p]
    BY MessagesAreRight
  <1>6. ASSUME NEW p PROVE MessageOf(d, p, f) = MessageOf(e, p, f)
    <2>1. ASSUME NEW n \in NamesIn(d, p)
          PROVE  NodeOf(d, Append(p, n), f) = NodeOf(e, Append(p, n), f)
      <3> DEFINE q == Append(p, n)
      <3>1. q \in DOMAIN d
        BY DEF NamesIn
      <3> HIDE DEF q
      <3>2. /\ d[q] = Dir <=> e[q] = Dir
            /\ d[q].kind = e[q].kind
            /\ d[q].kind = "file" => FileNode(d[q]) = FileNode(e[q])
            /\ d[q].kind = "link" => d[q] = e[q]
        BY <1>1, <3>1 DEF SameShape
      <3>3. d[q].kind \in {"dir", "file", "link"} /\ (d[q] = Dir <=> d[q].kind = "dir")
        BY <3>1, NodeKinds DEF Proper
      <3>4. NodeOf(d, q, f) = NodeOf(e, q, f)
        BY <3>2, <3>3 DEF NodeOf
      <3> QED BY <3>4 DEF q
    <2> QED BY <1>3, <2>1 DEF MessageOf
  <1>7. Right(e, f, Dirs(e))
    BY <1>2, <1>4, <1>6 DEF Right
  <1>8. f = g
    BY <1>5, <1>7, OnlyMessages
  <1> QED BY <1>2, <1>4, <1>5, <1>8

-----------------------------------------------------------------------------
(* What is on disk is a directory at every point of the walk, and the      *)
(* uploaded one at its end.                                                *)

LEMMA EveryEntry ==
    ASSUME NEW d, Proper(d)
    PROVE  /\ DOMAIN d = Dirs(d) \cup InsideOf(d, Dirs(d), "file")
                                 \cup InsideOf(d, Dirs(d), "link")
           /\ InsideOf(d, Dirs(d), "file") = {q \in DOMAIN d : q # <<>> /\ d[q].kind = "file"}
           /\ InsideOf(d, Dirs(d), "link") = {q \in DOMAIN d : q # <<>> /\ d[q].kind = "link"}
  <1>1. ASSUME NEW q \in DOMAIN d
        PROVE  /\ q # <<>> => Parent(q) \in Dirs(d)
               /\ d[q].kind = "dir" <=> q \in Dirs(d)
               /\ d[q].kind \in {"dir", "file", "link"}
    BY NodeKinds DEF Proper
  <1>2. <<>> \in Dirs(d)
    BY FirstLevel
  <1>3. /\ InsideOf(d, Dirs(d), "file") = {q \in DOMAIN d : q # <<>> /\ d[q].kind = "file"}
        /\ InsideOf(d, Dirs(d), "link") = {q \in DOMAIN d : q # <<>> /\ d[q].kind = "link"}
    BY <1>1 DEF InsideOf, Inside
  <1>4. DOMAIN d \subseteq Dirs(d) \cup InsideOf(d, Dirs(d), "file")
                                   \cup InsideOf(d, Dirs(d), "link")
    BY <1>1, <1>2, <1>3
  <1>5. Dirs(d) \cup InsideOf(d, Dirs(d), "file") \cup InsideOf(d, Dirs(d), "link") \subseteq DOMAIN d
    BY <1>3 DEF Dirs
  <1> QED BY <1>3, <1>4, <1>5

LEMMA ShownIsDirectory ==
    ASSUME NEW d, Proper(d), NEW n \in Nat
    PROVE  \/ Shown(d, Above(d, n)) = [p \in {} |-> Dir]
           \/ IsDirectory(Shown(d, Above(d, n)))
  <1> DEFINE P == Above(d, n)
             S == P \cup InsideOf(d, P, "link")
             o == Shown(d, P)
  <1>1. DOMAIN o = S /\ \A q \in S : o[q] = d[q]
    BY DEF Shown
  <1>2. CASE n = 0
    <2>1. P = {} /\ InsideOf(d, {}, "link") = {}
      BY <1>2, FirstLevel DEF InsideOf, Inside
    <2>2. o = [p \in {} |-> d[p]]
      BY <2>1 DEF Shown
    <2>3. [p \in {} |-> d[p]] = [p \in {} |-> Dir]
      OBVIOUS
    <2> QED BY <2>2, <2>3
  <1>3. CASE n # 0
    <2>1. <<>> \in P
      <3>1. Len(<<>>) = 0 /\ 0 < n
        BY <1>3
      <3> QED BY <3>1, FirstLevel DEF Above
    <2>2. ASSUME NEW q \in S
          PROVE  /\ q \in DOMAIN d /\ q \in Seq(Names) /\ IsNode(d[q])
                 /\ q # <<>> => Parent(q) \in P
      <3>1. q \in DOMAIN d
        BY DEF Above, Dirs, InsideOf, Inside
      <3>2. q \in Seq(Names) /\ IsNode(d[q])
        BY <3>1 DEF Proper, IsDirectory
      <3>3. ASSUME q # <<>> PROVE Parent(q) \in P
        <4>1. CASE q \in P
          <5>1. q \in Dirs(d) /\ Len(q) < n
            BY <4>1 DEF Above
          <5>2. Parent(q) \in Dirs(d) /\ Len(Parent(q)) = Len(q) - 1 /\ Len(q) \in Nat
            BY <3>3, <5>1, DirPaths DEF Proper
          <5>3. Len(Parent(q)) < n
            BY <5>1, <5>2
          <5> QED BY <5>2, <5>3 DEF Above
        <4>2. CASE q \in InsideOf(d, P, "link")
          BY <4>2 DEF InsideOf, Inside
        <4> QED BY <4>1, <4>2
      <3> QED BY <3>1, <3>2, <3>3
    <2>3. \A q \in P : d[q] = Dir
      BY DEF Above, Dirs
    <2>4. P \subseteq S
      OBVIOUS
    <2> HIDE DEF o, S, P
    <2>5. \A q \in S : IsNode(o[q]) /\ (q # <<>> => Parent(q) \in S /\ o[Parent(q)] = Dir)
      BY <1>1, <2>2, <2>3, <2>4
    <2>6. <<>> \in S /\ o[<<>>] = Dir
      BY <1>1, <2>1, <2>3, <2>4
    <2>7. S \subseteq Seq(Names)
      BY <2>2
    <2>8. IsDirectory(o)
      BY <1>1, <2>5, <2>6, <2>7 DEF IsDirectory
    <2> QED BY <2>8 DEF o, P
  <1> QED BY <1>2, <1>3

(* What is written once everything was fetched.                            *)
Written(d) ==
    Over(Shown(d, Dirs(d)),
         [q \in {t[1] : t \in ToWrite(d, Dirs(d))} |->
            Restored(CHOOSE t \in ToWrite(d, Dirs(d)) : t[1] = q)])

LEMMA WrittenIsAlike ==
    ASSUME NEW d, Proper(d)
    PROVE  Proper(Written(d)) /\ SameShape(d, Written(d))
  <1> DEFINE A == InsideOf(d, Dirs(d), "file")
             K == InsideOf(d, Dirs(d), "link")
             W == ToWrite(d, Dirs(d))
             t(q) == <<q, d[q].data, d[q].mode = "owner">>
             F == [q \in {x[1] : x \in W} |-> Restored(CHOOSE x \in W : x[1] = q)]
             o == Shown(d, Dirs(d))
             w == Written(d)
  <1>1. W = {t(q) : q \in A} /\ \A q \in A : t(q)[1] = q
    BY DEF ToWrite
  <1>2. {x[1] : x \in W} = A
    <2> HIDE DEF t, W
    <2> QED BY <1>1
  <1>3. ASSUME NEW q \in A PROVE (CHOOSE x \in W : x[1] = q) = t(q)
    <2> HIDE DEF t, W, A
    <2> QED BY <1>1, <1>3
  <1>4. ASSUME NEW q \in A
        PROVE  F[q] = [kind |-> "file", data |-> d[q].data,
                       mode |-> IF d[q].mode = "owner" THEN "owner" ELSE "nobody"]
    <2>1. F[q] = Restored(CHOOSE x \in W : x[1] = q)
      BY <1>2, <1>4
    <2>2. F[q] = Restored(t(q))
      BY <1>3, <1>4, <2>1
    <2>3. t(q)[2] = d[q].data /\ t(q)[3] = (d[q].mode = "owner")
      OBVIOUS
    <2> HIDE DEF t, F
    <2> QED BY <2>2, <2>3 DEF Restored
  <1>5. DOMAIN F = A
    BY <1>2
  <1>6. DOMAIN o = Dirs(d) \cup K /\ \A q \in Dirs(d) \cup K : o[q] = d[q]
    BY DEF Shown
  <1>7. w = Over(o, F)
    BY DEF Written
  <1>8. /\ DOMAIN d = Dirs(d) \cup A \cup K
        /\ A = {q \in DOMAIN d : q # <<>> /\ d[q].kind = "file"}
        /\ K = {q \in DOMAIN d : q # <<>> /\ d[q].kind = "link"}
    BY EveryEntry
  <1>9. \A q \in DOMAIN d : /\ d[q].kind = "dir" <=> d[q] = Dir
                            /\ d[q].kind = "dir" <=> q \in Dirs(d)
                            /\ d[q].kind \in {"dir", "file", "link"}
                            /\ IsNode(d[q])
    BY NodeKinds DEF Proper, IsDirectory
  <1> HIDE DEF F, o, A, K, w
  <1>10. DOMAIN w = DOMAIN d
    BY <1>5, <1>6, <1>7, <1>8 DEF Over
  <1>11. \A q \in A : q \in DOMAIN w /\ w[q] = F[q]
    BY <1>5, <1>6, <1>7, <1>8, <1>10 DEF Over
  <1>12. \A q \in DOMAIN d : q \notin A => w[q] = d[q]
    BY <1>5, <1>6, <1>7, <1>8, <1>10 DEF Over
  <1>13. ASSUME NEW q \in DOMAIN d
         PROVE  /\ IsNode(w[q]) /\ w[q].kind = d[q].kind
                /\ d[q].kind = "file" => FileNode(d[q]) = FileNode(w[q])
                /\ d[q].kind = "link" => d[q] = w[q]
                /\ d[q] = Dir => w[q] = Dir
    <2>1. CASE q \in A
      <3> DEFINE x == [kind |-> "file", data |-> d[q].data,
                       mode |-> IF d[q].mode = "owner" THEN "owner" ELSE "nobody"]
      <3>1. w[q] = x /\ d[q].kind = "file"
        BY <1>4, <1>8, <1>11, <2>1
      <3>2. DOMAIN x = {"kind", "data", "mode"} /\ x.kind = "file" /\ x.mode \in {"owner", "nobody"}
        OBVIOUS
      <3>3. x.data = d[q].data /\ (x.mode = "owner" <=> d[q].mode = "owner")
        OBVIOUS
      <3> HIDE DEF x
      <3>4. IsNode(x)
        BY <3>2 DEF IsNode, Modes
      <3>5. FileNode(x) = FileNode(d[q])
        BY <3>3 DEF FileNode
      <3> QED BY <1>9, <3>1, <3>2, <3>4, <3>5
    <2>2. CASE q \notin A
      BY <1>9, <1>12, <2>2
    <2> QED BY <2>1, <2>2
  <1>14. SameShape(d, w)
    BY <1>10, <1>13 DEF SameShape
  <1>15. IsDirectory(w)
    <2>1. IsDirectory(d)
      BY DEF Proper
    <2> QED BY <1>10, <1>13, <2>1 DEF IsDirectory
  <1>16. Proper(w)
    BY <1>10, <1>15 DEF Proper, IsDeepest
  <1> QED BY <1>14, <1>16 DEF w

-----------------------------------------------------------------------------
(* The inductive invariant.  A walk is described by the level it has come  *)
(* to: what is above is on disk or to be written, what is at it comes next. *)

WalkedTo(n) ==
    /\ frontier = Entries(source, AtLevel(source, n))
    /\ out = Shown(source, Above(source, n))
    /\ targets = ToWrite(source, Above(source, n))

InvWalk ==
    /\ pc \in {"upload", "push", "upload failed"} => out = Shown(source, {}) /\ targets = {}
    /\ pc \in {"fetch", "download failed"} => \E n \in Nat : WalkedTo(n)
    /\ pc = "done" => out = Written(source) /\ targets = ToWrite(source, Dirs(source))

(* All that was uploaded is in the CAS, but for what it may drop.          *)
InvStored ==
    /\ pc = "push" => Blobs(source) \subseteq cas \cup missing \cup Evictable
    /\ pc = "fetch" => Blobs(source) \subseteq cas \cup Evictable
    /\ pc = "download failed" => missing \subseteq Evictable

Inv ==
    /\ source \in Directories /\ by \in {"root", "tree"}
    /\ pc \in {"upload", "push", "fetch", "done", "upload failed", "download failed"}
    /\ InvWalk
    /\ InvStored

LEMMA DirectoriesAreProper ==
    ASSUME NEW d \in Directories
    PROVE  Proper(d)
  BY DirectoriesAssumption DEF Proper

(* All that the walk asks for was uploaded.                                *)
LEMMA WantedWasSent ==
    ASSUME source \in Directories, by \in {"root", "tree"}, NEW n \in Nat, WalkedTo(n)
    PROVE  Wanted \subseteq Blobs(source)
  <1>1. CASE frontier = {}
    <2>1. Wanted = {DataBlob(t[2]) : t \in targets}
      BY <1>1 DEF Wanted
    <2>2. ASSUME NEW t \in targets PROVE t[2] \in Files(source)
      <3>1. PICK q \in InsideOf(source, Above(source, n), "file") :
              t = <<q, source[q].data, source[q].mode = "owner">>
        BY <2>2 DEF WalkedTo, ToWrite
      <3>2. q \in DOMAIN source /\ source[q].kind = "file" /\ t[2] = source[q].data
        BY <3>1 DEF InsideOf, Inside
      <3> QED BY <3>2 DEF Files
    <2>3. \A c \in Files(source) : DataBlob(c) \in Blobs(source)
      BY DEF Blobs
    <2> QED BY <2>1, <2>2, <2>3
  <1>2. CASE frontier # {} /\ by = "root"
    <2>1. Wanted = {DirBlob(e[2]) : e \in frontier}
      BY <1>2 DEF Wanted
    <2>2. ASSUME NEW e \in frontier PROVE DirBlob(e[2]) \in Blobs(source)
      <3>1. e[1] \in Dirs(source) /\ e[2] = Message(source, e[1])
        <4>1. e \in Entries(source, AtLevel(source, n))
          BY <2>2 DEF WalkedTo
        <4> QED BY <4>1, EntriesAre DEF AtLevel
      <3>2. CASE e[1] = <<>>
        BY <3>1, <3>2 DEF Blobs, Root
      <3>3. CASE e[1] # <<>>
        <4>1. e[2] \in Descendants(source)
          BY <3>1, <3>3 DEF Descendants
        <4> QED BY <4>1 DEF Blobs
      <3> QED BY <3>2, <3>3
    <2> QED BY <2>1, <2>2
  <1>3. CASE frontier # {} /\ by = "tree"
    BY <1>3 DEF Wanted, Blobs
  <1> QED BY <1>1, <1>2, <1>3

LEMMA InitInv == Init => Inv
  <1> SUFFICES ASSUME Init PROVE Inv
    OBVIOUS
  <1>1. out = Shown(source, {})
    <2>1. InsideOf(source, {}, "link") = {}
      BY DEF InsideOf, Inside
    <2>2. Shown(source, {}) = [p \in {} |-> source[p]]
      BY <2>1 DEF Shown
    <2>3. [p \in {} |-> source[p]] = [p \in {} |-> Dir]
      OBVIOUS
    <2> QED BY <2>2, <2>3 DEF Init
  <1> QED BY <1>1 DEF Init, Inv, InvWalk, InvStored

LEMMA FindMissingKeeps == Inv /\ FindMissing => Inv'
  BY DEF Inv, InvWalk, InvStored, FindMissing

LEMMA PushKeeps == Inv /\ Push => Inv'
  <1> SUFFICES ASSUME Inv, Push PROVE Inv'
    OBVIOUS
  <1>1. Proper(source) /\ source' = source
    BY DirectoriesAreProper DEF Inv, Push
  <1>2. out = Shown(source, {}) /\ targets = {} /\ out' = out /\ targets' = targets
    BY DEF Inv, InvWalk, Push
  <1>3. frontier' = Entries(source, AtLevel(source, 0))
    BY <1>1, FirstLevel DEF Push, Entries, Root
  <1>4. ToWrite(source, {}) = {}
    BY DEF ToWrite, InsideOf, Inside
  <1>5. WalkedTo(0)'
    BY <1>1, <1>2, <1>3, <1>4, FirstLevel DEF WalkedTo
  <1>6. InvWalk'
    BY <1>5 DEF InvWalk, Push
  <1>7. InvStored'
    BY DEF Inv, InvStored, Push
  <1> QED BY <1>6, <1>7 DEF Inv, Push

LEMMA PushPartlyKeeps == Inv /\ PushPartly => Inv'
  BY DEF Inv, InvWalk, InvStored, PushPartly

LEMMA FetchLevelKeeps == Inv /\ FetchLevel => Inv'
  <1> SUFFICES ASSUME Inv, FetchLevel PROVE Inv'
    OBVIOUS
  <1>1. Proper(source) /\ source' = source
    BY DirectoriesAreProper DEF Inv, FetchLevel
  <1>2. PICK n \in Nat : WalkedTo(n)
    BY DEF Inv, InvWalk, FetchLevel
  <1> DEFINE P == AtLevel(source, n)
             Q == Above(source, n)
  <1>3. P \in SUBSET Dirs(source) /\ Q \in SUBSET Dirs(source)
    BY DEF AtLevel, Above
  <1>4. InsideOf(source, P, "dir") = AtLevel(source, n + 1) /\ Q \cup P = Above(source, n + 1)
    BY <1>1, LevelBelow
  <1>5. frontier = Entries(source, P) /\ out = Shown(source, Q) /\ targets = ToWrite(source, Q)
    BY <1>2 DEF WalkedTo
  <1> HIDE DEF P, Q
  <1>6. out' = Shown(source, Above(source, n + 1))
    BY <1>1, <1>3, <1>4, <1>5, LevelShown DEF FetchLevel
  <1>7. frontier' = Entries(source, AtLevel(source, n + 1))
    BY <1>1, <1>3, <1>4, <1>5, NextLevel DEF FetchLevel
  <1>8. targets' = ToWrite(source, Above(source, n + 1))
    <2>1. targets' = ToWrite(source, Q) \cup ToWrite(source, P)
      BY <1>1, <1>3, <1>5, NextTargets DEF FetchLevel
    <2>2. @ = ToWrite(source, Q \cup P)
      BY DEF ToWrite, InsideOf, Inside
    <2> QED BY <1>4, <2>1, <2>2
  <1>9. n + 1 \in Nat /\ WalkedTo(n + 1)'
    BY <1>1, <1>6, <1>7, <1>8 DEF WalkedTo
  <1>10. InvWalk'
    BY <1>9 DEF InvWalk, FetchLevel
  <1>11. InvStored'
    BY DEF Inv, InvStored, FetchLevel
  <1> QED BY <1>10, <1>11 DEF Inv, FetchLevel

LEMMA FetchTreeKeeps == Inv /\ FetchTree => Inv'
  <1> SUFFICES ASSUME Inv, FetchTree PROVE Inv'
    OBVIOUS
  <1> DEFINE D == Dirs(source)
  <1>1. Proper(source) /\ source' = source
    BY DirectoriesAreProper DEF Inv, FetchTree
  <1>2. PICK n \in Nat : WalkedTo(n)
    BY DEF Inv, InvWalk, FetchTree
  <1>3. Above(source, n) \in SUBSET D /\ D \in SUBSET Dirs(source)
    BY DEF Above
  <1>4. Reached(source) = Entries(source, D)
    BY <1>1, ReachedIsAll
  <1>5. Above(source, n) \cup D = D
    BY <1>3
  <1>6. PICK m \in Nat : AtLevel(source, m) = {} /\ Above(source, m) = D
    <2>1. PICK deep \in DOMAIN source : IsDeepest(source, deep)
      BY <1>1 DEF Proper
    <2>2. \A p \in DOMAIN source : Len(p) \in Nat
      BY <1>1, ChildOf DEF Proper
    <2>3. \A p \in D : Len(p) \in Nat /\ Len(p) <= Len(deep)
      BY <2>1, <2>2 DEF IsDeepest, Dirs
    <2>4. Len(deep) + 1 \in Nat
      BY <2>2
    <2>5. AtLevel(source, Len(deep) + 1) = {} /\ Above(source, Len(deep) + 1) = D
      BY <2>2, <2>3 DEF AtLevel, Above
    <2> QED BY <2>4, <2>5
  <1> HIDE DEF D
  <1>7. out' = Shown(source, D)
    <2>1. out' = WithLevel(Entries(source, D), Shown(source, Above(source, n)))
      BY <1>2, <1>4 DEF FetchTree, WalkedTo
    <2> QED BY <1>1, <1>3, <1>5, <2>1, LevelShown
  <1>8. targets' = ToWrite(source, D)
    <2>1. targets' = UNION {TargetsAt(e[1], e[2]) : e \in Entries(source, D)}
      BY <1>4 DEF FetchTree
    <2> QED BY <1>1, <1>3, <2>1, NextTargets
  <1>9. frontier' = Entries(source, AtLevel(source, m))
    BY <1>6 DEF FetchTree, Entries
  <1>10. WalkedTo(m)'
    BY <1>1, <1>6, <1>7, <1>8, <1>9 DEF WalkedTo
  <1>11. pc' = pc /\ pc = "fetch" /\ by' = by /\ cas' = cas /\ missing' = missing
    BY DEF FetchTree
  <1>12. InvWalk'
    BY <1>10, <1>11 DEF InvWalk
  <1>13. InvStored'
    BY <1>1, <1>11 DEF Inv, InvStored
  <1> QED BY <1>1, <1>11, <1>12, <1>13 DEF Inv

LEMMA BlobGoneKeeps == Inv /\ BlobGone => Inv'
  <1> SUFFICES ASSUME Inv, BlobGone PROVE Inv'
    OBVIOUS
  <1>1. PICK n \in Nat : WalkedTo(n)
    BY DEF Inv, InvWalk, BlobGone
  <1>2. Wanted \subseteq Blobs(source)
    BY <1>1, WantedWasSent DEF Inv
  <1>3. missing' \subseteq Evictable
    BY <1>2 DEF Inv, InvStored, BlobGone
  <1>4. WalkedTo(n)'
    BY <1>1 DEF WalkedTo, BlobGone
  <1>5. InvWalk'
    BY <1>4 DEF InvWalk, BlobGone
  <1>6. InvStored'
    BY <1>3 DEF InvStored, BlobGone
  <1> QED BY <1>5, <1>6 DEF Inv, BlobGone

LEMMA WriteFilesKeeps == Inv /\ WriteFiles => Inv'
  <1> SUFFICES ASSUME Inv, WriteFiles PROVE Inv'
    OBVIOUS
  <1>1. Proper(source) /\ source' = source
    BY DirectoriesAreProper DEF Inv, WriteFiles
  <1>2. PICK n \in Nat : WalkedTo(n)
    BY DEF Inv, InvWalk, WriteFiles
  <1>3. AtLevel(source, n) = {}
    BY <1>2 DEF WriteFiles, WalkedTo, Entries
  <1>4. Above(source, n) = Dirs(source)
    BY <1>1, <1>3, NothingBelow
  <1>5. out = Shown(source, Dirs(source)) /\ targets = ToWrite(source, Dirs(source))
    BY <1>2, <1>4 DEF WalkedTo
  <1>6. out' = Written(source)
    BY <1>5 DEF WriteFiles, Written
  <1>7. InvWalk'
    BY <1>1, <1>5, <1>6 DEF InvWalk, WriteFiles
  <1>8. InvStored'
    BY DEF InvStored, WriteFiles
  <1> QED BY <1>7, <1>8 DEF Inv, WriteFiles

LEMMA EvictKeeps == Inv /\ Evict => Inv'
  <1> SUFFICES ASSUME Inv, Evict PROVE Inv'
    OBVIOUS
  <1>1. InvWalk'
    BY DEF Inv, InvWalk, Evict, WalkedTo
  <1>2. InvStored'
    BY DEF Inv, InvStored, Evict
  <1> QED BY <1>1, <1>2 DEF Inv, Evict

LEMMA Invariant == Spec => []Inv
  <1>1. Inv /\ [Next]_vars => Inv'
    <2>1. Inv /\ Next => Inv'
      BY FindMissingKeeps, PushKeeps, PushPartlyKeeps, FetchLevelKeeps, FetchTreeKeeps,
         BlobGoneKeeps, WriteFilesKeeps, EvictKeeps DEF Next
    <2>2. Inv /\ UNCHANGED vars => Inv'
      BY DEF vars, Inv, InvWalk, InvStored, WalkedTo
    <2> QED BY <2>1, <2>2
  <1> QED BY InitInv, <1>1, PTL DEF Spec

LEMMA FlagsAreBoolean ==
    ASSUME NEW d, NEW P, NEW t \in ToWrite(d, P)
    PROVE  t[3] \in BOOLEAN
  <1>1. PICK q \in InsideOf(d, P, "file") : t = <<q, d[q].data, d[q].mode = "owner">>
    BY DEF ToWrite
  <1>2. t[3] = (d[q].mode = "owner")
    BY <1>1
  <1>3. (d[q].mode = "owner") \in BOOLEAN
    OBVIOUS
  <1> QED BY <1>2, <1>3, Zenon

-----------------------------------------------------------------------------
(* The types: after every step what is on disk is a directory, its parents *)
(* before its entries, whichever way the download goes.                    *)
THEOREM TypeCorrect == Spec => []TypeOK
  <1>1. Inv => TypeOK
    <2> SUFFICES ASSUME Inv PROVE TypeOK
      OBVIOUS
    <2>1. Proper(source)
      BY DirectoriesAreProper DEF Inv
    <2>2. CASE pc \in {"upload", "push", "upload failed"}
      <3>1. out = Shown(source, Above(source, 0)) /\ targets = {}
        BY <2>1, <2>2, FirstLevel DEF Inv, InvWalk
      <3>2. out = [p \in {} |-> Dir] \/ IsDirectory(out)
        BY <2>1, <3>1, ShownIsDirectory
      <3> QED BY <3>1, <3>2 DEF Inv, TypeOK
    <2>3. CASE pc \in {"fetch", "download failed"}
      <3>1. PICK n \in Nat : WalkedTo(n)
        BY <2>3 DEF Inv, InvWalk
      <3>2. out = [p \in {} |-> Dir] \/ IsDirectory(out)
        BY <2>1, <3>1, ShownIsDirectory DEF WalkedTo
      <3>3. \A t \in targets : t[3] \in BOOLEAN
        BY <3>1, FlagsAreBoolean DEF WalkedTo
      <3> QED BY <3>2, <3>3 DEF Inv, TypeOK
    <2>4. CASE pc = "done"
      <3>1. out = Written(source) /\ targets = ToWrite(source, Dirs(source))
        BY <2>4 DEF Inv, InvWalk
      <3>2. IsDirectory(out)
        BY <2>1, <3>1, WrittenIsAlike DEF Proper
      <3>3. \A t \in targets : t[3] \in BOOLEAN
        BY <3>1, FlagsAreBoolean
      <3> QED BY <3>2, <3>3 DEF Inv, TypeOK
    <2> QED BY <2>2, <2>3, <2>4 DEF Inv
  <1> QED BY Invariant, <1>1, PTL

(* A download that ends well has rebuilt what was uploaded (download.rs):  *)
(* the same paths, the same digest of the root, for every directory, by    *)
(* levels and by the Tree, and whatever the CAS has dropped.               *)
THEOREM ComesBack == Spec => []RoundTrip
  <1>1. Inv => RoundTrip
    <2> SUFFICES ASSUME Inv, pc = "done" PROVE Root(out) = Root(source) /\ DOMAIN out = DOMAIN source
      BY DEF RoundTrip
    <2>1. Proper(source) /\ out = Written(source)
      BY DirectoriesAreProper DEF Inv, InvWalk
    <2>2. Proper(out) /\ SameShape(source, out)
      BY <2>1, WrittenIsAlike
    <2>3. <<>> \in Dirs(source)
      BY <2>1, FirstLevel
    <2>4. Message(source, <<>>) = Message(out, <<>>)
      BY <2>1, <2>2, <2>3, SameMessages
    <2> QED BY <2>2, <2>4 DEF Root, SameShape
  <1> QED BY Invariant, <1>1, PTL

(* A download that fails misses a blob that the CAS itself has dropped:    *)
(* upload (upload.rs) sends every message and file the walk will ask for.  *)
THEOREM FailsForDropped == Spec => []FailsOnlyIfForgotten
  <1>1. Inv => FailsOnlyIfForgotten
    BY DEF Inv, InvStored, FailsOnlyIfForgotten
  <1> QED BY Invariant, <1>1, PTL
=============================================================================
