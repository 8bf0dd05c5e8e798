---------------------------- MODULE BatchingProofs ----------------------------
(***************************************************************************)
(* chunk_by_size and the calls made of its batches, for lists of any       *)
(* length, blobs of any size, any budget, faults and evictions.            *)
(***************************************************************************)
EXTENDS BatchClient, ListProofs

-----------------------------------------------------------------------------
(* The inductive invariant of the batches.                                 *)

(* Once the items run out, nothing is added; until then the batch being    *)
(* filled starts with the item that did not fit into the last one.         *)
Filling ==
    /\ returned => todo = <<>>
    /\ (~returned /\ batches # <<>>) =>
         /\ current # <<>>
         /\ Total(batches[Len(batches)]) + current[1].size > Budget

BatchInv == BatchingTypeOK /\ NothingMoved /\ WellCut /\ Filling

(* The inductive invariant of the calls.                                   *)

(* What the batches of the RPC under way are made of.                      *)
Argument == IF phase = "Update" THEN ToUpload ELSE blobs
ForThisCall ==
    /\ phase = "Read" <=> use # "upload"
    /\ given = ItemsOf(phase, Argument)
    /\ sent > 0 => returned
    /\ use = "write_stream" => Len(blobs) = 1

(* The blobs of the first n batches.                                       *)
BlobsUpTo(bs, n) == {b \in Blobs : \E m \in 1 .. n : \E i \in DOMAIN bs[m] : bs[m][i].blob = b}
SentBlobs == BlobsUpTo(batches, sent)

(* What the answers so far have established.                               *)
Answered ==
    /\ phase = "FindMissing" => SentBlobs \subseteq missing \cup cas \cup Evictable
    /\ phase = "Update" /\ outcome # "error" =>
         /\ ToSet(blobs) \subseteq missing \cup cas \cup Evictable
         /\ SentBlobs \subseteq cas \cup Evictable \cup omitted
    /\ phase = "Read" /\ outcome # "error" => SentBlobs \subseteq result \cup omitted
    /\ omitted # {} => MayOmit

Ended ==
    outcome = "ok" =>
      /\ returned /\ AllSent /\ phase # "FindMissing"
      /\ use = "look up" => ToSet(blobs) \subseteq result

ClientInv == TypeOK /\ BatchInv /\ ForThisCall /\ Answered /\ Ended

-----------------------------------------------------------------------------
(* The size of a batch.                                                    *)

LEMMA TotalSteps ==
    ASSUME NEW s \in Seq(Items)
    PROVE  \E f \in [0 .. Len(s) -> Nat] :
             /\ f[0] = 0
             /\ \A n \in 1 .. Len(s) : f[n] = f[n - 1] + s[n].size
             /\ Total(s) = f[Len(s)]
  <1> DEFINE N == Len(s)
             step == [n \in 1 .. N |-> [x \in Nat |-> x + s[n].size]]
             Body(f) == [n \in 0 .. N |-> IF n = 0 THEN 0 ELSE f[n - 1] + s[n].size]
  <1>1. N \in Nat /\ 0 \in Nat
    OBVIOUS
  <1>2. step \in [1 .. N -> [Nat -> Nat]]
    <2>1. \A n \in 1 .. N : s[n].size \in Nat
      <3>1. \A n \in 1 .. N : s[n] \in Items
        OBVIOUS
      <3> QED BY <3>1 DEF Items
    <2>2. \A n \in 1 .. N : [x \in Nat |-> x + s[n].size] \in [Nat -> Nat]
      BY <2>1
    <2> QED BY <2>2
  <1>3. PICK f \in [0 .. N -> Nat] :
           f[0] = 0 /\ \A n \in 1 .. N : f[n] = step[n][f[n - 1]]
    <2> DEFINE B == Nat
               none == 0
    <2>1. none \in B /\ step \in [1 .. N -> [B -> B]]
      BY <1>1, <1>2
    <2> HIDE DEF N, step, Body, B, none
    <2>2. \E f \in [0 .. N -> B] : Steps(f, N, none, step)
      BY <1>1, <2>1, RecursionUpTo
    <2> QED BY <2>2 DEF B, none, Steps
  <1>4. \A n \in 1 .. N : f[n] = f[n - 1] + s[n].size
    <2> HIDE DEF Body
    <2> SUFFICES ASSUME NEW n \in 1 .. N
                 PROVE  f[n] = f[n - 1] + s[n].size
      OBVIOUS
    <2>1. f[n - 1] \in Nat
      OBVIOUS
    <2> QED BY <1>3, <2>1
  <1>5. f = Body(f)
    <2> HIDE DEF step
    <2>1. DOMAIN Body(f) = 0 .. N /\ DOMAIN f = 0 .. N
      OBVIOUS
    <2>2. ASSUME NEW n \in 0 .. N PROVE f[n] = Body(f)[n]
      <3>1. CASE n = 0
        BY <1>3, <3>1
      <3>2. CASE n # 0
        <4>1. n \in 1 .. N
          BY <3>2
        <4> QED BY <1>4, <3>2, <4>1
      <3> QED BY <3>1, <3>2
    <2> QED
      <3>1. Body(f) = [n \in 0 .. N |-> Body(f)[n]]
        OBVIOUS
      <3>2. f = [n \in 0 .. N |-> f[n]]
        OBVIOUS
      <3> HIDE DEF Body, N
      <3> QED BY <2>2, <3>1, <3>2
  <1>6. PICK g : g = Body(g) /\ Total(s) = g[N]
    <2> HIDE DEF Body
    <2>1. (CHOOSE g : g = Body(g)) = Body(CHOOSE g : g = Body(g))
      BY <1>5
    <2> QED BY <2>1 DEF Total, Body
  <1>7. g = [n \in 0 .. N |-> g[n]]
    <2> HIDE DEF step
    <2>1. Body(g) = [n \in 0 .. N |-> Body(g)[n]]
      OBVIOUS
    <2> HIDE DEF Body
    <2> QED BY <1>6, <2>1
  <1>8. /\ g[0] = 0
        /\ \A n \in 1 .. N : g[n] = g[n - 1] + s[n].size
    <2> HIDE DEF step
    <2>1. \A n \in 0 .. N : Body(g)[n] = IF n = 0 THEN 0 ELSE g[n - 1] + s[n].size
      OBVIOUS
    <2> HIDE DEF Body
    <2>2. \A n \in 0 .. N : g[n] = IF n = 0 THEN 0 ELSE g[n - 1] + s[n].size
      BY <1>6, <2>1
    <2> HIDE DEF N
    <2>3. 0 \in 0 .. N /\ \A n \in 1 .. N : n \in 0 .. N /\ n # 0
      BY <1>1
    <2> QED BY <2>2, <2>3
  <1>9. \A n \in 0 .. N : g[n] \in Nat
    <2> DEFINE T == {n \in 0 .. N : g[n] \in Nat}
    <2> HIDE DEF Body, step
    <2>1. 0 \in T
      <3>1. g[0] \in Nat
        BY <1>1, <1>8
      <3>2. 0 \in 0 .. N
        BY <1>1
      <3> HIDE DEF N
      <3> QED BY <3>1, <3>2
    <2>2. ASSUME NEW n \in 1 .. N, n - 1 \in T PROVE n \in T
      <3>1. s[n].size \in Nat /\ g[n - 1] \in Nat /\ n \in 0 .. N
        <4>1. s[n] \in Items
          OBVIOUS
        <4> QED BY <2>2, <4>1 DEF Items
      <3>2. g[n] = g[n - 1] + s[n].size
        BY <1>8
      <3>3. g[n] \in Nat
        BY <3>1, <3>2
      <3> HIDE DEF N
      <3> QED BY <3>1, <3>3
    <2> HIDE DEF T
    <2>3. \A n \in 1 .. N : n - 1 \in T => n \in T
      BY <2>2
    <2>4. \A n \in 0 .. N : n \in T
      BY <1>1, <2>1, <2>3, CountingUp
    <2> QED BY <2>4 DEF T
  <1>10. g \in [0 .. N -> Nat]
    <2> HIDE DEF Body, step
    <2> QED BY <1>7, <1>9
  <1> QED
    <2> HIDE DEF Body, step
    <2> QED BY <1>6, <1>8, <1>10

LEMMA TotalType ==
    ASSUME NEW s \in Seq(Items)
    PROVE  Total(s) \in Nat
  <1>1. PICK f \in [0 .. Len(s) -> Nat] : Total(s) = f[Len(s)]
    BY TotalSteps
  <1>2. Len(s) \in 0 .. Len(s)
    OBVIOUS
  <1> QED BY <1>1, <1>2

LEMMA TotalNone ==
    Total(<<>>) = 0
  <1>1. <<>> \in Seq(Items) /\ Len(<<>>) = 0
    OBVIOUS
  <1>2. PICK f \in [0 .. Len(<<>>) -> Nat] :
          f[0] = 0 /\ Total(<<>>) = f[Len(<<>>)]
    BY <1>1, TotalSteps
  <1> QED BY <1>1, <1>2

LEMMA TotalAppend ==
    ASSUME NEW s \in Seq(Items), NEW x \in Items
    PROVE  Total(Append(s, x)) = Total(s) + x.size
  <1> DEFINE N == Len(s)
             more == Append(s, x)
  <1>1. /\ N \in Nat /\ Len(more) = N + 1 /\ more \in Seq(Items)
        /\ more[N + 1] = x
        /\ \A n \in 1 .. N : more[n] = s[n]
    OBVIOUS
  <1>2. PICK f \in [0 .. N -> Nat] :
          /\ f[0] = 0
          /\ \A n \in 1 .. N : f[n] = f[n - 1] + s[n].size
          /\ Total(s) = f[N]
    BY TotalSteps
  <1> HIDE DEF more
  <1>3. PICK g \in [0 .. Len(more) -> Nat] :
          /\ g[0] = 0
          /\ \A n \in 1 .. Len(more) : g[n] = g[n - 1] + more[n].size
          /\ Total(more) = g[Len(more)]
    BY <1>1, TotalSteps
  <1> DEFINE T == {n \in 0 .. N : g[n] = f[n]}
  <1> HIDE DEF N
  <1>4. 0 \in T
    BY <1>1, <1>2, <1>3
  <1>5. ASSUME NEW n \in 1 .. N, n - 1 \in T PROVE n \in T
    <2>1. n \in 0 .. N /\ n \in 1 .. Len(more)
      BY <1>1
    <2>2. g[n] = g[n - 1] + more[n].size /\ f[n] = f[n - 1] + s[n].size
      BY <1>2, <1>3, <2>1
    <2>3. more[n] = s[n]
      BY <1>1
    <2>4. g[n - 1] = f[n - 1]
      BY <1>5
    <2> QED BY <2>1, <2>2, <2>3, <2>4
  <1>6. g[N] = f[N]
    <2>1. \A n \in 1 .. N : n - 1 \in T => n \in T
      BY <1>5
    <2> HIDE DEF T
    <2>2. \A n \in 0 .. N : n \in T
      BY <1>1, <1>4, <2>1, CountingUp
    <2>3. N \in 0 .. N
      BY <1>1
    <2> QED BY <2>2, <2>3 DEF T
  <1>7. g[N + 1] = g[N] + x.size
    <2>1. N + 1 \in 1 .. Len(more) /\ (N + 1) - 1 = N
      BY <1>1
    <2>2. g[N + 1] = g[(N + 1) - 1] + more[N + 1].size
      BY <1>3, <2>1
    <2> QED BY <1>1, <2>1, <2>2
  <1> QED BY <1>1, <1>2, <1>3, <1>6, <1>7 DEF more

LEMMA TotalOne ==
    ASSUME NEW x \in Items
    PROVE  Total(<<x>>) = x.size
  <1>1. <<>> \in Seq(Items) /\ Append(<<>>, x) = <<x>> /\ 0 + x.size = x.size
    BY DEF Items
  <1> QED BY <1>1, TotalNone, TotalAppend

-----------------------------------------------------------------------------
(* The batches.                                                            *)

(* The last of several batches, when one is added.                         *)
LEMMA OneMore ==
    ASSUME NEW A, NEW s \in Seq(A), NEW x \in A
    PROVE  /\ Append(s, x) \in Seq(A)
           /\ Len(Append(s, x)) = Len(s) + 1
           /\ DOMAIN Append(s, x) = 1 .. Len(s) + 1
           /\ DOMAIN s = 1 .. Len(s)
           /\ Append(s, x)[Len(s) + 1] = x
           /\ \A n \in 1 .. Len(s) : Append(s, x)[n] = s[n]
           /\ Append(s, x) # <<>>
           /\ s # <<>> => Append(s, x)[1] = s[1] /\ Len(s) \in 1 .. Len(s)
  <1>1. /\ Append(s, x) \in Seq(A) /\ Append(s, x) # <<>>
        /\ Len(Append(s, x)) = Len(s) + 1 /\ DOMAIN Append(s, x) = 1 .. Len(s) + 1
    <2>1. Append(s, x) \in Seq(A)
      OBVIOUS
    <2>2. Len(Append(s, x)) = Len(s) + 1
      OBVIOUS
    <2>3. DOMAIN Append(s, x) = 1 .. Len(Append(s, x))
      BY <2>1
    <2>4. Append(s, x) # <<>>
      <3>1. Len(s) + 1 # 0 /\ Len(<<>>) = 0
        OBVIOUS
      <3> QED BY <2>2, <3>1
    <2> QED BY <2>1, <2>2, <2>3, <2>4
  <1>2. /\ DOMAIN s = 1 .. Len(s)
        /\ Append(s, x)[Len(s) + 1] = x
        /\ \A n \in 1 .. Len(s) : Append(s, x)[n] = s[n]
    OBVIOUS
  <1>3. s # <<>> => Append(s, x)[1] = s[1] /\ Len(s) \in 1 .. Len(s)
    OBVIOUS
  <1> QED BY <1>1, <1>2, <1>3

LEMMA SplittingBatches ==
    ASSUME NEW list \in Seq(Items), Splitting(list)
    PROVE  BatchInv
  <1>1. BatchingTypeOK
    <2>1. current_size = Total(current)
      BY TotalNone DEF Splitting
    <2>2. given \in Seq(Items) /\ todo \in Seq(Items) /\ current \in Seq(Items)
      BY DEF Splitting
    <2>3. batches \in Seq(Seq(Items)) /\ returned \in BOOLEAN
      <3>1. <<>> \in Seq(Seq(Items))
        OBVIOUS
      <3> QED BY <3>1 DEF Splitting
    <2> QED BY <2>1, <2>2, <2>3 DEF BatchingTypeOK
  <1>2. NothingMoved
    <2>1. Joined(batches) = <<>>
      BY JoinedNone DEF Splitting
    <2> QED BY <2>1 DEF NothingMoved, Splitting
  <1>3. WellCut /\ Filling
    BY DEF WellCut, Filling, Splitting
  <1> QED BY <1>1, <1>2, <1>3 DEF BatchInv

LEMMA SplitsBatches ==
    ASSUME NEW list \in Seq(Items), Splits(list)
    PROVE  BatchInv'
  <1>1. BatchingTypeOK'
    <2>1. current_size' = Total(current')
      BY TotalNone DEF Splits
    <2>2. given' \in Seq(Items) /\ todo' \in Seq(Items) /\ current' \in Seq(Items)
      BY DEF Splits
    <2>3. batches' \in Seq(Seq(Items)) /\ returned' \in BOOLEAN
      <3>1. <<>> \in Seq(Seq(Items))
        OBVIOUS
      <3> QED BY <3>1 DEF Splits
    <2> QED BY <2>1, <2>2, <2>3 DEF BatchingTypeOK
  <1>2. NothingMoved'
    <2>1. Joined(batches') = <<>>
      BY JoinedNone DEF Splits
    <2> QED BY <2>1 DEF NothingMoved, Splits
  <1>3. WellCut' /\ Filling'
    BY DEF WellCut, Filling, Splits
  <1> QED BY <1>1, <1>2, <1>3 DEF BatchInv

LEMMA TakeItemBatches ==
    ASSUME BatchInv, TakeItem
    PROVE  BatchInv'
  <1> DEFINE item == Head(todo)
  <1> USE BudgetAssumption
  <1>1. /\ given \in Seq(Items) /\ todo \in Seq(Items) /\ current \in Seq(Items)
        /\ batches \in Seq(Seq(Items)) /\ returned = FALSE
        /\ current_size = Total(current)
    BY DEF BatchInv, BatchingTypeOK, TakeItem, Filling
  <1>2. /\ item \in Items /\ Tail(todo) \in Seq(Items)
        /\ todo = <<item>> \o Tail(todo)
        /\ todo' = Tail(todo) /\ UNCHANGED <<given, returned>>
    BY <1>1 DEF TakeItem
  <1>3. Total(current) \in Nat /\ item.size \in Nat /\ Total(<<item>>) = item.size
    BY <1>1, <1>2, TotalType, TotalOne DEF Items
  <1>4. CASE Flushes(item)
    <2>1. /\ current # <<>> /\ Total(current) + item.size > Budget
          /\ batches' = Append(batches, current)
          /\ current' = <<item>> /\ current_size' = item.size
      BY <1>1, <1>3, <1>4 DEF TakeItem, Flushes, Reset
    <2>2. BatchingTypeOK'
      <3>1. current_size' = Total(current')
        BY <1>3, <2>1
      <3>2. current' \in Seq(Items) /\ batches' \in Seq(Seq(Items))
        BY <1>1, <1>2, <2>1
      <3> QED BY <1>1, <1>2, <3>1, <3>2 DEF BatchingTypeOK
    <2>3. NothingMoved'
      <3>1. Joined(batches') = Joined(batches) \o current
        BY <1>1, <2>1, JoinedAppend
      <3>2. Joined(batches) \in Seq(Items)
        BY <1>1, JoinedType
      <3>3. (Joined(batches) \o current) \o todo = given
        BY <1>1 DEF BatchInv, NothingMoved
      <3>4. ((Joined(batches) \o current) \o <<item>>) \o Tail(todo)
              = (Joined(batches) \o current) \o (<<item>> \o Tail(todo))
        <4>1. Joined(batches) \o current \in Seq(Items) /\ <<item>> \in Seq(Items)
          BY <1>1, <1>2, <3>2
        <4>2. \A a, b, c \in Seq(Items) : (a \o b) \o c = a \o (b \o c)
          OBVIOUS
        <4> QED BY <1>2, <4>1, <4>2
      <3> QED BY <1>1, <1>2, <2>1, <3>1, <3>3, <3>4 DEF NothingMoved
    <2>4. WellCut'
      <3>1. Fits(<<item>>)
        BY DEF Fits
      <3>2. Fits(current) /\ \A n \in DOMAIN batches : Fits(batches[n])
        BY <2>1 DEF BatchInv, WellCut
      <3>3. \A n \in DOMAIN batches' : Fits(batches'[n])
        BY <1>1, <2>1, <3>2, OneMore
      <3>4. ASSUME NEW n \in DOMAIN batches', n + 1 \in DOMAIN batches'
            PROVE  Total(batches'[n]) + batches'[n + 1][1].size > Budget
        <4>1. /\ n \in 1 .. Len(batches) /\ batches'[n] = batches[n]
              /\ Len(batches) \in Nat
          BY <1>1, <2>1, <3>4, OneMore
        <4>2. CASE n = Len(batches)
          <5>1. Total(batches[n]) + current[1].size > Budget
            BY <1>1, <4>1, <4>2 DEF BatchInv, Filling
          <5>2. batches'[n + 1] = current
            BY <1>1, <2>1, <4>2, OneMore
          <5> QED BY <4>1, <5>1, <5>2
        <4>3. CASE n # Len(batches)
          <5>1. n + 1 \in 1 .. Len(batches) /\ DOMAIN batches = 1 .. Len(batches)
            BY <1>1, <4>1, <4>3
          <5>2. batches'[n + 1] = batches[n + 1]
            BY <1>1, <2>1, <5>1, OneMore
          <5>3. Total(batches[n]) + batches[n + 1][1].size > Budget
            BY <4>1, <5>1 DEF BatchInv, WellCut
          <5> QED BY <4>1, <5>2, <5>3
        <4> QED BY <4>2, <4>3
      <3>5. current' # <<>> => Fits(current')
        BY <2>1, <3>1
      <3> QED BY <3>3, <3>4, <3>5 DEF WellCut, Fits
    <2>5. Filling'
      <3>1. batches'[Len(batches')] = current
        BY <1>1, <2>1, OneMore
      <3>2. current'[1] = item /\ current' # <<>>
        BY <2>1
      <3> QED BY <1>1, <1>2, <2>1, <3>1, <3>2 DEF Filling
    <2> QED BY <2>2, <2>3, <2>4, <2>5 DEF BatchInv
  <1>5. CASE ~Flushes(item)
    <2>1. /\ current = <<>> \/ Total(current) + item.size <= Budget
          /\ UNCHANGED batches
          /\ current' = Append(current, item)
          /\ current_size' = current_size + item.size
      BY <1>1, <1>3, <1>5 DEF TakeItem, Flushes
    <2>2. Total(current') = Total(current) + item.size
      BY <1>1, <1>2, <2>1, TotalAppend
    <2>3. BatchingTypeOK'
      <3>1. current_size' = Total(current')
        BY <1>1, <2>1, <2>2
      <3>2. current' \in Seq(Items)
        BY <1>1, <1>2, <2>1
      <3> QED BY <1>1, <1>2, <2>1, <3>1, <3>2 DEF BatchingTypeOK
    <2>4. NothingMoved'
      <3>1. Joined(batches) \in Seq(Items)
        BY <1>1, JoinedType
      <3>2. (Joined(batches) \o current) \o todo = given
        BY <1>1 DEF BatchInv, NothingMoved
      <3>3. (Joined(batches) \o Append(current, item)) \o Tail(todo)
              = (Joined(batches) \o current) \o (<<item>> \o Tail(todo))
        <4>1. current \in Seq(Items) /\ item \in Items /\ Tail(todo) \in Seq(Items)
          BY <1>1, <1>2
        <4> HIDE DEF item
        <4>2. Append(current, item) = current \o <<item>> /\ <<item>> \in Seq(Items)
          BY <4>1
        <4>3. \A a, b, c \in Seq(Items) :
                (a \o b) \o c = a \o (b \o c) /\ a \o b \in Seq(Items)
          OBVIOUS
        <4> DEFINE J == Joined(batches)
                   one == <<item>>
        <4>4. J \o (current \o one) = (J \o current) \o one /\ J \o current \in Seq(Items)
          <5> HIDE DEF one, J
          <5> QED BY <3>1, <4>1, <4>2, <4>3 DEF J, one
        <4>5. ((J \o current) \o one) \o Tail(todo) = (J \o current) \o (one \o Tail(todo))
          BY <4>1, <4>2, <4>3, <4>4
        <4> HIDE DEF J
        <4> QED BY <4>2, <4>4, <4>5 DEF J
      <3> QED BY <1>1, <1>2, <2>1, <3>2, <3>3 DEF NothingMoved
    <2>5. WellCut'
      <3>1. Fits(current')
        <4>1. current' # <<>>
          BY <1>1, <1>2, <2>1, OneMore
        <4>2. CASE current = <<>>
          <5>1. Len(current') = 1
            BY <1>1, <1>2, <2>1, <4>2
          <5> QED BY <4>1, <5>1 DEF Fits
        <4>3. CASE current # <<>>
          BY <1>3, <2>1, <2>2, <4>1, <4>3 DEF Fits
        <4> QED BY <4>2, <4>3
      <3>2. /\ \A n \in DOMAIN batches : Fits(batches[n])
            /\ \A n \in DOMAIN batches : n + 1 \in DOMAIN batches =>
                 Total(batches[n]) + batches[n + 1][1].size > Budget
        BY DEF BatchInv, WellCut
      <3> QED BY <2>1, <3>1, <3>2 DEF WellCut, Fits
    <2>6. Filling'
      <3>1. current' # <<>> /\ (current # <<>> => current'[1] = current[1])
        BY <1>1, <1>2, <2>1, OneMore
      <3>2. batches # <<>> => /\ current # <<>>
                              /\ Total(batches[Len(batches)]) + current[1].size > Budget
        BY <1>1 DEF BatchInv, Filling
      <3> QED BY <1>1, <1>2, <2>1, <3>1, <3>2 DEF Filling
    <2> QED BY <2>3, <2>4, <2>5, <2>6 DEF BatchInv
  <1> QED BY <1>4, <1>5

LEMMA ReturnBatches ==
    ASSUME BatchInv, Return
    PROVE  BatchInv'
  <1>1. /\ given \in Seq(Items) /\ todo = <<>> /\ current \in Seq(Items)
        /\ batches \in Seq(Seq(Items)) /\ ~returned /\ returned' = TRUE
        /\ UNCHANGED <<given, todo, current, current_size>>
        /\ current_size = Total(current)
    BY DEF BatchInv, BatchingTypeOK, Return
  <1>2. Joined(batches) \in Seq(Items) /\ Joined(batches) \o current = given
    <2>1. Joined(batches) \in Seq(Items)
      BY <1>1, JoinedType
    <2>2. (Joined(batches) \o current) \o <<>> = given
      BY <1>1 DEF BatchInv, NothingMoved
    <2> QED BY <1>1, <2>1, <2>2
  <1>3. CASE current = <<>>
    <2>1. batches' = batches
      BY <1>3 DEF Return, AllBatches
    <2>2. NothingMoved'
      <3>1. (Joined(batches) \o <<>>) \o <<>> = given
        BY <1>1, <1>2, <1>3
      <3> QED BY <1>1, <2>1, <3>1 DEF NothingMoved
    <2>3. BatchingTypeOK' /\ Filling'
      BY <1>1, <2>1 DEF BatchInv, BatchingTypeOK, Filling
    <2>4. WellCut'
      BY <1>1, <2>1 DEF BatchInv, WellCut, Fits
    <2> QED BY <2>2, <2>3, <2>4 DEF BatchInv
  <1>4. CASE current # <<>>
    <2>1. batches' = Append(batches, current) /\ batches' \in Seq(Seq(Items))
      BY <1>1, <1>4 DEF Return, AllBatches
    <2>2. NothingMoved'
      <3>1. Joined(batches') = given
        BY <1>1, <1>2, <2>1, JoinedAppend
      <3>2. (given \o <<>>) \o <<>> = given
        BY <1>1
      <3> QED BY <1>1, <3>1, <3>2 DEF NothingMoved
    <2>3. BatchingTypeOK' /\ Filling'
      BY <1>1, <2>1 DEF BatchInv, BatchingTypeOK, Filling
    <2>4. WellCut'
      <3>1. Fits(current) /\ \A n \in DOMAIN batches : Fits(batches[n])
        BY <1>4 DEF BatchInv, WellCut
      <3>2. \A n \in DOMAIN batches' : Fits(batches'[n])
        BY <1>1, <2>1, <3>1, OneMore
      <3>3. ASSUME NEW n \in DOMAIN batches', n + 1 \in DOMAIN batches'
            PROVE  Total(batches'[n]) + batches'[n + 1][1].size > Budget
        <4>1. /\ n \in 1 .. Len(batches) /\ batches'[n] = batches[n]
              /\ Len(batches) \in Nat
          BY <1>1, <2>1, <3>3, OneMore
        <4>2. CASE n = Len(batches)
          <5>1. Total(batches[n]) + current[1].size > Budget
            BY <1>1, <4>1, <4>2 DEF BatchInv, Filling
          <5>2. batches'[n + 1] = current
            BY <1>1, <2>1, <4>2, OneMore
          <5> QED BY <4>1, <5>1, <5>2
        <4>3. CASE n # Len(batches)
          <5>1. n + 1 \in 1 .. Len(batches) /\ DOMAIN batches = 1 .. Len(batches)
            BY <1>1, <4>1, <4>3
          <5>2. batches'[n + 1] = batches[n + 1]
            BY <1>1, <2>1, <5>1, OneMore
          <5>3. Total(batches[n]) + batches[n + 1][1].size > Budget
            BY <4>1, <5>1 DEF BatchInv, WellCut
          <5> QED BY <4>1, <5>2, <5>3
        <4> QED BY <4>2, <4>3
      <3> QED BY <1>1, <3>1, <3>2, <3>3 DEF WellCut, Fits
    <2> QED BY <2>2, <2>3, <2>4 DEF BatchInv
  <1> QED BY <1>3, <1>4

LEMMA BatchesAtRest ==
    ASSUME BatchInv, UNCHANGED batchingVars
    PROVE  BatchInv'
  BY DEF BatchInv, BatchingTypeOK, NothingMoved, WellCut, Fits, Filling, batchingVars

-----------------------------------------------------------------------------
(* The blobs of the batches.                                               *)

LEMMA ItemsTyped ==
    ASSUME NEW p, NEW list \in Seq(Blobs)
    PROVE  ItemsOf(p, list) \in Seq(Items)
  <1>1. \A b \in Blobs : ToItem(p, b) \in Items
    BY SizeAssumption DEF ToItem, Items
  <1>2. DOMAIN list = 1 .. Len(list) /\ \A n \in 1 .. Len(list) : list[n] \in Blobs
    OBVIOUS
  <1>3. Len(list) \in Nat
    OBVIOUS
  <1>4. ItemsOf(p, list) \in [1 .. Len(list) -> Items]
    BY <1>1, <1>2 DEF ItemsOf
  <1> QED BY <1>3, <1>4

LEMMA UploadTyped ==
    ASSUME blobs \in Seq(Blobs)
    PROVE  ToUpload \in Seq(Blobs) /\ ToSet(ToUpload) = ToSet(blobs) \cap missing
  <1>1. Selected(blobs, missing) \in Seq(Blobs)
    BY SelectedPlaces
  <1>2. Members(Selected(blobs, missing)) = Members(blobs) \cap missing
    BY SelectedItems
  <1> QED BY <1>1, <1>2 DEF ToUpload, ToSet, Members

(* All the batches together have the blobs of the list they were cut from. *)
LEMMA BatchesHold ==
    ASSUME NEW bs \in Seq(Seq(Items)), NEW p, NEW list \in Seq(Blobs),
           Joined(bs) = ItemsOf(p, list)
    PROVE  BlobsUpTo(bs, Len(bs)) = ToSet(list)
  <1>1. DOMAIN bs = 1 .. Len(bs) /\ DOMAIN list = 1 .. Len(list)
    OBVIOUS
  <1>2. /\ DOMAIN ItemsOf(p, list) = DOMAIN list
        /\ \A j \in DOMAIN list : ItemsOf(p, list)[j].blob = list[j]
        /\ \A j \in DOMAIN list : list[j] \in Blobs
    BY DEF ItemsOf, ToItem
  <1>3. Members(ItemsOf(p, list)) = UNION {Members(bs[n]) : n \in DOMAIN bs}
    BY JoinedItems
  <1>4. ASSUME NEW m \in 1 .. Len(bs), NEW i \in DOMAIN bs[m]
        PROVE  bs[m][i].blob \in ToSet(list)
    <2>1. bs[m][i] \in Members(bs[m])
      BY DEF Members
    <2>2. bs[m][i] \in Members(ItemsOf(p, list))
      BY <1>1, <1>3, <2>1
    <2>3. PICK j \in DOMAIN list : bs[m][i] = ItemsOf(p, list)[j]
      BY <1>2, <2>2 DEF Members
    <2> QED BY <1>2, <2>3 DEF ToSet
  <1>5. ASSUME NEW j \in DOMAIN list
        PROVE  \E m \in 1 .. Len(bs) : \E i \in DOMAIN bs[m] : bs[m][i].blob = list[j]
    <2>1. ItemsOf(p, list)[j] \in Members(ItemsOf(p, list))
      BY <1>2 DEF Members
    <2>2. PICK m \in DOMAIN bs : ItemsOf(p, list)[j] \in Members(bs[m])
      BY <1>3, <2>1
    <2>3. PICK i \in DOMAIN bs[m] : ItemsOf(p, list)[j] = bs[m][i]
      BY <2>2 DEF Members
    <2> QED BY <1>1, <1>2, <2>3
  <1>6. ASSUME NEW b \in BlobsUpTo(bs, Len(bs)) PROVE b \in ToSet(list)
    BY <1>4 DEF BlobsUpTo
  <1>7. ASSUME NEW b \in ToSet(list) PROVE b \in BlobsUpTo(bs, Len(bs))
    <2>1. PICK j \in DOMAIN list : b = list[j]
      BY DEF ToSet
    <2> QED BY <1>2, <1>5, <2>1 DEF BlobsUpTo
  <1> QED BY <1>6, <1>7

LEMMA ReadyBatches ==
    ASSUME ClientInv, returned
    PROVE  /\ BlobsUpTo(batches, Len(batches)) = ToSet(Argument)
           /\ phase # "Update" => ToSet(Argument) = ToSet(blobs)
           /\ phase = "Update" => ToSet(Argument) = ToSet(blobs) \cap missing
  <1>1. /\ batches \in Seq(Seq(Items)) /\ given \in Seq(Items) /\ todo = <<>>
        /\ blobs \in Seq(Blobs) /\ given = ItemsOf(phase, Argument)
    BY DEF ClientInv, BatchInv, Filling, BatchingTypeOK, TypeOK, ForThisCall
  <1>2. Argument \in Seq(Blobs)
    BY <1>1, UploadTyped DEF Argument
  <1>3. Joined(batches) = given
    <2>1. Joined(batches) \in Seq(Items)
      BY <1>1, JoinedType
    <2>2. (Joined(batches) \o <<>>) \o <<>> = given
      BY <1>1 DEF ClientInv, BatchInv, NothingMoved
    <2> QED BY <2>1, <2>2
  <1>4. BlobsUpTo(batches, Len(batches)) = ToSet(Argument)
    BY <1>1, <1>2, <1>3, BatchesHold
  <1> QED BY <1>1, <1>4, UploadTyped DEF Argument

LEMMA NextBatch ==
    ASSUME ClientInv, returned, sent < Len(batches)
    PROVE  /\ Batch \subseteq ToSet(blobs) /\ Batch # {} /\ Batch \subseteq Blobs
           /\ BlobsUpTo(batches, sent + 1) = SentBlobs \cup Batch
           /\ sent + 1 \in 0 .. Len(batches) /\ sent \in Nat
  <1>1. /\ batches \in Seq(Seq(Items)) /\ blobs \in Seq(Blobs)
        /\ sent \in 0 .. Len(batches)
    BY DEF ClientInv, TypeOK, BatchingTypeOK
  <1>2. /\ sent + 1 \in 1 .. Len(batches) /\ sent \in Nat /\ sent + 1 \in 0 .. Len(batches)
        /\ \A m : m \in 1 .. sent + 1 <=> m \in 1 .. sent \/ m = sent + 1
        /\ DOMAIN batches = 1 .. Len(batches)
    BY <1>1
  <1> DEFINE b == batches[sent + 1]
  <1>3. b \in Seq(Items) /\ b # <<>>
    BY <1>1, <1>2 DEF ClientInv, BatchInv, WellCut, Fits
  <1>4. \A i \in DOMAIN b : b[i].blob \in Blobs
    <2>1. \A i \in DOMAIN b : b[i] \in Items
      BY <1>3
    <2> QED BY <2>1 DEF Items
  <1>5. Batch # {} /\ Batch \subseteq Blobs
    <2>1. 1 \in DOMAIN b
      BY <1>3
    <2> QED BY <1>4, <2>1 DEF Batch
  <1>6. BlobsUpTo(batches, sent + 1) = SentBlobs \cup Batch
    BY <1>2, <1>4 DEF BlobsUpTo, SentBlobs, Batch
  <1>7. Batch \subseteq BlobsUpTo(batches, Len(batches))
    BY <1>2, <1>4 DEF BlobsUpTo, Batch
  <1> QED BY <1>2, <1>5, <1>6, <1>7, ReadyBatches

-----------------------------------------------------------------------------
(* The calls.                                                              *)

LEMMA ClientStarts ==
    Init => ClientInv
  <1> SUFFICES ASSUME Init PROVE ClientInv
    OBVIOUS
  <1>1. blobs \in Seq(Blobs)
    BY ListsAssumption DEF Init
  <1>2. BatchInv
    BY <1>1, ItemsTyped, SplittingBatches DEF Init
  <1>3. batches \in Seq(Seq(Items))
    BY <1>2 DEF BatchInv, BatchingTypeOK
  <1>4. TypeOK
    <2>1. 0 \in 0 .. Len(batches) /\ 0 \in 0 .. MaxFaults
      BY <1>3, FaultsAssumption
    <2> QED BY <1>1, <1>2, <2>1 DEF Init, TypeOK, BatchInv
  <1>5. ForThisCall
    BY DEF Init, ForThisCall, Argument, Splitting
  <1>6. SentBlobs = {}
    BY DEF Init, SentBlobs, BlobsUpTo
  <1> QED BY <1>2, <1>4, <1>5, <1>6 DEF ClientInv, Answered, Ended, Init

LEMMA SplitKeeps ==
    ASSUME ClientInv, Split
    PROVE  ClientInv'
  <1>1. /\ outcome = "none" /\ (TakeItem \/ Return)
        /\ UNCHANGED <<use, blobs, phase, sent, missing, result, outcome, cas, touched, omitted, lost, faults>>
    BY DEF Split, clientVars, history
  <1>2. BatchInv'
    BY <1>1, TakeItemBatches, ReturnBatches DEF ClientInv
  <1>3. returned = FALSE
    BY <1>1 DEF TakeItem, Return, ClientInv, BatchInv, Filling, BatchingTypeOK
  <1>4. sent = 0 /\ given' = given
    BY <1>1, <1>3 DEF ClientInv, ForThisCall, TypeOK, TakeItem, Return
  <1>5. TypeOK'
    <2>1. batches' \in Seq(Seq(Items)) /\ BatchingTypeOK'
      BY <1>2 DEF BatchInv, BatchingTypeOK
    <2>2. 0 \in 0 .. Len(batches')
      BY <2>1
    <2> QED BY <1>1, <1>4, <2>1, <2>2 DEF ClientInv, TypeOK
  <1>6. ToUpload' = ToUpload
    BY <1>1 DEF ToUpload
  <1>7. ForThisCall'
    BY <1>1, <1>4, <1>6 DEF ClientInv, ForThisCall, Argument, ItemsOf
  <1>8. SentBlobs' = {} /\ SentBlobs = {}
    BY <1>1, <1>4 DEF SentBlobs, BlobsUpTo
  <1>9. Answered' /\ Ended'
    <2>1. ToSet(blobs)' = ToSet(blobs)
      BY <1>1 DEF ToSet
    <2>2. Answered'
      BY <1>1, <1>8, <2>1 DEF ClientInv, Answered
    <2>3. Ended'
      <3>1. outcome' = "none"
        BY <1>1
      <3> QED BY <3>1 DEF Ended
    <2> QED BY <2>2, <2>3
  <1> QED BY <1>2, <1>5, <1>7, <1>9 DEF ClientInv

(* An answer to a batch: the batches are as they were, and what is sent    *)
(* grows by one of them.                                                   *)
LEMMA AnswerFrame ==
    ASSUME ClientInv, \E p \in {"FindMissing", "Update", "Read"} : Asks(p),
           UNCHANGED <<batchingVars, use, blobs, phase>>, sent' = sent + 1,
           phase = "Update" => UNCHANGED missing
    PROVE  /\ BatchInv' /\ ForThisCall' /\ sent' \in 0 .. Len(batches')
           /\ SentBlobs' = SentBlobs \cup Batch
           /\ Batch \subseteq ToSet(blobs) /\ Batch # {} /\ Batch \subseteq Blobs
           /\ outcome = "none" /\ returned
  <1>1. returned /\ sent < Len(batches) /\ outcome = "none"
    BY DEF Asks
  <1>2. BatchInv' /\ batches' = batches
    BY BatchesAtRest DEF ClientInv, batchingVars
  <1>3. /\ Batch \subseteq ToSet(blobs) /\ Batch # {} /\ Batch \subseteq Blobs
        /\ BlobsUpTo(batches, sent + 1) = SentBlobs \cup Batch
        /\ sent + 1 \in 0 .. Len(batches) /\ sent \in Nat
    BY <1>1, NextBatch
  <1>4. SentBlobs' = BlobsUpTo(batches, sent + 1)
    BY <1>2 DEF SentBlobs, BlobsUpTo
  <1>5. phase = "Update" => ToUpload' = ToUpload
    BY DEF ToUpload
  <1>6. ForThisCall'
    BY <1>1, <1>5 DEF ClientInv, ForThisCall, Argument, ItemsOf, batchingVars
  <1> QED BY <1>1, <1>2, <1>3, <1>4, <1>6

LEMMA FindMissingKeeps ==
    ASSUME ClientInv, FindMissing
    PROVE  ClientInv'
  <1>1. /\ phase = "FindMissing" /\ missing' = missing \cup (Batch \ cas)
        /\ UNCHANGED <<batchingVars, use, blobs, phase, result, outcome, cas, touched, omitted, lost, faults>>
        /\ sent' = sent + 1 /\ Asks("FindMissing")
    BY DEF FindMissing, Asks, history
  <1>2. /\ BatchInv' /\ ForThisCall' /\ sent' \in 0 .. Len(batches')
        /\ SentBlobs' = SentBlobs \cup Batch
        /\ Batch \subseteq Blobs /\ outcome = "none"
    BY <1>1, AnswerFrame
  <1>3. TypeOK'
    BY <1>1, <1>2 DEF ClientInv, TypeOK, BatchInv
  <1>4. Answered' /\ Ended'
    BY <1>1, <1>2 DEF ClientInv, Answered, Ended
  <1> QED BY <1>2, <1>3, <1>4 DEF ClientInv

LEMMA FilterKeeps ==
    ASSUME ClientInv, Filter
    PROVE  ClientInv'
  <1>1. /\ outcome = "none" /\ returned /\ phase = "FindMissing" /\ sent = Len(batches)
        /\ phase' = "Update" /\ sent' = 0
        /\ Splits(ItemsOf("Update", ToUpload))
        /\ UNCHANGED <<use, blobs, missing, result, outcome, cas, touched, omitted, lost, faults>>
    BY DEF Filter, AllSent, history
  <1>2. blobs \in Seq(Blobs) /\ ToUpload \in Seq(Blobs)
    BY UploadTyped DEF ClientInv, TypeOK
  <1>3. BatchInv'
    BY <1>1, <1>2, ItemsTyped, SplitsBatches
  <1>4. TypeOK'
    <2>1. batches' \in Seq(Seq(Items)) /\ BatchingTypeOK'
      BY <1>3 DEF BatchInv, BatchingTypeOK
    <2>2. 0 \in 0 .. Len(batches')
      BY <2>1
    <2> QED BY <1>1, <2>1, <2>2 DEF ClientInv, TypeOK
  <1>5. ForThisCall'
    <2>1. ToUpload' = ToUpload
      BY <1>1 DEF ToUpload
    <2>2. given' = ItemsOf("Update", ToUpload)
      BY <1>1 DEF Splits
    <2>3. use' = "upload"
      BY <1>1 DEF ClientInv, ForThisCall
    <2> QED BY <1>1, <2>1, <2>2, <2>3 DEF ForThisCall, Argument, ItemsOf
  <1>6. ToSet(blobs) \subseteq missing \cup cas \cup Evictable
    <2>1. SentBlobs = ToSet(blobs)
      BY <1>1, ReadyBatches DEF SentBlobs
    <2> QED BY <1>1, <2>1 DEF ClientInv, Answered
  <1>7. SentBlobs' = {}
    BY <1>1 DEF SentBlobs, BlobsUpTo
  <1>8. Answered' /\ Ended'
    BY <1>1, <1>6, <1>7 DEF ClientInv, Answered, Ended
  <1> QED BY <1>3, <1>4, <1>5, <1>8 DEF ClientInv

LEMMA UpdateKeeps ==
    ASSUME ClientInv, Update
    PROVE  ClientInv'
  <1>1. PICK failed \in SUBSET Batch, left \in SUBSET Batch :
          /\ IF failed \cup left = {} THEN faults' = faults
             ELSE faults < MaxFaults /\ faults' = faults + 1
          /\ cas' = cas \cup (Batch \ (failed \cup left))
          /\ touched' = touched \cup failed
          /\ omitted' = omitted \cup left /\ (left # {} => MayOmit)
          /\ Checked(failed \ left)
    BY DEF Update, Fault, LeavesOut
  <1>2. /\ phase = "Update" /\ Asks("Update") /\ sent' = sent + 1
        /\ UNCHANGED <<batchingVars, use, blobs, phase, missing, result, lost>>
    BY DEF Update, Asks
  <1>3. /\ BatchInv' /\ ForThisCall' /\ sent' \in 0 .. Len(batches')
        /\ SentBlobs' = SentBlobs \cup Batch
        /\ Batch \subseteq Blobs /\ Batch \subseteq ToSet(blobs) /\ outcome = "none"
    BY <1>2, AnswerFrame
  <1>4. outcome' = IF failed \ left = {} THEN "none" ELSE "error"
    BY <1>1 DEF Checked
  <1>5. TypeOK'
    <2>1. faults' \in 0 .. MaxFaults
      BY <1>1, FaultsAssumption DEF ClientInv, TypeOK
    <2>2. cas' \subseteq Blobs /\ touched' \subseteq Blobs /\ omitted' \subseteq Blobs
      BY <1>1, <1>3 DEF ClientInv, TypeOK
    <2> QED BY <1>2, <1>3, <1>4, <2>1, <2>2 DEF ClientInv, TypeOK, BatchInv
  <1>6. Answered'
    <2>1. omitted' # {} => MayOmit
      BY <1>1 DEF ClientInv, Answered
    <2>2. CASE failed \ left = {}
      <3>1. /\ ToSet(blobs) \subseteq missing \cup cas \cup Evictable
            /\ SentBlobs \subseteq cas \cup Evictable \cup omitted
        BY <1>2, <1>3 DEF ClientInv, Answered
      <3>2. cas \subseteq cas' /\ omitted \subseteq omitted' /\ Batch \subseteq cas' \cup omitted'
        BY <1>1, <2>2
      <3>3. ToSet(blobs)' = ToSet(blobs)
        BY <1>2 DEF ToSet
      <3> QED BY <1>2, <1>3, <2>1, <3>1, <3>2, <3>3 DEF Answered
    <2>3. CASE failed \ left # {}
      BY <1>2, <1>4, <2>1, <2>3 DEF Answered
    <2> QED BY <2>2, <2>3
  <1>7. Ended'
    BY <1>4 DEF Ended
  <1> QED BY <1>3, <1>5, <1>6, <1>7 DEF ClientInv

LEMMA ReadKeeps ==
    ASSUME ClientInv, Read
    PROVE  ClientInv'
  <1>1. PICK left \in SUBSET Batch :
          /\ IF left = {} THEN faults' = faults ELSE faults < MaxFaults /\ faults' = faults + 1
          /\ result' = result \cup ((Batch \cap cas) \ left)
          /\ touched' = touched \cup (Batch \ cas)
          /\ omitted' = omitted \cup left /\ (left # {} => MayOmit)
          /\ Checked(Batch \ (cas \cup left))
    BY DEF Read, Fault, LeavesOut
  <1>2. /\ phase = "Read" /\ Asks("Read") /\ sent' = sent + 1
        /\ UNCHANGED <<batchingVars, use, blobs, phase, missing, cas, lost>>
    BY DEF Read, Asks
  <1>3. /\ BatchInv' /\ ForThisCall' /\ sent' \in 0 .. Len(batches')
        /\ SentBlobs' = SentBlobs \cup Batch
        /\ Batch \subseteq Blobs /\ Batch \subseteq ToSet(blobs) /\ outcome = "none"
    BY <1>2, AnswerFrame
  <1>4. outcome' = IF Batch \ (cas \cup left) = {} THEN "none" ELSE "error"
    BY <1>1 DEF Checked
  <1>5. TypeOK'
    <2>1. faults' \in 0 .. MaxFaults
      BY <1>1, FaultsAssumption DEF ClientInv, TypeOK
    <2>2. result' \subseteq Blobs /\ touched' \subseteq Blobs /\ omitted' \subseteq Blobs
      BY <1>1, <1>3 DEF ClientInv, TypeOK
    <2> QED BY <1>2, <1>3, <1>4, <2>1, <2>2 DEF ClientInv, TypeOK, BatchInv
  <1>6. Answered'
    <2>1. omitted' # {} => MayOmit
      BY <1>1 DEF ClientInv, Answered
    <2>2. ASSUME outcome' # "error" PROVE SentBlobs' \subseteq result' \cup omitted'
      <3>1. Batch \subseteq cas \cup left
        BY <1>4, <2>2
      <3>2. SentBlobs \subseteq result \cup omitted
        BY <1>2, <1>3 DEF ClientInv, Answered
      <3> QED BY <1>1, <1>3, <3>1, <3>2
    <2> QED BY <1>2, <2>1, <2>2 DEF Answered
  <1>7. Ended'
    BY <1>4 DEF Ended
  <1> QED BY <1>3, <1>5, <1>6, <1>7 DEF ClientInv

(* A call that fails by an RPC.                                            *)
LEMMA FailingKeeps ==
    ASSUME ClientInv, outcome = "none", outcome' = "error",
           UNCHANGED <<batchingVars, use, blobs, phase, sent, missing, result, touched, omitted>>,
           cas \subseteq cas', cas' \subseteq Blobs,
           faults' \in 0 .. MaxFaults, lost' \in BOOLEAN
    PROVE  ClientInv'
  <1>1. BatchInv'
    BY BatchesAtRest DEF ClientInv
  <1>2. TypeOK'
    BY <1>1 DEF ClientInv, TypeOK, BatchInv, batchingVars
  <1>3. ForThisCall'
    <2>1. ToUpload' = ToUpload
      BY DEF ToUpload
    <2> QED BY <2>1 DEF ClientInv, ForThisCall, Argument, ItemsOf, batchingVars
  <1>4. Answered'
    <2>1. SentBlobs' = SentBlobs
      BY DEF SentBlobs, BlobsUpTo, batchingVars
    <2> QED BY <2>1 DEF ClientInv, Answered
  <1>5. Ended'
    BY DEF Ended
  <1> QED BY <1>1, <1>2, <1>3, <1>4, <1>5 DEF ClientInv

LEMMA RpcFailsKeeps ==
    ASSUME ClientInv, RpcFails
    PROVE  ClientInv'
  <1>1. /\ faults < MaxFaults /\ faults' = faults + 1 /\ outcome' = "error" /\ lost' = TRUE
        /\ UNCHANGED <<batchingVars, use, blobs, phase, sent, missing, result, touched, omitted>>
    BY DEF RpcFails, Fault
  <1>2. Batch \subseteq Blobs /\ outcome = "none"
    BY NextBatch DEF RpcFails, Asks
  <1>3. cas' \subseteq cas \cup Batch /\ cas \subseteq cas'
    <2>1. CASE phase = "Update"
      <3>1. PICK stored \in SUBSET Batch : cas' = cas \cup stored
        BY <2>1 DEF RpcFails
      <3> QED BY <3>1
    <2>2. CASE phase # "Update"
      BY <2>2 DEF RpcFails
    <2> QED BY <2>1, <2>2
  <1>4. faults' \in 0 .. MaxFaults /\ cas' \subseteq Blobs
    BY <1>1, <1>2, <1>3, FaultsAssumption DEF ClientInv, TypeOK
  <1> QED BY <1>1, <1>2, <1>3, <1>4, FailingKeeps

LEMMA RefusedKeeps ==
    ASSUME ClientInv, Refused
    PROVE  ClientInv'
  <1>1. /\ outcome = "none" /\ outcome' = "error"
        /\ UNCHANGED <<batchingVars, use, blobs, phase, sent, missing, result, cas,
                       touched, omitted, lost, faults>>
    BY DEF Refused, Asks, history
  <1>2. cas' \subseteq Blobs /\ faults' \in 0 .. MaxFaults /\ lost' \in BOOLEAN
    BY <1>1 DEF ClientInv, TypeOK
  <1> QED BY <1>1, <1>2, FailingKeeps

LEMMA DoneKeeps ==
    ASSUME ClientInv, Done
    PROVE  ClientInv'
  <1>1. /\ outcome = "none" /\ returned /\ sent = Len(batches) /\ phase \in {"Update", "Read"}
        /\ outcome' = Used
        /\ UNCHANGED <<batchingVars, use, blobs, phase, sent, missing, result, cas, touched, omitted, lost, faults>>
    BY DEF Done, AllSent, history
  <1>2. BatchInv' /\ batches' = batches /\ returned' = returned
    BY <1>1, BatchesAtRest DEF ClientInv, batchingVars
  <1>3. outcome' \in {"ok", "error"} /\ ToSet(blobs)' = ToSet(blobs)
    BY <1>1 DEF Used, ToSet
  <1>4. TypeOK'
    BY <1>1, <1>2, <1>3 DEF ClientInv, TypeOK, BatchInv
  <1>5. ForThisCall'
    <2>1. ToUpload' = ToUpload
      BY <1>1 DEF ToUpload
    <2> QED BY <1>1, <2>1 DEF ClientInv, ForThisCall, Argument, ItemsOf, batchingVars
  <1>6. Answered'
    <2>1. SentBlobs' = SentBlobs
      BY <1>1, <1>2 DEF SentBlobs, BlobsUpTo
    <2> QED BY <1>1, <1>3, <2>1 DEF ClientInv, Answered
  <1>7. Ended'
    <2>1. outcome' = "ok" => (use = "look up" => ToSet(blobs) \subseteq result)
      BY <1>1 DEF Used
    <2> QED BY <1>1, <1>2, <1>3, <2>1 DEF Ended, AllSent
  <1> QED BY <1>2, <1>4, <1>5, <1>6, <1>7 DEF ClientInv

LEMMA OthersKeep ==
    ASSUME ClientInv, UNCHANGED <<batchingVars, clientVars, history, faults>>,
           cas' \subseteq Blobs, cas \subseteq cas' \cup Evictable
    PROVE  ClientInv'
  <1>1. BatchInv' /\ batches' = batches
    BY BatchesAtRest DEF ClientInv, batchingVars
  <1>2. TypeOK'
    BY <1>1 DEF ClientInv, TypeOK, BatchInv, clientVars, history
  <1>3. ForThisCall'
    <2>1. ToUpload' = ToUpload
      BY DEF ToUpload, clientVars
    <2> QED BY <2>1 DEF ClientInv, ForThisCall, Argument, ItemsOf, batchingVars, clientVars
  <1>4. SentBlobs' = SentBlobs /\ ToSet(blobs)' = ToSet(blobs)
    BY <1>1 DEF SentBlobs, BlobsUpTo, ToSet, clientVars
  <1>5. Answered'
    BY <1>4 DEF ClientInv, Answered, clientVars, history
  <1>6. Ended'
    BY <1>4 DEF ClientInv, Ended, AllSent, batchingVars, clientVars
  <1> QED BY <1>1, <1>2, <1>3, <1>5, <1>6 DEF ClientInv

LEMMA ClientStep ==
    ClientInv /\ [Next]_vars => ClientInv'
  <1> SUFFICES ASSUME ClientInv, [Next]_vars PROVE ClientInv'
    OBVIOUS
  <1>1. CASE Client
    BY <1>1, SplitKeeps, FindMissingKeeps, FilterKeeps, UpdateKeeps, ReadKeeps, DoneKeeps
       DEF Client
  <1>2. CASE RpcFails
    BY <1>2, RpcFailsKeeps
  <1>6. CASE Refused
    BY <1>6, RefusedKeeps
  <1>3. ASSUME NEW b \in Blobs, Stored(b) PROVE ClientInv'
    <2>1. cas' \subseteq Blobs /\ cas \subseteq cas' \cup Evictable
      BY <1>3 DEF ClientInv, TypeOK, Stored
    <2> QED BY <1>3, <2>1, OthersKeep DEF Stored
  <1>4. ASSUME NEW b \in Evictable, Evict(b) PROVE ClientInv'
    <2>1. cas' \subseteq Blobs /\ cas \subseteq cas' \cup Evictable
      BY <1>4 DEF ClientInv, TypeOK, Evict
    <2> QED BY <1>4, <2>1, OthersKeep DEF Evict
  <1>5. CASE UNCHANGED vars
    <2>1. cas' \subseteq Blobs /\ cas \subseteq cas' \cup Evictable
      BY <1>5 DEF ClientInv, TypeOK, vars
    <2> QED BY <1>5, <2>1, OthersKeep DEF vars
  <1> QED BY <1>1, <1>2, <1>3, <1>4, <1>5, <1>6 DEF Next

LEMMA ClientInvariant ==
    Spec => []ClientInv
  BY ClientStarts, ClientStep, PTL DEF Spec

-----------------------------------------------------------------------------
(* Every variable of the calls and of their batches keeps its type, and    *)
(* the size that is carried along is that of the batch being filled.       *)
THEOREM TypeCorrect ==
    Spec => []TypeOK
  <1>1. ClientInv => TypeOK
    BY DEF ClientInv
  <1> QED BY <1>1, ClientInvariant, PTL

(* No item is lost, duplicated or moved by cutting a list into batches.    *)
THEOREM BatchingMovesNothing ==
    Spec => []NothingMoved
  <1>1. ClientInv => NothingMoved
    BY DEF ClientInv, BatchInv
  <1> QED BY <1>1, ClientInvariant, PTL

(* No batch is empty, none of more than one item is too large, and none is *)
(* cut short.                                                              *)
THEOREM BatchesAreWellCut ==
    Spec => []WellCut
  <1>1. ClientInv => WellCut
    BY DEF ClientInv, BatchInv
  <1> QED BY <1>1, ClientInvariant, PTL

(* What an upload that succeeds was given is on the server, unless the     *)
(* server dropped it or its answer left it out.                            *)
THEOREM UploadsStoreEverything ==
    Spec => []StoredOnSuccess
  <1>1. ClientInv => StoredOnSuccess
    <2> SUFFICES ASSUME ClientInv, use = "upload", outcome = "ok"
                 PROVE  /\ ToSet(blobs) \subseteq cas \cup Evictable \cup omitted
                        /\ omitted # {} => MayOmit
      BY DEF StoredOnSuccess
    <2>1. returned /\ sent = Len(batches) /\ phase = "Update"
      BY DEF ClientInv, Ended, AllSent, ForThisCall, TypeOK
    <2>2. SentBlobs = ToSet(blobs) \cap missing
      BY <2>1, ReadyBatches DEF SentBlobs
    <2>3. /\ ToSet(blobs) \subseteq missing \cup cas \cup Evictable
          /\ SentBlobs \subseteq cas \cup Evictable \cup omitted
          /\ omitted # {} => MayOmit
      BY <2>1 DEF ClientInv, Answered
    <2> QED BY <2>2, <2>3
  <1> QED BY <1>1, ClientInvariant, PTL

(* A download that succeeds has the content of all that was asked for; only *)
(* write_stream may do without, when the server left it out.               *)
THEOREM DownloadsReadEverything ==
    Spec => []ReadOnSuccess
  <1>1. ClientInv => ReadOnSuccess
    <2> SUFFICES ASSUME ClientInv, use # "upload", outcome = "ok",
                        ~(ToSet(blobs) \subseteq result)
                 PROVE  use = "write_stream" /\ MayOmit /\ ToSet(blobs) \subseteq omitted
      BY DEF ReadOnSuccess
    <2>1. returned /\ sent = Len(batches) /\ phase = "Read" /\ use = "write_stream"
      BY DEF ClientInv, Ended, AllSent, ForThisCall, TypeOK, Uses
    <2>2. SentBlobs = ToSet(blobs)
      BY <2>1, ReadyBatches DEF SentBlobs
    <2>3. ToSet(blobs) \subseteq result \cup omitted /\ (omitted # {} => MayOmit)
      BY <2>1, <2>2 DEF ClientInv, Answered
    <2>4. Len(blobs) = 1
      BY <2>1 DEF ClientInv, ForThisCall
    <2> QED BY <2>1, <2>3, <2>4 DEF ToSet, ClientInv, TypeOK
  <1> QED BY <1>1, ClientInvariant, PTL

-----------------------------------------------------------------------------
(* What makes a call fail.                                                 *)

(* The items of a request are those of blobs of the argument.              *)
LEMMA NextItems ==
    ASSUME ClientInv, returned, sent < Len(batches)
    PROVE  \A n \in DOMAIN batches[sent + 1] :
             \E b \in ToSet(blobs) : batches[sent + 1][n] = ToItem(phase, b)
  <1>1. /\ batches \in Seq(Seq(Items)) /\ given \in Seq(Items) /\ todo = <<>>
        /\ blobs \in Seq(Blobs) /\ given = ItemsOf(phase, Argument)
        /\ sent \in 0 .. Len(batches)
    BY DEF ClientInv, BatchInv, Filling, BatchingTypeOK, TypeOK, ForThisCall
  <1>2. sent + 1 \in DOMAIN batches
    BY <1>1
  <1>3. Joined(batches) = given
    <2>1. Joined(batches) \in Seq(Items)
      BY <1>1, JoinedType
    <2>2. (Joined(batches) \o <<>>) \o <<>> = given
      BY <1>1 DEF ClientInv, BatchInv, NothingMoved
    <2> QED BY <2>1, <2>2
  <1>4. Members(given) = UNION {Members(batches[n]) : n \in DOMAIN batches}
    BY <1>1, <1>3, JoinedItems
  <1>5. ToSet(Argument) \subseteq ToSet(blobs)
    BY ReadyBatches
  <1> SUFFICES ASSUME NEW n \in DOMAIN batches[sent + 1]
               PROVE  \E b \in ToSet(blobs) : batches[sent + 1][n] = ToItem(phase, b)
    OBVIOUS
  <1>6. batches[sent + 1][n] \in Members(given)
    <2>1. batches[sent + 1][n] \in Members(batches[sent + 1])
      BY DEF Members
    <2> QED BY <1>2, <1>4, <2>1
  <1>7. PICK j \in DOMAIN given : batches[sent + 1][n] = given[j]
    BY <1>6 DEF Members
  <1>8. j \in DOMAIN Argument /\ given[j] = ToItem(phase, Argument[j])
    BY <1>1, <1>7 DEF ItemsOf
  <1>9. Argument[j] \in ToSet(blobs)
    BY <1>5, <1>8 DEF ToSet
  <1> QED BY <1>7, <1>8, <1>9

(* A message has room for the encoding of whatever the budget admits; an   *)
(* item counts for at least its hash.                                      *)
Counted == {i \in Items : i.size >= HashLen}
Room ==
    \A s \in Seq(Counted) : Total(s) <= Budget => Message(s) <= Limit

(* With room, only an item that is too large by itself is refused.         *)
LEMMA RefusedAlone ==
    ASSUME ClientInv, Room, Refused
    PROVE  \E b \in ToSet(blobs) : ToItem(phase, b).size > Budget
  <1> DEFINE batch == batches[sent + 1]
  <1> USE BudgetAssumption
  <1>1. returned /\ sent < Len(batches) /\ Message(batch) > Limit
    BY DEF Refused, Asks
  <1>2. /\ batches \in Seq(Seq(Items)) /\ sent + 1 \in DOMAIN batches
        /\ batch \in Seq(Items)
    <2>1. batches \in Seq(Seq(Items)) /\ sent \in 0 .. Len(batches)
      BY DEF ClientInv, TypeOK, BatchingTypeOK
    <2> QED BY <1>1, <2>1
  <1>3. \A n \in DOMAIN batch : \E b \in ToSet(blobs) : batch[n] = ToItem(phase, b)
    BY <1>1, NextItems
  <1>4. batch \in Seq(Counted)
    <2>1. \A b \in ToSet(blobs) : b \in Blobs
      BY DEF ClientInv, TypeOK, ToSet
    <2>2. \A b \in Blobs : ToItem(phase, b) \in Counted
      BY SizeAssumption DEF ToItem, Counted, Items
    <2>3. Len(batch) \in Nat /\ batch = [n \in 1 .. Len(batch) |-> batch[n]]
          /\ DOMAIN batch = 1 .. Len(batch)
      BY <1>2
    <2>4. \A n \in 1 .. Len(batch) : batch[n] \in Counted
      BY <1>3, <2>1, <2>2, <2>3
    <2> HIDE DEF batch
    <2>5. batch \in [1 .. Len(batch) -> Counted]
      BY <2>3, <2>4
    <2> QED BY <2>3, <2>5
  <1>5. Total(batch) > Budget
    <2>1. ~(Message(batch) <= Limit)
      <3>1. Message(batch) \in Nat
        <4>1. Total(batch) \in Nat /\ Len(batch) \in Nat
          BY <1>2, TotalType
        <4>2. \A m, n \in Nat : m * n \in Nat
          OBVIOUS
        <4>3. Framing * Len(batch) \in Nat
          BY <4>1, <4>2, LimitAssumption
        <4> QED BY <4>1, <4>3 DEF Message
      <3> QED BY <1>1, <3>1, LimitAssumption
    <2>2. ~(Total(batch) <= Budget)
      BY <1>4, <2>1 DEF Room
    <2>3. Total(batch) \in Nat
      BY <1>2, TotalType
    <2> QED BY <2>2, <2>3
  <1>6. Len(batch) = 1
    <2>1. Fits(batch)
      BY <1>2 DEF ClientInv, BatchInv, WellCut
    <2>2. Total(batch) \in Nat
      BY <1>2, TotalType
    <2> QED BY <1>5, <2>1, <2>2 DEF Fits
  <1>7. batch = <<batch[1]>> /\ batch[1] \in Items /\ 1 \in DOMAIN batch
    BY <1>2, <1>6
  <1>8. batch[1].size > Budget
    <2>1. Total(batch) = batch[1].size
      <3> HIDE DEF batch
      <3> QED BY <1>7, TotalOne
    <2> QED BY <1>5, <2>1
  <1> QED BY <1>3, <1>7, <1>8

LEMMA FailuresCaused ==
    ASSUME ClientInv, Room, FailsForABlob, [Next]_vars
    PROVE  FailsForABlob'
  <1>1. CASE outcome' # "error"
    BY <1>1 DEF FailsForABlob
  <1>2. CASE Update /\ outcome' = "error"
    <2>1. PICK failed \in SUBSET Batch, left \in SUBSET Batch :
            touched' = touched \cup failed /\ Checked(failed \ left)
      BY <1>2 DEF Update
    <2>2. failed # {}
      BY <1>2, <2>1 DEF Checked
    <2>3. Batch \subseteq ToSet(blobs)
      BY <1>2, NextBatch DEF Update, Asks
    <2>4. ToSet(blobs)' = ToSet(blobs)
      BY <1>2 DEF Update, ToSet
    <2> QED BY <2>1, <2>2, <2>3, <2>4 DEF FailsForABlob
  <1>3. CASE Read /\ outcome' = "error"
    <2>1. PICK left \in SUBSET Batch :
            touched' = touched \cup (Batch \ cas) /\ Checked(Batch \ (cas \cup left))
      BY <1>3 DEF Read
    <2>2. Batch \ cas # {}
      BY <1>3, <2>1 DEF Checked
    <2>3. Batch \subseteq ToSet(blobs)
      BY <1>3, NextBatch DEF Read, Asks
    <2>4. ToSet(blobs)' = ToSet(blobs)
      BY <1>3 DEF Read, ToSet
    <2> QED BY <2>1, <2>2, <2>3, <2>4 DEF FailsForABlob
  <1>4. CASE RpcFails
    BY <1>4 DEF RpcFails, FailsForABlob
  <1>5. CASE Refused
    <2>1. PICK b \in ToSet(blobs) : ToItem(phase, b).size > Budget
      BY <1>5, RefusedAlone
    <2>2. ToSet(blobs)' = ToSet(blobs) /\ phase' = phase
      BY <1>5 DEF Refused, ToSet
    <2>3. \E c \in ToSet(blobs)' : ToItem(phase', c).size > Budget
      BY <2>1, <2>2
    <2> QED BY <2>3 DEF FailsForABlob, ToItem
  <1>6. CASE Done /\ outcome' = "error"
    <2>1. /\ outcome = "none" /\ returned /\ sent = Len(batches)
          /\ use = "look up" /\ ~(ToSet(blobs) \subseteq result)
          /\ UNCHANGED <<blobs, touched, omitted>>
      BY <1>6 DEF Done, AllSent, Used, history
    <2>2. phase = "Read" /\ SentBlobs = ToSet(blobs)
      <3>1. phase = "Read"
        BY <2>1 DEF ClientInv, ForThisCall
      <3> QED BY <2>1, <3>1, ReadyBatches DEF SentBlobs
    <2>3. SentBlobs \subseteq result \cup omitted
      BY <2>1, <2>2 DEF ClientInv, Answered
    <2>4. ToSet(blobs)' = ToSet(blobs)
      BY <2>1 DEF ToSet
    <2> QED BY <2>1, <2>2, <2>3, <2>4 DEF FailsForABlob
  <1>7. CASE /\ outcome' = outcome
             /\ UNCHANGED <<blobs, phase, touched, omitted, lost>>
    <2>1. ToSet(blobs)' = ToSet(blobs)
      BY <1>7 DEF ToSet
    <2> QED BY <1>7, <2>1 DEF FailsForABlob, ToItem
  <1>8. CASE Split \/ (\E b \in Blobs : Stored(b)) \/ (\E b \in Evictable : Evict(b))
          \/ UNCHANGED vars
    BY <1>7, <1>8 DEF Split, Stored, Evict, vars, clientVars, history
  <1>9. CASE FindMissing \/ Filter
    <2>1. outcome' # "error"
      BY <1>9 DEF FindMissing, Filter, Asks
    <2> QED BY <1>1, <2>1
  <1> QED BY <1>1, <1>2, <1>3, <1>4, <1>5, <1>6, <1>8, <1>9 DEF Next, Client

(* Where a message has room for the encoding of what the budget admits, a  *)
(* call fails only because an RPC was lost, or for a blob that the server  *)
(* did not have, left out or failed, or that is too large by itself.       *)
THEOREM FailuresAreAboutABlob ==
    ASSUME Room
    PROVE  Spec => []FailsForABlob
  <1>1. Init => FailsForABlob
    BY DEF Init, FailsForABlob
  <1>2. ClientInv /\ FailsForABlob /\ [Next]_vars => FailsForABlob'
    BY FailuresCaused
  <1> QED BY <1>1, <1>2, ClientInvariant, PTL DEF Spec
=============================================================================
