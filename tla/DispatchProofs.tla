---------------------------- MODULE DispatchProofs ----------------------------
(***************************************************************************)
(* Proofs about Dispatch, for any list of specs, any sizes and chunks, any *)
(* number of jobs and of faults.                                           *)
(***************************************************************************)
EXTENDS Dispatch, SequenceTheorems, FiniteSetTheorems, TLAPS

(* Where a job may be.                                                     *)
Partial   == UNION {[S -> Seq(Nat)] : S \in SUBSET Streams}
Plain     == [at : {"waiting", "execute", "failed", "reported"}]
Uploading == [at : {"write"}, done : Nat, offset : Nat, got : Seq(Nat)]
Running   == [at : {"running"}, outcome : Outcomes]
Refused   == [at : {"refused"}, missing : SUBSET AllBlobs]
Fetching  == [at : {"read"}, outcome : Outcomes, output : Partial, got : Seq(Nat),
              stream : Streams]
Done      == [at : {"done"}, code : Nat, output : [Streams -> Seq(Nat)]]
Places    == Plain \cup Uploading \cup Running \cup Refused \cup Fetching \cup Done

(* The first n uploads are on the server, but for what it may drop.        *)
Stored(i, n, c) == \A k \in 1 .. n : Uploads(i)[k] \in c \cup Evictable

Digests(o)   == {s \in Streams : o[s].held = "digest"}
Succeeded(o) == o.status = 0 /\ o.hasResult

(* What holds of job i when it is at j: e is what it left executed, h the  *)
(* arguments harmed so far, c what is on the server.                       *)
FitUpload(i, j, c) ==
    /\ j.done < Len(Uploads(i)) /\ Stored(i, j.done, c)
    /\ j.got = Bytes(j.offset)
    /\ j.offset = 0 \/ j.offset < Size[Uploads(i)[j.done + 1]]

FitFetch(i, j, e, h) ==
    /\ e = <<j.outcome>> /\ Succeeded(j.outcome)
    /\ j.stream \in Digests(j.outcome) /\ j.stream \notin DOMAIN j.output
    /\ DOMAIN j.output \subseteq Digests(j.outcome)
    /\ \A s \in DOMAIN j.output : j.output[s] = Bytes(j.outcome[s].size)
    /\ Len(j.got) <= j.outcome[j.stream].size
    /\ i \in h \/ j.got = Bytes(Len(j.got))

FitDone(j, e) ==
    /\ Len(e) = 1 /\ Succeeded(e[1])
    /\ j.code = e[1].code /\ j.output = Produced(e[1])

FitFailed(i, e, h) == ~Spec[i].usable \/ i \in h \/ (e # <<>> /\ ~Succeeded(e[1]))

Fit(i, j, e, h, c) ==
    /\ e \in Seq(Outcomes) /\ Len(e) <= 1
    /\ j.at \in {"waiting", "write", "execute", "refused"} => e = <<>>
    /\ j.at = "write"   => FitUpload(i, j, c)
    /\ j.at = "execute" => Stored(i, Len(Uploads(i)), c)
    /\ j.at = "running" => e = <<j.outcome>>
    /\ j.at = "refused" => i \in h /\ j.missing \subseteq Evictable
    /\ j.at = "read"    => FitFetch(i, j, e, h)
    /\ j.at = "done"    => FitDone(j, e)
    /\ j.at = "failed"  => FitFailed(i, e, h)

AllFit == \A i \in Args : Fit(i, job[i], executed[i], harmed, cas)

(* What was on the server from the beginning.                              *)
Kept == EmptyBlob \in cas \cup Evictable /\ \A i \in Args : Spec[i].present \subseteq cas \cup Evictable

(* Every argument that was reported has its one report.                    *)
ReportOf == [arg : Args, read : {TRUE}, ok : BOOLEAN, output : [Streams -> Seq(Nat)]]
            \cup [arg : Args, read : {FALSE}, ok : {FALSE}]
OneReport ==
    /\ reports \in Seq(ReportOf)
    /\ \A n \in DOMAIN reports : job[reports[n].arg].at = "reported"
    /\ \A m, n \in DOMAIN reports : reports[m].arg = reports[n].arg => m = n
    /\ \A i \in Args : job[i].at = "reported" => \E n \in DOMAIN reports : reports[n].arg = i
    /\ hadFailure <=> \E n \in DOMAIN reports : ~reports[n].ok

EndsRight ==
    exit \in {"SUCCESS", "FAILURE"} =>
      /\ \A i \in Args : job[i].at = "reported"
      /\ exit = "SUCCESS" <=> ~hadFailure

IInv == TypeOK /\ job \in [Args -> Places] /\ Kept /\ AllFit /\ OneReport /\ ReportsTell /\ EndsRight

-----------------------------------------------------------------------------
(* Facts about the operators.                                              *)

LEMMA Constants ==
    /\ Args = 1 .. Len(Spec) /\ Len(Spec) \in Nat /\ EmptyBlob \in Blobs
    /\ \A i \in Args : /\ Spec[i].usable \in BOOLEAN /\ Spec[i].mounted \in BOOLEAN
                       /\ Spec[i].root \in Blobs /\ Spec[i].dirs \in Seq(Blobs)
                       /\ Spec[i].present \subseteq Blobs
                       /\ Spec[i].mounted => Spec[i].root \in Spec[i].present
    /\ Jobs \in Nat /\ MaxFaults \in Nat /\ ChunkSize \in Nat \ {0}
    /\ Size \in [AllBlobs -> Nat]
    /\ \A o \in Outcomes : /\ o.status \in Nat /\ o.hasResult \in BOOLEAN /\ o.code \in Nat
                           /\ \A s \in Streams : o[s].held \in Held /\ o[s].size \in Nat
  <1>1. Args = 1 .. Len(Spec) /\ Len(Spec) \in Nat
    BY SpecAssumption DEF Args
  <1>2. \A i \in Args : Spec[i] \in [usable : BOOLEAN, mounted : BOOLEAN, root : Blobs,
                                      dirs : Seq(Blobs), present : SUBSET Blobs]
    <2>1. \A i \in 1 .. Len(Spec) : Spec[i] \in [usable : BOOLEAN, mounted : BOOLEAN, root : Blobs,
                                               dirs : Seq(Blobs), present : SUBSET Blobs]
      BY SpecAssumption, ElementOfSeq
    <2> QED BY <1>1, <2>1
  <1> QED BY <1>1, <1>2, SpecAssumption, OutcomesAssumption, BoundsAssumption

LEMMA BytesType ==
    ASSUME NEW n \in Nat
    PROVE  /\ Bytes(n) \in Seq(Nat) /\ Len(Bytes(n)) = n
           /\ \A k \in 1 .. n : Bytes(n)[k] = k
  BY DEF Bytes

(* What follows the first a of n bytes, up to the b-th.                    *)
LEMMA SliceType ==
    ASSUME NEW n \in Nat, NEW a \in 0 .. n, NEW b \in a .. n
    PROVE  /\ SubSeq(Bytes(n), a + 1, b) \in Seq(Nat)
           /\ Len(SubSeq(Bytes(n), a + 1, b)) = b - a
           /\ \A k \in 1 .. b - a : SubSeq(Bytes(n), a + 1, b)[k] = a + k
  <1>1. \A k \in a + 1 .. b : Bytes(n)[k] \in Nat /\ Bytes(n)[k] = k
    BY BytesType
  <1>2. a + 1 \in Int /\ b \in Int
    OBVIOUS
  <1> DEFINE s == SubSeq(Bytes(n), a + 1, b)
  <1>3. /\ s \in Seq(Nat) /\ Len(s) = IF a + 1 <= b THEN b - (a + 1) + 1 ELSE 0
        /\ \A k \in 1 .. b - (a + 1) + 1 : s[k] = Bytes(n)[a + 1 + k - 1]
    BY <1>1, <1>2, SubSeqProperties
  <1> HIDE DEF s
  <1>4. Len(s) = b - a /\ \A k \in 1 .. b - a : s[k] = Bytes(n)[a + k]
    BY <1>3
  <1>5. \A k \in 1 .. b - a : a + k \in a + 1 .. b
    OBVIOUS
  <1>6. \A k \in 1 .. b - a : s[k] = a + k
    BY <1>1, <1>4, <1>5
  <1> QED BY <1>3, <1>4, <1>6 DEF s

(* Cutting a blob into chunks and joining them again gives the blob.       *)
LEMMA Joined ==
    ASSUME NEW n \in Nat, NEW a \in 0 .. n, NEW b \in a .. n
    PROVE  Bytes(a) \o SubSeq(Bytes(n), a + 1, b) = Bytes(b)
  <1> DEFINE s == SubSeq(Bytes(n), a + 1, b)
             r == Bytes(a) \o s
  <1>1. s \in Seq(Nat) /\ Len(s) = b - a /\ \A k \in 1 .. b - a : s[k] = a + k
    BY SliceType
  <1>2. /\ Bytes(a) \in Seq(Nat) /\ Len(Bytes(a)) = a /\ \A k \in 1 .. a : Bytes(a)[k] = k
        /\ Bytes(b) \in Seq(Nat) /\ Len(Bytes(b)) = b /\ \A k \in 1 .. b : Bytes(b)[k] = k
    BY BytesType
  <1> HIDE DEF s
  <1>3. /\ r \in Seq(Nat) /\ Len(r) = Len(Bytes(a)) + Len(s)
        /\ \A k \in 1 .. Len(Bytes(a)) + Len(s) :
              r[k] = IF k <= Len(Bytes(a)) THEN Bytes(a)[k] ELSE s[k - Len(Bytes(a))]
    BY <1>1, <1>2, ConcatProperties
  <1> HIDE DEF r
  <1>4. Len(r) = b
    BY <1>1, <1>2, <1>3
  <1>5. \A k \in 1 .. b : r[k] = k
    <2> TAKE k \in 1 .. b
    <2>1. k \in 1 .. Len(Bytes(a)) + Len(s)
      BY <1>1, <1>2
    <2>2. CASE k <= a
      BY <1>2, <1>3, <2>1, <2>2
    <2>3. CASE k > a
      <3>1. k - a \in 1 .. b - a /\ a + (k - a) = k
        BY <2>3
      <3>2. r[k] = s[k - a]
        BY <1>2, <1>3, <2>1, <2>3
      <3> QED BY <1>1, <3>1, <3>2
    <2> QED BY <2>2, <2>3
  <1>6. r = Bytes(b)
    BY <1>2, <1>3, <1>4, <1>5, SeqEqual
  <1> QED BY <1>6 DEF r, s

LEMMA FirstN ==
    ASSUME NEW n \in Nat
    PROVE  IsFiniteSet(1 .. n) /\ Cardinality(1 .. n) = n
  <1>1. 1 \in Int /\ n \in Int
    OBVIOUS
  <1>2. /\ IsFiniteSet(1 .. n)
        /\ Cardinality(1 .. n) = IF 1 > n THEN 0 ELSE n - 1 + 1
    BY <1>1, FS_Interval, Zenon
  <1>3. (IF 1 > n THEN 0 ELSE n - 1 + 1) = n
    OBVIOUS
  <1> QED BY <1>2, <1>3

LEMMA EmptyPartial == <<>> \in Partial /\ DOMAIN <<>> = {}
  <1>1. <<>> \in [{} -> Seq(Nat)] /\ DOMAIN <<>> = {}
    OBVIOUS
  <1>2. {} \in SUBSET Streams
    OBVIOUS
  <1> QED BY <1>1, <1>2 DEF Partial

LEMMA JoinOfTwo ==
    ASSUME NEW S, NEW s \in Seq(S), NEW t \in Seq(S)
    PROVE  /\ s \o t \in Seq(S) /\ Len(s) \in Nat /\ Len(t) \in Nat
           /\ Len(s \o t) = Len(s) + Len(t)
           /\ DOMAIN (s \o t) = 1 .. Len(s) + Len(t)
           /\ \A k \in 1 .. Len(s) : (s \o t)[k] = s[k]
           /\ \A k \in 1 .. Len(t) : (s \o t)[Len(s) + k] = t[k]
  <1>1. /\ s \o t \in Seq(S) /\ Len(s \o t) = Len(s) + Len(t)
        /\ \A k \in 1 .. Len(s) + Len(t) : (s \o t)[k] = IF k <= Len(s) THEN s[k] ELSE t[k - Len(s)]
    BY ConcatProperties
  <1>2. Len(s) \in Nat /\ Len(t) \in Nat
    BY LenProperties
  <1>3. DOMAIN (s \o t) = 1 .. Len(s) + Len(t)
    BY <1>1, LenProperties
  <1>4. ASSUME NEW k \in 1 .. Len(s) PROVE (s \o t)[k] = s[k]
    BY <1>1, <1>2
  <1>5. ASSUME NEW k \in 1 .. Len(t) PROVE (s \o t)[Len(s) + k] = t[k]
    <2>1. /\ Len(s) + k \in 1 .. Len(s) + Len(t) /\ ~(Len(s) + k <= Len(s))
          /\ (Len(s) + k) - Len(s) = k
      BY <1>2
    <2>2. (s \o t)[Len(s) + k] = t[(Len(s) + k) - Len(s)]
      BY <1>1, <2>1
    <2> QED BY <2>1, <2>2
  <1> QED BY <1>1, <1>2, <1>3, <1>4, <1>5

(* Sequence u over S begins with c and a and holds what m and d hold.      *)
Joins(S, u, c, a, m, d) ==
    /\ u \in Seq(S) /\ Len(u) \in Nat /\ Len(u) >= 2 /\ DOMAIN u = 1 .. Len(u)
    /\ 1 \in DOMAIN u /\ u[1] = c /\ 2 \in DOMAIN u /\ u[2] = a
    /\ \A k \in 1 .. Len(m) : \E n \in DOMAIN u : u[n] = m[k]
    /\ \A k \in 1 .. Len(d) : \E n \in DOMAIN u : u[n] = d[k]

LEMMA JoinOfThree ==
    ASSUME NEW S, NEW c \in S, NEW a \in S, NEW m \in Seq(S), NEW d \in Seq(S)
    PROVE  Joins(S, (<<c, a>> \o m) \o d, c, a, m, d)
  <1> DEFINE u == (<<c, a>> \o m) \o d
  <1>1. <<c, a>> \in Seq(S) /\ Len(<<c, a>>) = 2 /\ <<c, a>>[1] = c /\ <<c, a>>[2] = a
    OBVIOUS
  <1>2. PICK f : f = <<c, a>> \o m
    OBVIOUS
  <1>3. /\ f \in Seq(S) /\ Len(m) \in Nat /\ Len(f) = 2 + Len(m)
        /\ f[1] = c /\ f[2] = a /\ \A k \in 1 .. Len(m) : f[2 + k] = m[k]
    BY <1>1, <1>2, JoinOfTwo
  <1>4. /\ u \in Seq(S) /\ Len(d) \in Nat /\ Len(u) = Len(f) + Len(d)
        /\ DOMAIN u = 1 .. Len(f) + Len(d)
        /\ \A k \in 1 .. Len(f) : u[k] = f[k]
        /\ \A k \in 1 .. Len(d) : u[Len(f) + k] = d[k]
    BY <1>2, <1>3, JoinOfTwo
  <1> HIDE DEF u
  <1>5. /\ Len(u) \in Nat /\ Len(u) >= 2 /\ DOMAIN u = 1 .. Len(u)
        /\ 1 \in DOMAIN u /\ 2 \in DOMAIN u /\ 1 \in 1 .. Len(f) /\ 2 \in 1 .. Len(f)
    BY <1>3, <1>4
  <1>6. u[1] = c /\ u[2] = a
    BY <1>3, <1>4, <1>5
  <1>7. ASSUME NEW k \in 1 .. Len(m) PROVE \E n \in DOMAIN u : u[n] = m[k]
    <2>1. 2 + k \in DOMAIN u /\ 2 + k \in 1 .. Len(f)
      BY <1>3, <1>4
    <2> QED BY <1>3, <1>4, <2>1
  <1>8. ASSUME NEW k \in 1 .. Len(d) PROVE \E n \in DOMAIN u : u[n] = d[k]
    <2>1. Len(f) + k \in DOMAIN u
      BY <1>3, <1>4
    <2> QED BY <1>4, <2>1
  <1>9. Joins(S, u, c, a, m, d)
    BY <1>4, <1>5, <1>6, <1>7, <1>8 DEF Joins
  <1> QED BY <1>9 DEF u

(* The Command and the Action come first; whatever the server needs is     *)
(* uploaded, or is there from the beginning.                               *)
LEMMA UploadsType ==
    ASSUME NEW i \in Args
    PROVE  /\ Uploads(i) \in Seq(AllBlobs) /\ Len(Uploads(i)) \in Nat /\ Len(Uploads(i)) >= 1
           /\ DOMAIN Uploads(i) = 1 .. Len(Uploads(i))
           /\ Needed(i) \subseteq AllBlobs
           /\ \A b \in Needed(i) : \/ \E k \in DOMAIN Uploads(i) : Uploads(i)[k] = b
                                   \/ b \in Spec[i].present \cup {EmptyBlob}
  <1>1. /\ Command(i) \in AllBlobs /\ Action(i) \in AllBlobs /\ Blobs \subseteq AllBlobs
        /\ Spec[i].root \in Blobs /\ Spec[i].dirs \in Seq(Blobs) /\ Spec[i].present \subseteq Blobs
        /\ Spec[i].mounted => Spec[i].root \in Spec[i].present
    BY Constants DEF AllBlobs
  <1>2. PICK m : m = IF Spec[i].mounted \/ Spec[i].root = EmptyBlob THEN <<>>
                     ELSE <<Spec[i].root>>
    OBVIOUS
  <1>3. m \in Seq(AllBlobs)
    BY <1>1, <1>2
  <1>4. \/ Spec[i].root \in Spec[i].present \cup {EmptyBlob}
        \/ 1 \in 1 .. Len(m) /\ m[1] = Spec[i].root
    BY <1>1, <1>2
  <1>5. Spec[i].dirs \in Seq(AllBlobs)
    BY <1>1, SeqMonotonic
  <1>6. Uploads(i) = (<<Command(i), Action(i)>> \o m) \o Spec[i].dirs
    BY <1>2 DEF Uploads
  <1> DEFINE in(b) == \E k \in DOMAIN Uploads(i) : Uploads(i)[k] = b
  <1>7. /\ Uploads(i) \in Seq(AllBlobs) /\ Len(Uploads(i)) \in Nat /\ Len(Uploads(i)) >= 2
        /\ DOMAIN Uploads(i) = 1 .. Len(Uploads(i))
        /\ in(Command(i)) /\ in(Action(i)) /\ \A k \in 1 .. Len(m) : in(m[k])
        /\ \A k \in 1 .. Len(Spec[i].dirs) : in(Spec[i].dirs[k])
    <2> HIDE DEF in
    <2>1. PICK u : u = Uploads(i)
      OBVIOUS
    <2>2. u = (<<Command(i), Action(i)>> \o m) \o Spec[i].dirs
      BY <1>6, <2>1
    <2>3. Joins(AllBlobs, u, Command(i), Action(i), m, Spec[i].dirs)
      BY <1>1, <1>3, <1>5, <2>2, JoinOfThree
    <2>4. in(Command(i)) /\ in(Action(i))
      BY <2>1, <2>3 DEF in, Joins
    <2>5. \A k \in 1 .. Len(m) : in(m[k])
      BY <2>1, <2>3 DEF in, Joins
    <2>6. \A k \in 1 .. Len(Spec[i].dirs) : in(Spec[i].dirs[k])
      BY <2>1, <2>3 DEF in, Joins
    <2> QED BY <2>1, <2>3, <2>4, <2>5, <2>6 DEF Joins
  <1>8. DOMAIN Spec[i].dirs = 1 .. Len(Spec[i].dirs) /\ ToSet(Spec[i].dirs) \subseteq AllBlobs
    BY <1>5 DEF ToSet
  <1>9. \A b \in ToSet(Spec[i].dirs) : in(b)
    BY <1>7, <1>8 DEF ToSet
  <1>10. Needed(i) = {Command(i), Action(i), Spec[i].root} \cup ToSet(Spec[i].dirs) \cup Spec[i].present
    BY DEF Needed
  <1>11. in(Spec[i].root) \/ Spec[i].root \in Spec[i].present \cup {EmptyBlob}
    BY <1>4, <1>7
  <1> HIDE DEF in
  <1>12. \A b \in Needed(i) : in(b) \/ b \in Spec[i].present \cup {EmptyBlob}
    BY <1>7, <1>9, <1>10, <1>11
  <1>13. Needed(i) \subseteq AllBlobs
    BY <1>1, <1>8, <1>10
  <1>14. Len(Uploads(i)) >= 1
    BY <1>7
  <1> QED BY <1>7, <1>12, <1>13, <1>14 DEF in

-----------------------------------------------------------------------------
(* Where a job goes, it fits.                                              *)

LEMMA PlaceOf ==
    ASSUME NEW j \in Places
    PROVE  /\ j.at \in {"waiting", "write", "execute", "running", "refused", "read", "done",
                        "failed", "reported"}
           /\ j.at = "write"   => j \in Uploading
           /\ j.at = "running" => j \in Running
           /\ j.at = "refused" => j \in Refused
           /\ j.at = "read"    => j \in Fetching
           /\ j.at = "done"    => j \in Done
  <1>1. CASE j \in Plain
    BY <1>1 DEF Plain
  <1>2. CASE j \in Uploading
    BY <1>2 DEF Uploading
  <1>3. CASE j \in Running
    BY <1>3 DEF Running
  <1>4. CASE j \in Refused
    BY <1>4 DEF Refused
  <1>5. CASE j \in Fetching
    BY <1>5 DEF Fetching
  <1>6. CASE j \in Done
    BY <1>6 DEF Done
  <1> QED BY <1>1, <1>2, <1>3, <1>4, <1>5, <1>6 DEF Places

(* Faults met by others, and a server that drops only what it may.         *)
LEMMA FitFrame ==
    ASSUME NEW i, NEW j, NEW e, NEW h, NEW c, NEW h2, NEW c2,
           Fit(i, j, e, h, c), h \subseteq h2, c \subseteq c2 \cup Evictable
    PROVE  Fit(i, j, e, h2, c2)
  <1>1. \A n : Stored(i, n, c) => Stored(i, n, c2)
    BY DEF Stored
  <1>2. i \in h => i \in h2
    OBVIOUS
  <1>3. FitUpload(i, j, c) => FitUpload(i, j, c2)
    BY <1>1 DEF FitUpload
  <1>4. FitFetch(i, j, e, h) => FitFetch(i, j, e, h2)
    BY <1>2 DEF FitFetch
  <1>5. FitFailed(i, e, h) => FitFailed(i, e, h2)
    BY <1>2 DEF FitFailed
  <1> HIDE DEF Stored
  <1> QED BY <1>1, <1>2, <1>3, <1>4, <1>5 DEF Fit

LEMMA FitUploaded ==
    ASSUME NEW i \in Args, NEW n \in 0 .. Len(Uploads(i)), NEW h, NEW c, Stored(i, n, c)
    PROVE  /\ Uploaded(i, n) \in Places /\ Uploaded(i, n).at \in {"write", "execute"}
           /\ Fit(i, Uploaded(i, n), <<>>, h, c)
  <1>1. <<>> \in Seq(Outcomes) /\ Len(<<>>) = 0 /\ Len(Uploads(i)) \in Nat
    BY UploadsType
  <1>2. CASE n < Len(Uploads(i))
    <2> DEFINE j == [at |-> "write", done |-> n, offset |-> 0, got |-> <<>>]
    <2>1. Uploaded(i, n) = j
      BY <1>2 DEF Uploaded
    <2>2. j \in Uploading
      BY <1>1 DEF Uploading
    <2>3. Bytes(0) = <<>>
      BY DEF Bytes
    <2>4. FitUpload(i, j, c)
      BY <1>2, <2>3 DEF FitUpload
    <2>5. Fit(i, j, <<>>, h, c)
      BY <1>1, <2>4 DEF Fit
    <2> QED BY <2>1, <2>2, <2>5 DEF Places
  <1>3. CASE n = Len(Uploads(i))
    <2> DEFINE j == [at |-> "execute"]
    <2>1. Uploaded(i, n) = j
      BY <1>1, <1>3 DEF Uploaded
    <2>2. j \in Plain
      BY DEF Plain
    <2>3. Fit(i, j, <<>>, h, c)
      BY <1>1, <1>3 DEF Fit
    <2> QED BY <2>1, <2>2, <2>3 DEF Places
  <1> QED BY <1>1, <1>2, <1>3

LEMMA FitFailure ==
    ASSUME NEW i, NEW e \in Seq(Outcomes), Len(e) <= 1, NEW h, NEW c, FitFailed(i, e, h)
    PROVE  Failed \in Places /\ Failed.at = "failed" /\ Fit(i, Failed, e, h, c)
  <1>1. Failed \in Plain /\ Failed.at = "failed"
    BY DEF Failed, Plain
  <1>2. Fit(i, Failed, e, h, c)
    BY <1>1 DEF Fit
  <1> QED BY <1>1, <1>2 DEF Places

(* The next stream to read is one that is still to be read; with none left *)
(* the output is what the execution produced.                              *)
LEMMA FitAfterRead ==
    ASSUME NEW i, NEW o \in Outcomes, Succeeded(o), NEW out \in Partial, NEW h, NEW c,
           DOMAIN out \subseteq Digests(o), \A s \in DOMAIN out : out[s] = Bytes(o[s].size)
    PROVE  /\ AfterRead(o, out) \in Places /\ AfterRead(o, out).at \in {"read", "done"}
           /\ Fit(i, AfterRead(o, out), <<o>>, h, c)
  <1>1. <<o>> \in Seq(Outcomes) /\ Len(<<o>>) = 1 /\ <<o>>[1] = o
    OBVIOUS
  <1>2. /\ o.code \in Nat /\ \A s \in Streams : o[s].held \in Held /\ o[s].size \in Nat
    BY Constants
  <1>3. ToRead(o, out) = Digests(o) \ DOMAIN out
    BY DEF ToRead, Digests
  <1>4. CASE ToRead(o, out) = {}
    <2> DEFINE j == [at |-> "done", code |-> o.code, output |-> Whole(o, out)]
    <2>1. AfterRead(o, out) = j
      BY <1>4 DEF AfterRead
    <2>2. \A s \in Streams : s \in DOMAIN out <=> o[s].held = "digest"
      BY <1>3, <1>4 DEF Digests
    <2>3. Whole(o, out) = Produced(o)
      <3>1. \A s \in Streams :
              (IF s \in DOMAIN out THEN out[s]
               ELSE IF o[s].held = "raw" THEN Bytes(o[s].size) ELSE <<>>)
              = (IF o[s].held = "none" THEN <<>> ELSE Bytes(o[s].size))
        BY <1>2, <2>2 DEF Held
      <3> QED BY <3>1 DEF Whole, Produced
    <2>4. Produced(o) \in [Streams -> Seq(Nat)]
      <3>1. \A s \in Streams : (IF o[s].held = "none" THEN <<>> ELSE Bytes(o[s].size)) \in Seq(Nat)
        BY <1>2, BytesType
      <3> QED BY <3>1 DEF Produced
    <2>5. j \in Done
      BY <1>2, <2>3, <2>4 DEF Done
    <2>6. FitDone(j, <<o>>)
      BY <1>1, <2>3 DEF FitDone
    <2>7. Fit(i, j, <<o>>, h, c)
      BY <1>1, <2>6 DEF Fit
    <2> QED BY <2>1, <2>5, <2>7 DEF Places
  <1>5. CASE ToRead(o, out) # {}
    <2> DEFINE s == IF "stdout" \in ToRead(o, out) THEN "stdout" ELSE "stderr"
               j == [at |-> "read", outcome |-> o, output |-> out, got |-> <<>>, stream |-> s]
    <2>1. AfterRead(o, out) = j
      BY <1>5 DEF AfterRead
    <2>2. s \in ToRead(o, out) /\ s \in Streams
      BY <1>5 DEF ToRead, Streams
    <2>3. s \in Digests(o) /\ s \notin DOMAIN out
      BY <1>3, <2>2
    <2> HIDE DEF s
    <2>4. j \in Fetching
      BY <2>2 DEF Fetching
    <2>5. Bytes(0) = <<>> /\ Len(<<>>) = 0
      BY DEF Bytes
    <2>6. FitFetch(i, j, <<o>>, h)
      BY <1>2, <2>2, <2>3, <2>5 DEF FitFetch
    <2>7. Fit(i, j, <<o>>, h, c)
      BY <1>1, <2>6 DEF Fit
    <2> QED BY <2>1, <2>4, <2>7 DEF Places
  <1> QED BY <1>4, <1>5

-----------------------------------------------------------------------------
LEMMA InvInit == Init => IInv
  <1> SUFFICES ASSUME Init PROVE IInv
    OBVIOUS
  <1>1. Waiting \in Plain /\ Waiting.at = "waiting"
    BY DEF Waiting, Plain
  <1>2. job \in [Args -> Places] /\ \A i \in Args : job[i].at = "waiting" /\ job[i] = Waiting
    BY <1>1 DEF Init, Places
  <1>3. TypeOK
    <2>1. executed \in [Args -> Seq(Outcomes)]
      BY DEF Init
    <2>2. cas \subseteq AllBlobs
      BY Constants DEF Init, AllBlobs
    <2>3. started = 0 /\ \A i \in Args : i > started
      BY Constants DEF Init
    <2>4. \A i \in Args : job[i].at = "waiting"
      BY <1>2
    <2>5. /\ connected \in BOOLEAN /\ expired \in BOOLEAN /\ hadFailure \in BOOLEAN
          /\ exit \in {"none", "SUCCESS", "FAILURE", "error"}
      BY DEF Init
    <2>6. started \in 0 .. Len(Spec) /\ faults \in 0 .. MaxFaults /\ harmed \subseteq Args
      BY Constants DEF Init
    <2>7. \A i \in Args : job[i].at = "waiting" <=> i > started
      BY <2>3, <2>4
    <2> QED BY <2>1, <2>2, <2>4, <2>5, <2>6, <2>7 DEF TypeOK
  <1>4. Kept
    BY DEF Init, Kept
  <1>5. AllFit
    <2>1. ASSUME NEW i \in Args PROVE Fit(i, job[i], executed[i], harmed, cas)
      <3>1. executed[i] = <<>> /\ <<>> \in Seq(Outcomes) /\ Len(<<>>) = 0
        BY DEF Init
      <3>2. job[i].at = "waiting"
        BY <1>2
      <3> QED BY <3>1, <3>2 DEF Fit
    <2> QED BY <2>1 DEF AllFit
  <1>6. OneReport
    <2>1. reports = <<>> /\ <<>> \in Seq(ReportOf) /\ DOMAIN reports = {} /\ hadFailure = FALSE
      BY DEF Init
    <2> QED BY <1>2, <2>1 DEF OneReport
  <1>7. ReportsTell /\ EndsRight
    BY DEF Init, ReportsTell, EndsRight
  <1> QED BY <1>2, <1>3, <1>4, <1>5, <1>6, <1>7 DEF IInv

LEMMA Types ==
    ASSUME IInv
    PROVE  /\ started \in 0 .. Len(Spec) /\ cas \subseteq AllBlobs /\ harmed \subseteq Args
           /\ executed \in [Args -> Seq(Outcomes)] /\ job \in [Args -> Places]
           /\ faults \in 0 .. MaxFaults
           /\ connected \in BOOLEAN /\ expired \in BOOLEAN /\ hadFailure \in BOOLEAN
           /\ exit \in {"none", "SUCCESS", "FAILURE", "error"}
           /\ reports \in Seq(ReportOf) /\ DOMAIN reports = 1 .. Len(reports)
           /\ \A n \in DOMAIN reports : reports[n] \in ReportOf /\ reports[n].arg \in Args
  <1>1. reports \in Seq(ReportOf)
    BY DEF IInv, OneReport
  <1>2. \A n \in DOMAIN reports : reports[n] \in ReportOf
    BY <1>1
  <1>3. \A r \in ReportOf : r.arg \in Args
    BY DEF ReportOf
  <1>4. DOMAIN reports = 1 .. Len(reports)
    BY <1>1
  <1> QED BY <1>1, <1>2, <1>3, <1>4 DEF IInv, TypeOK

(* A step of one job that is under way keeps everything else.              *)
LEMMA JobMoves ==
    ASSUME IInv, NEW i \in Args, NEW j \in Places,
           job[i].at \notin {"waiting", "reported"}, j.at \notin {"waiting", "reported"},
           exit = "none", job' = [job EXCEPT ![i] = j],
           UNCHANGED <<connected, expired, started, reports, hadFailure, exit>>,
           faults' \in 0 .. MaxFaults, harmed \subseteq harmed', harmed' \subseteq Args,
           cas \subseteq cas' \cup Evictable, cas' \subseteq AllBlobs,
           executed' \in [Args -> Seq(Outcomes)],
           \A k \in Args : k # i => executed'[k] = executed[k],
           Fit(i, j, executed'[i], harmed', cas')
    PROVE  IInv'
  <1>1. /\ job' \in [Args -> Places] /\ job'[i] = j
        /\ \A k \in Args : k # i => job'[k] = job[k]
    BY Types
  <1>2. \A k \in Args : /\ job'[k].at = "waiting" <=> job[k].at = "waiting"
                        /\ job'[k].at = "reported" <=> job[k].at = "reported"
    BY <1>1
  <1>3. TypeOK'
    <2>1. \A k \in Args : job'[k].at = "waiting" <=> k > started
      BY <1>2 DEF IInv, TypeOK
    <2>2. \A k \in Args : job'[k].at \in {"waiting", "write", "execute", "running", "refused",
                                          "read", "done", "failed", "reported"}
      BY <1>1, PlaceOf
    <2> QED BY <2>1, <2>2 DEF IInv, TypeOK
  <1>4. Kept'
    BY DEF IInv, Kept
  <1>5. AllFit'
    <2>1. ASSUME NEW k \in Args, k # i PROVE Fit(k, job'[k], executed'[k], harmed', cas')
      <3>1. Fit(k, job[k], executed[k], harmed, cas) /\ job'[k] = job[k] /\ executed'[k] = executed[k]
        BY <1>1, <2>1 DEF IInv, AllFit
      <3> QED BY <3>1, FitFrame
    <2> QED BY <1>1, <2>1 DEF AllFit
  <1>6. OneReport'
    BY <1>2, Types DEF IInv, OneReport
  <1>7. ReportsTell'
    <2>1. \A n \in DOMAIN reports : executed'[reports[n].arg] = executed[reports[n].arg]
      <3>1. \A n \in DOMAIN reports : reports[n].arg \in Args /\ job[reports[n].arg].at = "reported"
        BY Types DEF IInv, OneReport
      <3> QED BY <3>1
    <2> QED BY <2>1 DEF IInv, ReportsTell
  <1>8. EndsRight'
    BY DEF EndsRight
  <1> QED BY <1>1, <1>3, <1>4, <1>5, <1>6, <1>7, <1>8 DEF IInv

(* The same, with a failure that is accounted for.                         *)
LEMMA JobFails ==
    ASSUME IInv, NEW i \in Args, job[i].at \notin {"waiting", "reported"},
           exit = "none", Becomes(i, Failed),
           UNCHANGED <<connected, expired, started, reports, hadFailure, exit, executed>>,
           faults' \in 0 .. MaxFaults, harmed \subseteq harmed', harmed' \subseteq Args,
           cas \subseteq cas' \cup Evictable, cas' \subseteq AllBlobs,
           i \in harmed' \/ (executed[i] # <<>> /\ ~Succeeded(executed[i][1]))
    PROVE  IInv'
  <1>1. executed \in [Args -> Seq(Outcomes)]
    BY Types
  <1>2. Fit(i, job[i], executed[i], harmed, cas)
    BY DEF IInv, AllFit
  <1>3. executed[i] \in Seq(Outcomes) /\ Len(executed[i]) <= 1
    BY <1>2 DEF Fit
  <1>4. FitFailed(i, executed[i], harmed')
    BY DEF FitFailed
  <1>5. /\ Failed \in Places /\ Failed.at = "failed"
        /\ Fit(i, Failed, executed[i], harmed', cas')
    BY <1>3, <1>4, FitFailure
  <1>6. /\ executed' = executed /\ job' = [job EXCEPT ![i] = Failed]
        /\ Failed.at \notin {"waiting", "reported"}
    BY <1>5 DEF Becomes
  <1>7. Fit(i, Failed, executed'[i], harmed', cas')
    BY <1>5, <1>6
  <1> HIDE DEF Failed
  <1> QED BY <1>1, <1>5, <1>6, <1>7, JobMoves

-----------------------------------------------------------------------------
(* Uploading.                                                              *)

(* A blob that is being written is one of the server's kind, of which it   *)
(* has got the first bytes.                                                *)
LEMMA UploadTypes ==
    ASSUME IInv, NEW i \in Args, Writing(i)
    PROVE  /\ job[i] \in Uploading /\ job[i].done \in Nat /\ job[i].done + 1 \in 1 .. Len(Uploads(i))
           /\ Blob(i) \in AllBlobs /\ Size[Blob(i)] \in Nat
           /\ job[i].offset \in 0 .. Size[Blob(i)] /\ job[i].got = Bytes(job[i].offset)
           /\ Len(job[i].got) = job[i].offset
           /\ End(i) \in job[i].offset .. Size[Blob(i)]
           /\ Stored(i, job[i].done, cas) /\ executed[i] = <<>>
           /\ job[i].at \notin {"waiting", "reported"}
  <1>1. job[i] \in Uploading /\ job[i].at = "write"
    BY Types, PlaceOf DEF Writing
  <1>2. FitUpload(i, job[i], cas) /\ executed[i] = <<>>
    BY <1>1 DEF IInv, AllFit, Fit
  <1>3. job[i].done \in Nat /\ job[i].offset \in Nat
    BY <1>1 DEF Uploading
  <1>4. job[i].done + 1 \in 1 .. Len(Uploads(i))
    BY <1>2, <1>3, UploadsType DEF FitUpload
  <1>5. Blob(i) \in AllBlobs /\ Size[Blob(i)] \in Nat
    BY <1>4, UploadsType, Constants, ElementOfSeq DEF Blob
  <1>6. job[i].offset \in 0 .. Size[Blob(i)]
    BY <1>2, <1>3, <1>5 DEF FitUpload, Blob
  <1>7. job[i].got = Bytes(job[i].offset) /\ Stored(i, job[i].done, cas)
    BY <1>2 DEF FitUpload
  <1>8. Len(job[i].got) = job[i].offset
    BY <1>3, <1>7, BytesType
  <1>9. End(i) \in job[i].offset .. Size[Blob(i)]
    BY <1>5, <1>6, Constants DEF End
  <1> QED BY <1>1, <1>2, <1>3, <1>4, <1>5, <1>6, <1>7, <1>8, <1>9

(* One more blob is on the server.                                         *)
LEMMA NextBlob ==
    ASSUME IInv, NEW i \in Args, Writing(i), NEW c, cas \subseteq c, Blob(i) \in c \cup Evictable,
           NEW h
    PROVE  /\ AfterCommit(i, Size[Blob(i)]) \in Places
           /\ AfterCommit(i, Size[Blob(i)]).at \notin {"waiting", "reported"}
           /\ Fit(i, AfterCommit(i, Size[Blob(i)]), executed[i], h, c)
  <1> DEFINE n == job[i].done
  <1>1. n \in Nat /\ n + 1 \in 0 .. Len(Uploads(i)) /\ executed[i] = <<>>
    BY UploadTypes
  <1>2. Stored(i, n + 1, c)
    <2>1. Stored(i, n, cas)
      BY UploadTypes
    <2>2. \A k \in 1 .. n + 1 : k \in 1 .. n \/ k = n + 1
      BY <1>1
    <2>3. Uploads(i)[n + 1] \in c \cup Evictable
      BY DEF Blob
    <2> QED BY <2>1, <2>2, <2>3 DEF Stored
  <1>3. AfterCommit(i, Size[Blob(i)]) = Uploaded(i, n + 1)
    BY DEF AfterCommit
  <1> QED BY <1>1, <1>2, <1>3, FitUploaded

LEMMA WriteChunkKeeps ==
    ASSUME IInv, NEW i \in Args, WriteChunk(i)
    PROVE  IInv'
  <1> DEFINE got == job[i].got \o SubSeq(Data(i), job[i].offset + 1, End(i))
             n == Size[Blob(i)]
  <1>1. /\ Writing(i) /\ exit = "none" /\ executed' = executed
        /\ UNCHANGED <<connected, expired, started, reports, hadFailure, exit, harmed, faults>>
    BY DEF WriteChunk, Well, Moves
  <1>2. /\ job[i].done \in Nat /\ n \in Nat /\ job[i].offset \in 0 .. n
        /\ Len(job[i].got) = job[i].offset /\ job[i].got = Bytes(job[i].offset)
        /\ End(i) \in job[i].offset .. n /\ Blob(i) \in AllBlobs
        /\ job[i].at \notin {"waiting", "reported"} /\ executed[i] = <<>>
        /\ job[i].done + 1 \in 1 .. Len(Uploads(i)) /\ Stored(i, job[i].done, cas)
    BY <1>1, UploadTypes
  <1>3. got = Bytes(End(i))
    <2>1. PICK m, a, b : m = n /\ a = job[i].offset /\ b = End(i)
      OBVIOUS
    <2>2. m \in Nat /\ a \in 0 .. m /\ b \in a .. m
      BY <1>2, <2>1
    <2>3. Bytes(a) \o SubSeq(Bytes(m), a + 1, b) = Bytes(b)
      BY <2>2, Joined
    <2>4. got = Bytes(a) \o SubSeq(Bytes(m), a + 1, b)
      BY <1>2, <2>1 DEF Data
    <2> QED BY <2>1, <2>3, <2>4
  <1>5. CASE End(i) < n
    <2> DEFINE j == [at |-> "write", done |-> job[i].done, offset |-> End(i), got |-> got]
    <2>1. cas' = cas /\ job' = [job EXCEPT ![i] = j]
      BY <1>1, <1>2, <1>5 DEF WriteChunk, Becomes, Follows
    <2>2. j \in Uploading
      <3>1. End(i) \in Nat
        BY <1>2
      <3>2. Bytes(End(i)) \in Seq(Nat)
        BY <3>1, BytesType
      <3> HIDE DEF got
      <3> QED BY <1>2, <1>3, <3>1, <3>2 DEF Uploading
    <2>3. FitUpload(i, j, cas)
      <3> HIDE DEF got
      <3> QED BY <1>2, <1>3, <1>5, UploadsType DEF FitUpload, Blob
    <2>4. Fit(i, j, executed[i], harmed, cas)
      <3>1. <<>> \in Seq(Outcomes) /\ Len(<<>>) = 0
        OBVIOUS
      <3> HIDE DEF got
      <3> QED BY <1>2, <2>3, <3>1 DEF Fit
    <2>5. j \in Places /\ j.at \notin {"waiting", "reported"}
      BY <2>2 DEF Places
    <2> HIDE DEF j
    <2> QED BY <1>1, <1>2, <2>1, <2>4, <2>5, Types, JobMoves
  <1>6. CASE ~(End(i) < n)
    <2>1. got = Data(i)
      <3> HIDE DEF got
      <3>1. End(i) = n
        BY <1>2, <1>6
      <3> QED BY <1>3, <3>1 DEF Data
    <2>2. cas' = cas \cup {Blob(i)} /\ job' = [job EXCEPT ![i] = AfterCommit(i, n)]
      BY <1>1, <1>2, <1>6, <2>1 DEF WriteChunk, Becomes
    <2>3. /\ AfterCommit(i, n) \in Places /\ AfterCommit(i, n).at \notin {"waiting", "reported"}
          /\ Fit(i, AfterCommit(i, n), executed[i], harmed, cas')
      BY <1>1, <2>2, NextBlob
    <2>4. cas' \subseteq AllBlobs
      BY <1>2, <2>2, Types
    <2>5. PICK j : j = AfterCommit(i, n)
      OBVIOUS
    <2> QED BY <1>1, <1>2, <2>2, <2>3, <2>4, <2>5, Types, JobMoves
  <1> QED BY <1>5, <1>6

LEMMA AnswerEarlyKeeps ==
    ASSUME IInv, NEW i \in Args, AnswerEarly(i)
    PROVE  IInv'
  <1>1. /\ Writing(i) /\ exit = "none" /\ cas' = cas /\ executed' = executed /\ Blob(i) \in cas
        /\ UNCHANGED <<connected, expired, started, reports, hadFailure, exit, harmed, faults>>
        /\ job' = [job EXCEPT ![i] = AfterCommit(i, Size[Blob(i)])]
    BY DEF AnswerEarly, Well, Moves, serverVars, Becomes
  <1>2. job[i].at \notin {"waiting", "reported"}
    BY <1>1, UploadTypes
  <1>3. PICK j : j = AfterCommit(i, Size[Blob(i)])
    OBVIOUS
  <1>4. /\ j \in Places /\ j.at \notin {"waiting", "reported"}
        /\ Fit(i, j, executed[i], harmed, cas)
    BY <1>1, <1>3, NextBlob
  <1> QED BY <1>1, <1>2, <1>3, <1>4, Types, JobMoves

LEMMA StopEarlyKeeps ==
    ASSUME IInv, NEW i \in Args, StopEarly(i)
    PROVE  IInv'
  <1>1. /\ Writing(i) /\ exit = "none" /\ cas' = cas /\ executed' = executed
        /\ UNCHANGED <<connected, expired, started, reports, hadFailure, exit>>
        /\ harmed' = harmed \cup {i} /\ faults' = faults + 1 /\ faults < MaxFaults
        /\ Len(job[i].got) < Size[Blob(i)] /\ Becomes(i, AfterCommit(i, Len(job[i].got)))
    BY DEF StopEarly, Badly, Moves, serverVars, Fault, Harms
  <1>2. AfterCommit(i, Len(job[i].got)) = Failed
    BY <1>1, UploadTypes DEF AfterCommit
  <1>3. job[i].at \notin {"waiting", "reported"}
    BY <1>1, UploadTypes
  <1>4. faults' \in 0 .. MaxFaults /\ cas \subseteq AllBlobs /\ harmed' \subseteq Args
    BY <1>1, Types, Constants
  <1> QED BY <1>1, <1>2, <1>3, <1>4, JobFails

LEMMA UploadFailsKeeps ==
    ASSUME IInv, NEW i \in Args, UploadFails(i)
    PROVE  IInv'
  <1>1. /\ Writing(i) /\ exit = "none" /\ executed' = executed
        /\ UNCHANGED <<connected, expired, started, reports, hadFailure, exit>>
        /\ harmed' = harmed \cup {i} /\ faults' = faults + 1 /\ faults < MaxFaults
        /\ Becomes(i, Failed) /\ (cas' = cas \/ cas' = cas \cup {Blob(i)})
    BY DEF UploadFails, Badly, Moves, Fault, Harms
  <1>2. job[i].at \notin {"waiting", "reported"} /\ Blob(i) \in AllBlobs
    BY <1>1, UploadTypes
  <1>3. faults' \in 0 .. MaxFaults /\ cas' \subseteq AllBlobs /\ harmed' \subseteq Args
    BY <1>1, <1>2, Types, Constants
  <1> QED BY <1>1, <1>2, <1>3, JobFails

-----------------------------------------------------------------------------
(* Executing.                                                              *)

(* What a job that is about to execute needs is on the server, or was      *)
(* dropped by it.                                                          *)
LEMMA NeedsAreMet ==
    ASSUME IInv, NEW i \in Args, job[i].at = "execute"
    PROVE  Needed(i) \ cas \subseteq Evictable
  <1>1. Stored(i, Len(Uploads(i)), cas)
    BY DEF IInv, AllFit, Fit
  <1>2. SUFFICES ASSUME NEW b \in Needed(i) PROVE b \in cas \cup Evictable
    OBVIOUS
  <1>3. CASE \E k \in DOMAIN Uploads(i) : Uploads(i)[k] = b
    BY <1>1, <1>3, UploadsType DEF Stored
  <1>4. CASE b \in Spec[i].present \cup {EmptyBlob}
    BY <1>4 DEF IInv, Kept
  <1> QED BY <1>3, <1>4, UploadsType

LEMMA ExecuteKeeps ==
    ASSUME IInv, NEW i \in Args, Execute(i)
    PROVE  IInv'
  <1>1. /\ job[i].at = "execute" /\ exit = "none" /\ cas' = cas /\ faults' = faults
        /\ UNCHANGED <<connected, expired, started, reports, hadFailure, exit>>
    BY DEF Execute, Moves
  <1>2. executed[i] = <<>> /\ executed \in [Args -> Seq(Outcomes)]
    BY <1>1, Types DEF IInv, AllFit, Fit
  <1>3. ASSUME NEW o \in Outcomes, executed' = [executed EXCEPT ![i] = Append(@, o)],
               Becomes(i, [at |-> "running", outcome |-> o]), harmed' = harmed
        PROVE  IInv'
    <2> DEFINE j == [at |-> "running", outcome |-> o]
    <2>1. executed'[i] = <<o>> /\ \A k \in Args : k # i => executed'[k] = executed[k]
      BY <1>2, <1>3
    <2>2. <<o>> \in Seq(Outcomes) /\ Len(<<o>>) = 1
      OBVIOUS
    <2>3. executed' \in [Args -> Seq(Outcomes)]
      BY <1>2, <1>3, <2>2
    <2>4. j \in Places /\ j.at \notin {"waiting", "reported"}
      BY DEF Places, Running
    <2>5. Fit(i, j, <<o>>, harmed, cas)
      BY <2>2 DEF Fit
    <2>6. job' = [job EXCEPT ![i] = j]
      BY <1>3 DEF Becomes
    <2> HIDE DEF j
    <2> QED BY <1>1, <1>3, <2>1, <2>3, <2>4, <2>5, <2>6, Types, JobMoves
  <1>4. ASSUME Becomes(i, [at |-> "refused", missing |-> Needed(i) \ cas]),
               harmed' = harmed \cup {i}, executed' = executed
        PROVE  IInv'
    <2> DEFINE j == [at |-> "refused", missing |-> Needed(i) \ cas]
    <2>1. j \in Refused
      BY UploadsType DEF Refused
    <2>2. j \in Places /\ j.at \notin {"waiting", "reported"}
      BY <2>1 DEF Places
    <2>3. j.missing \subseteq Evictable
      BY <1>1, NeedsAreMet
    <2>4. <<>> \in Seq(Outcomes) /\ Len(<<>>) = 0
      OBVIOUS
    <2>5. Fit(i, j, executed'[i], harmed', cas')
      BY <1>2, <1>4, <2>3, <2>4 DEF Fit
    <2>6. job' = [job EXCEPT ![i] = j]
      BY <1>4 DEF Becomes
    <2> HIDE DEF j
    <2> QED BY <1>1, <1>2, <1>4, <2>2, <2>5, <2>6, Types, JobMoves
  <1> QED BY <1>3, <1>4 DEF Execute, Harms

LEMMA StreamEndsKeeps ==
    ASSUME IInv, NEW i \in Args, StreamEnds(i)
    PROVE  IInv'
  <1>1. /\ job[i].at = "running" /\ exit = "none" /\ Becomes(i, Failed)
        /\ UNCHANGED <<connected, expired, started, reports, hadFailure, exit, executed>>
        /\ cas' = cas /\ harmed' = harmed \cup {i} /\ faults' = faults + 1 /\ faults < MaxFaults
    BY DEF StreamEnds, Badly, Moves, Fault, Harms, serverVars
  <1>2. faults' \in 0 .. MaxFaults /\ cas' \subseteq AllBlobs /\ harmed' \subseteq Args
    BY <1>1, Types, Constants
  <1> QED BY <1>1, <1>2, JobFails

LEMMA CallRefusedKeeps ==
    ASSUME IInv, NEW i \in Args, CallRefused(i)
    PROVE  IInv'
  <1>1. /\ job[i].at \in {"write", "execute", "read"} /\ exit = "none" /\ Becomes(i, Failed)
        /\ UNCHANGED <<connected, expired, started, reports, hadFailure, exit, executed>>
        /\ cas' = cas /\ harmed' = harmed \cup {i} /\ faults' = faults
    BY DEF CallRefused, Moves, Harms, serverVars
  <1>2. faults' \in 0 .. MaxFaults /\ cas' \subseteq AllBlobs /\ harmed' \subseteq Args
    BY <1>1, Types
  <1> QED BY <1>1, <1>2, JobFails

LEMMA ResponseKeeps ==
    ASSUME IInv, NEW i \in Args, Response(i)
    PROVE  IInv'
  <1>1. /\ job[i].at \in {"running", "refused"} /\ exit = "none"
        /\ UNCHANGED <<connected, expired, started, reports, hadFailure, exit, harmed, faults>>
        /\ cas' = cas /\ executed' = executed
    BY DEF Response, Well, Moves, serverVars
  <1>2. Fit(i, job[i], executed[i], harmed, cas)
    BY DEF IInv, AllFit
  <1>3. CASE job[i].at = "refused"
    <2>1. Becomes(i, Failed) /\ i \in harmed
      BY <1>2, <1>3 DEF Response, Fit
    <2> QED BY <1>1, <2>1, Types, JobFails
  <1>4. CASE job[i].at = "running"
    <2> DEFINE o == job[i].outcome
    <2>1. o \in Outcomes /\ executed[i] = <<o>>
      BY <1>2, <1>4, Types, PlaceOf DEF Running, Fit
    <2>2. CASE Succeeded(o)
      <3>1. Becomes(i, AfterRead(o, <<>>))
        BY <1>4, <2>2 DEF Response, Succeeded
      <3>2. /\ AfterRead(o, <<>>) \in Places /\ AfterRead(o, <<>>).at \in {"read", "done"}
            /\ Fit(i, AfterRead(o, <<>>), <<o>>, harmed, cas)
        BY <2>1, <2>2, EmptyPartial, FitAfterRead
      <3>3. PICK j : j = AfterRead(o, <<>>)
        OBVIOUS
      <3> QED BY <1>1, <2>1, <3>1, <3>2, <3>3, Types, JobMoves DEF Becomes
    <2>3. CASE ~Succeeded(o)
      <3>1. Becomes(i, Failed)
        BY <1>4, <2>3 DEF Response, Succeeded
      <3>2. executed[i] # <<>> /\ executed[i][1] = o
        BY <2>1
      <3> QED BY <1>1, <2>3, <3>1, <3>2, Types, JobFails
    <2> QED BY <2>2, <2>3
  <1> QED BY <1>1, <1>3, <1>4

-----------------------------------------------------------------------------
(* Reading the streams.                                                    *)

LEMMA ReadTypes ==
    ASSUME IInv, NEW i \in Args, Reading(i)
    PROVE  /\ job[i] \in Fetching /\ FitFetch(i, job[i], executed[i], harmed)
           /\ job[i].outcome \in Outcomes /\ job[i].stream \in Streams /\ job[i].output \in Partial
           /\ job[i].got \in Seq(Nat) /\ Len(job[i].got) \in Nat
           /\ Expected(i) \in Nat /\ Left(i) \in Nat /\ Left(i) = Expected(i) - Len(job[i].got)
           /\ executed[i] = <<job[i].outcome>> /\ job[i].at \notin {"waiting", "reported"}
  <1>1. job[i] \in Fetching /\ job[i].at = "read"
    BY Types, PlaceOf DEF Reading
  <1>2. FitFetch(i, job[i], executed[i], harmed)
    BY <1>1 DEF IInv, AllFit, Fit
  <1>3. /\ job[i].outcome \in Outcomes /\ job[i].stream \in Streams /\ job[i].got \in Seq(Nat)
        /\ job[i].output \in Partial
    BY <1>1 DEF Fetching
  <1>4. Expected(i) \in Nat /\ Len(job[i].got) \in Nat
    BY <1>3, Constants DEF Expected
  <1>5. Left(i) \in Nat
    BY <1>2, <1>4 DEF FitFetch, Left, Expected
  <1> QED BY <1>1, <1>2, <1>3, <1>4, <1>5 DEF FitFetch, Left

(* More of the stream has come in.                                         *)
LEMMA FitMore ==
    ASSUME IInv, NEW i \in Args, Reading(i), NEW g \in Seq(Nat), Len(g) <= Expected(i),
           NEW h, i \in h \/ g = Bytes(Len(g)), NEW c, NEW j, j = [job[i] EXCEPT !.got = g]
    PROVE  /\ j \in Places /\ j.at \notin {"waiting", "reported"}
           /\ Fit(i, j, executed[i], h, c)
  <1>1. j \in Fetching /\ j.at = "read"
    BY ReadTypes DEF Fetching, Reading
  <1>2. /\ j.outcome = job[i].outcome /\ j.stream = job[i].stream /\ j.output = job[i].output
        /\ j.got = g
    BY ReadTypes DEF Fetching
  <1>3. FitFetch(i, j, executed[i], h)
    BY <1>2, ReadTypes DEF FitFetch, Expected
  <1>4. executed[i] \in Seq(Outcomes) /\ Len(executed[i]) <= 1
    BY DEF IInv, AllFit, Fit
  <1>5. Fit(i, j, executed[i], h, c)
    BY <1>1, <1>3, <1>4 DEF Fit
  <1> QED BY <1>1, <1>5 DEF Places

LEMMA ReadChunkKeeps ==
    ASSUME IInv, NEW i \in Args, ReadChunk(i)
    PROVE  IInv'
  <1>1. /\ Reading(i) /\ exit = "none"
        /\ UNCHANGED <<connected, expired, started, reports, hadFailure, exit, harmed, faults>>
        /\ cas' = cas /\ executed' = executed
    BY DEF ReadChunk, Well, Moves, serverVars
  <1> DEFINE g == job[i].got
  <1>2. PICK n \in 1 .. Left(i) :
               Becomes(i, AfterChunk(i, SubSeq(Bytes(Expected(i)), Len(g) + 1, Len(g) + n)))
    BY DEF ReadChunk
  <1>3. PICK m, a, b : m = Expected(i) /\ a = Len(g) /\ b = Len(g) + n
    OBVIOUS
  <1>4. m \in Nat /\ a \in 0 .. m /\ b \in a .. m /\ b - a = n /\ g \in Seq(Nat)
    BY <1>1, <1>2, <1>3, ReadTypes
  <1>5. PICK data : data = SubSeq(Bytes(m), a + 1, b)
    OBVIOUS
  <1>6. data \in Seq(Nat) /\ Len(data) = n
    BY <1>4, <1>5, SliceType
  <1>7. Becomes(i, [job[i] EXCEPT !.got = g \o data])
    BY <1>1, <1>2, <1>3, <1>5, <1>6, ReadTypes DEF AfterChunk
  <1>8. g \o data \in Seq(Nat) /\ Len(g \o data) = b
    <2>1. Len(g) + Len(data) = b /\ g \in Seq(Nat) /\ data \in Seq(Nat)
      BY <1>3, <1>4, <1>6
    <2> QED BY <2>1, JoinOfTwo
  <1>9. i \in harmed \/ g \o data = Bytes(b)
    <2>1. i \in harmed \/ g = Bytes(a)
      BY <1>1, <1>3, ReadTypes, SMTT(20) DEF FitFetch
    <2>2. Bytes(a) \o data = Bytes(b)
      BY <1>4, <1>5, Joined
    <2> QED BY <2>1, <2>2
  <1>10. PICK w, j : w = g \o data /\ j = [job[i] EXCEPT !.got = w]
    OBVIOUS
  <1>11. /\ j \in Places /\ j.at \notin {"waiting", "reported"}
         /\ Fit(i, j, executed[i], harmed, cas)
    <2>1. /\ w \in Seq(Nat) /\ Len(w) <= Expected(i)
          /\ i \in harmed \/ w = Bytes(Len(w))
      <3>1. w \in Seq(Nat) /\ Len(w) = b /\ (i \in harmed \/ w = Bytes(b))
        BY <1>8, <1>9, <1>10
      <3>2. b <= m
        BY <1>4
      <3> QED BY <1>3, <3>1, <3>2
    <2> QED BY <1>1, <1>10, <2>1, FitMore
  <1>12. job[i].at \notin {"waiting", "reported"}
    BY <1>1, ReadTypes
  <1> QED BY <1>1, <1>7, <1>10, <1>11, <1>12, Types, JobMoves DEF Becomes

LEMMA ReadDamagedKeeps ==
    ASSUME IInv, NEW i \in Args, ReadDamaged(i)
    PROVE  IInv'
  <1>1. /\ Reading(i) /\ exit = "none" /\ harmed' = harmed \cup {i}
        /\ UNCHANGED <<connected, expired, started, reports, hadFailure, exit>>
        /\ faults' = faults + 1 /\ faults < MaxFaults /\ cas' = cas /\ executed' = executed
    BY DEF ReadDamaged, Badly, Moves, Fault, Harms, serverVars
  <1>2. faults' \in 0 .. MaxFaults /\ cas' \subseteq AllBlobs /\ harmed' \subseteq Args
    BY <1>1, Types, Constants
  <1> DEFINE g == job[i].got
  <1>3. PICK n \in 1 .. Left(i) + 1 : Becomes(i, AfterChunk(i, [k \in 1 .. n |-> Wrong]))
    BY DEF ReadDamaged
  <1>4. n \in Nat /\ g \in Seq(Nat) /\ job[i].at \notin {"waiting", "reported"}
    BY <1>1, ReadTypes
  <1>5. PICK data : data = [k \in 1 .. n |-> Wrong]
    OBVIOUS
  <1>6. data \in Seq(Nat) /\ Len(data) = n
    BY <1>4, <1>5 DEF Wrong
  <1>7. CASE n > Left(i)
    <2>1. Becomes(i, Failed)
      BY <1>3, <1>5, <1>6, <1>7 DEF AfterChunk
    <2> QED BY <1>1, <1>2, <1>4, <2>1, JobFails
  <1>8. CASE ~(n > Left(i))
    <2>1. Becomes(i, [job[i] EXCEPT !.got = g \o data])
      BY <1>3, <1>5, <1>6, <1>8 DEF AfterChunk
    <2>2. g \o data \in Seq(Nat) /\ Len(g \o data) <= Expected(i)
      <3>1. g \o data \in Seq(Nat) /\ Len(g \o data) = Len(g) + n
        BY <1>4, <1>6, JoinOfTwo
      <3> QED BY <1>1, <1>4, <1>8, <3>1, ReadTypes
    <2>3. PICK j : j = [job[i] EXCEPT !.got = g \o data]
      OBVIOUS
    <2>4. /\ j \in Places /\ j.at \notin {"waiting", "reported"}
          /\ Fit(i, j, executed[i], harmed', cas)
      BY <1>1, <2>2, <2>3, FitMore
    <2> QED BY <1>1, <1>2, <1>4, <2>1, <2>3, <2>4, Types, JobMoves DEF Becomes
  <1> QED BY <1>7, <1>8

(* A stream that has come in whole is put with the others; one that has    *)
(* not fails the argument, which a fault has harmed.                       *)
LEMMA FitAfterStream ==
    ASSUME IInv, NEW i \in Args, Reading(i), NEW h, Verified(i) \/ i \in h, NEW c
    PROVE  /\ AfterStream(i) \in Places /\ AfterStream(i).at \notin {"waiting", "reported"}
           /\ Fit(i, AfterStream(i), executed[i], h, c)
  <1>1. CASE Verified(i)
    <2> DEFINE o   == job[i].outcome
               s   == job[i].stream
               old == job[i].output
               new == [x \in DOMAIN old \cup {s} |-> IF x = s THEN job[i].got ELSE old[x]]
    <2>1. AfterStream(i) = AfterRead(o, new)
      BY <1>1 DEF AfterStream
    <2>2. /\ o \in Outcomes /\ Succeeded(o) /\ s \in Digests(o) /\ executed[i] = <<o>>
          /\ DOMAIN old \subseteq Digests(o) /\ old \in Partial
          /\ \A x \in DOMAIN old : old[x] = Bytes(o[x].size)
          /\ job[i].got = Bytes(o[s].size) /\ job[i].got \in Seq(Nat)
      BY <1>1, ReadTypes DEF FitFetch, Verified, Expected
    <2>3. DOMAIN new \subseteq Digests(o) /\ \A x \in DOMAIN new : new[x] = Bytes(o[x].size)
      BY <2>2
    <2>4. new \in Partial
      <3>1. \A x \in DOMAIN new : new[x] \in Seq(Nat)
        <4>1. \A x \in Digests(o) : x \in Streams /\ o[x].size \in Nat
          BY <2>2, Constants DEF Digests
        <4>2. \A x \in Digests(o) : Bytes(o[x].size) \in Seq(Nat)
          BY <4>1, BytesType
        <4> HIDE DEF new
        <4> QED BY <2>3, <4>2
      <3>2. new \in [DOMAIN old \cup {s} -> Seq(Nat)]
        BY <3>1
      <3>3. DOMAIN old \cup {s} \in SUBSET Streams
        BY <2>2 DEF Digests
      <3> HIDE DEF new
      <3> QED BY <3>2, <3>3 DEF Partial
    <2> HIDE DEF new
    <2>5. PICK r : r = AfterRead(o, new)
      OBVIOUS
    <2>6. r \in Places /\ r.at \in {"read", "done"} /\ Fit(i, r, <<o>>, h, c)
      BY <2>2, <2>3, <2>4, <2>5, FitAfterRead
    <2> QED BY <2>1, <2>2, <2>5, <2>6
  <1>2. CASE ~Verified(i)
    <2>1. AfterStream(i) = Failed
      BY <1>2 DEF AfterStream
    <2>2. FitFailed(i, executed[i], h)
      BY <1>2 DEF FitFailed
    <2>3. executed[i] \in Seq(Outcomes) /\ Len(executed[i]) <= 1
      BY DEF IInv, AllFit, Fit
    <2> QED BY <2>1, <2>2, <2>3, FitFailure
  <1> QED BY <1>1, <1>2

LEMMA ReadEndsKeeps ==
    ASSUME IInv, NEW i \in Args, ReadEnds(i)
    PROVE  IInv'
  <1>1. /\ Reading(i) /\ exit = "none" /\ Left(i) = 0
        /\ UNCHANGED <<connected, expired, started, reports, hadFailure, exit, harmed, faults>>
        /\ cas' = cas /\ executed' = executed /\ job' = [job EXCEPT ![i] = AfterStream(i)]
    BY DEF ReadEnds, Well, Moves, serverVars, Becomes
  <1>2. Verified(i) \/ i \in harmed
    <2>1. Len(job[i].got) = Expected(i) /\ (i \in harmed \/ job[i].got = Bytes(Len(job[i].got)))
      BY <1>1, ReadTypes DEF FitFetch
    <2> QED BY <2>1 DEF Verified
  <1>3. PICK j : j = AfterStream(i)
    OBVIOUS
  <1>4. /\ j \in Places /\ j.at \notin {"waiting", "reported"}
        /\ Fit(i, j, executed[i], harmed, cas)
    BY <1>1, <1>2, <1>3, FitAfterStream
  <1>5. job[i].at \notin {"waiting", "reported"}
    BY <1>1, ReadTypes
  <1> QED BY <1>1, <1>3, <1>4, <1>5, Types, JobMoves

LEMMA ReadFailsKeeps ==
    ASSUME IInv, NEW i \in Args, ReadFails(i)
    PROVE  IInv'
  <1>1. /\ Reading(i) /\ exit = "none" /\ harmed' = harmed \cup {i}
        /\ UNCHANGED <<connected, expired, started, reports, hadFailure, exit>>
        /\ faults' = faults + 1 /\ faults < MaxFaults /\ cas' = cas /\ executed' = executed
        /\ Becomes(i, AfterStream(i)) \/ Becomes(i, Failed)
    BY DEF ReadFails, Badly, Moves, Fault, Harms, serverVars
  <1>2. faults' \in 0 .. MaxFaults /\ cas' \subseteq AllBlobs /\ harmed' \subseteq Args
    BY <1>1, Types, Constants
  <1>3. job[i].at \notin {"waiting", "reported"}
    BY <1>1, ReadTypes
  <1>4. CASE Becomes(i, Failed)
    BY <1>1, <1>2, <1>3, <1>4, JobFails
  <1>5. CASE Becomes(i, AfterStream(i))
    <2>1. PICK j : j = AfterStream(i)
      OBVIOUS
    <2>2. /\ j \in Places /\ j.at \notin {"waiting", "reported"}
          /\ Fit(i, j, executed[i], harmed', cas)
      BY <1>1, <2>1, FitAfterStream
    <2> QED BY <1>1, <1>2, <1>3, <1>5, <2>1, <2>2, Types, JobMoves DEF Becomes
  <1> QED BY <1>1, <1>4, <1>5

-----------------------------------------------------------------------------
(* The pool.                                                               *)

LEMMA StartKeeps ==
    ASSUME IInv, Start
    PROVE  IInv'
  <1> DEFINE i == started + 1
             j == IF Spec[i].usable THEN Uploaded(i, 0) ELSE Failed
  <1>1. /\ exit = "none" /\ started' = i /\ job' = [job EXCEPT ![i] = j]
        /\ UNCHANGED <<connected, expired, cas, executed, harmed, reports, hadFailure, exit, faults>>
        /\ started < Len(Spec)
    BY DEF Start, Advanced, Becomes, serverVars
  <1>2. i \in Args /\ started \in Nat
    BY <1>1, Types, Constants
  <1>3. job[i].at = "waiting"
    BY <1>2 DEF IInv, TypeOK
  <1>4. executed[i] = <<>>
    BY <1>2, <1>3 DEF IInv, AllFit, Fit
  <1>5. j \in Places /\ j.at \notin {"waiting", "reported"} /\ Fit(i, j, executed[i], harmed, cas)
    <2> HIDE DEF i
    <2>1. CASE Spec[i].usable
      <3>1. 0 \in 0 .. Len(Uploads(i)) /\ Stored(i, 0, cas)
        BY <1>2, UploadsType DEF Stored
      <3>2. PICK r : r = Uploaded(i, 0)
        OBVIOUS
      <3>3. r \in Places /\ r.at \in {"write", "execute"} /\ Fit(i, r, <<>>, harmed, cas)
        BY <1>2, <3>1, <3>2, FitUploaded
      <3> QED BY <1>4, <2>1, <3>2, <3>3
    <2>2. CASE ~Spec[i].usable
      <3>1. FitFailed(i, <<>>, harmed) /\ <<>> \in Seq(Outcomes) /\ Len(<<>>) <= 1
        BY <2>2 DEF FitFailed
      <3>2. Failed \in Places /\ Failed.at = "failed" /\ Fit(i, Failed, <<>>, harmed, cas)
        BY <3>1, FitFailure
      <3> HIDE DEF Failed
      <3> QED BY <1>4, <2>2, <3>2
    <2> QED BY <2>1, <2>2
  <1> HIDE DEF j
  <1>6. /\ job' \in [Args -> Places] /\ job'[i] = j
        /\ \A k \in Args : k # i => job'[k] = job[k]
    BY <1>1, <1>2, <1>5, Types
  <1>7. TypeOK'
    <2>1. \A k \in Args : job'[k].at = "waiting" <=> k > started'
      <3>1. ASSUME NEW k \in Args PROVE job'[k].at = "waiting" <=> k > started'
        <4>1. CASE k = i
          BY <1>1, <1>2, <1>5, <1>6, <4>1
        <4>2. CASE k # i
          <5>1. job[k].at = "waiting" <=> k > started
            BY DEF IInv, TypeOK
          <5>2. k > started <=> k > started'
            BY <1>1, <1>2, <4>2, Constants
          <5> QED BY <1>6, <4>2, <5>1, <5>2
        <4> QED BY <4>1, <4>2
      <3> QED BY <3>1
    <2>2. \A k \in Args : job'[k].at \in {"waiting", "write", "execute", "running", "refused",
                                          "read", "done", "failed", "reported"}
      BY <1>6, PlaceOf
    <2>3. started' \in 0 .. Len(Spec)
      BY <1>1, <1>2, Constants
    <2> QED BY <1>1, <2>1, <2>2, <2>3 DEF IInv, TypeOK
  <1>8. Kept'
    BY <1>1 DEF IInv, Kept
  <1>9. AllFit'
    BY <1>1, <1>5, <1>6 DEF IInv, AllFit
  <1>10. \A k \in Args : job'[k].at = "reported" <=> job[k].at = "reported"
    BY <1>3, <1>5, <1>6
  <1>11. OneReport'
    BY <1>1, <1>10, Types DEF IInv, OneReport
  <1>12. ReportsTell' /\ EndsRight'
    BY <1>1 DEF IInv, ReportsTell, EndsRight
  <1> QED BY <1>6, <1>7, <1>8, <1>9, <1>11, <1>12 DEF IInv

LEMMA ReportKeeps ==
    ASSUME IInv, NEW i \in Args, Report(i)
    PROVE  IInv'
  <1> DEFINE j == [at |-> "reported"]
             last == Len(reports) + 1
  <1>1. /\ exit = "none" /\ Ended(i) /\ job' = [job EXCEPT ![i] = j]
        /\ UNCHANGED <<connected, expired, started, cas, executed, harmed, exit, faults>>
        /\ hadFailure' = Fails(i, hadFailure)
    BY DEF Report, Becomes, serverVars
  <1>2. PICK r : /\ reports' = Append(reports, r)
                 /\ r = IF job[i].at = "done"
                        THEN [arg |-> i, read |-> TRUE, ok |-> job[i].code = 0,
                              output |-> job[i].output]
                        ELSE [arg |-> i, read |-> FALSE, ok |-> FALSE]
    BY DEF Report
  <1>3. Fit(i, job[i], executed[i], harmed, cas)
    BY DEF IInv, AllFit
  <1>4. job[i].at \notin {"waiting", "reported"} /\ job[i].at \in {"failed", "done"}
    BY <1>1 DEF Ended
  <1>5. j \in Places /\ j.at = "reported" /\ Fit(i, j, executed[i], harmed, cas)
    <2>1. j \in Plain
      BY DEF Plain
    <2> QED BY <1>3, <2>1 DEF Places, Fit
  <1> HIDE DEF j
  <1>6. /\ job' \in [Args -> Places] /\ job'[i] = j
        /\ \A k \in Args : k # i => job'[k] = job[k]
    BY <1>1, <1>5, Types
  <1>7. r \in ReportOf /\ r.arg = i
    <2>1. CASE job[i].at = "done"
      <3>1. job[i].output \in [Streams -> Seq(Nat)]
        BY <2>1, Types, PlaceOf DEF Done
      <3>2. (job[i].code = 0) \in BOOLEAN
        OBVIOUS
      <3> QED BY <1>2, <2>1, <3>1, <3>2 DEF ReportOf
    <2>2. CASE job[i].at # "done"
      BY <1>2, <2>2 DEF ReportOf
    <2> QED BY <2>1, <2>2
  <1>8. /\ reports' \in Seq(ReportOf) /\ DOMAIN reports' = 1 .. last
        /\ DOMAIN reports = 1 .. Len(reports) /\ Len(reports) \in Nat
        /\ \A n \in DOMAIN reports : reports'[n] = reports[n] /\ n # last
        /\ reports'[last] = r
    BY <1>2, <1>7, Types, AppendProperties
  <1>9. \A n \in DOMAIN reports' : n \in DOMAIN reports \/ n = last
    BY <1>8
  <1>10. \A n \in DOMAIN reports : reports[n].arg \in Args /\ job[reports[n].arg].at = "reported"
    BY Types DEF IInv, OneReport
  <1>11. \A n \in DOMAIN reports : reports[n].arg # i
    BY <1>4, <1>10
  <1> HIDE DEF last
  <1>12. TypeOK'
    <2>1. \A k \in Args : job'[k].at = "waiting" <=> k > started
      BY <1>4, <1>5, <1>6 DEF IInv, TypeOK
    <2>2. \A k \in Args : job'[k].at \in {"waiting", "write", "execute", "running", "refused",
                                          "read", "done", "failed", "reported"}
      BY <1>6, PlaceOf
    <2>3. hadFailure' \in BOOLEAN
      BY <1>1 DEF Fails
    <2> QED BY <1>1, <2>1, <2>2, <2>3 DEF IInv, TypeOK
  <1>13. Kept' /\ AllFit'
    BY <1>1, <1>5, <1>6 DEF IInv, Kept, AllFit
  <1>14. r.ok <=> ~(job[i].at = "failed" \/ job[i].code # 0)
    BY <1>2, <1>4
  <1>15. OneReport'
    <2>1. \A n \in DOMAIN reports' : job'[reports'[n].arg].at = "reported"
      BY <1>5, <1>6, <1>7, <1>8, <1>9, <1>10, <1>11
    <2>2. \A m, n \in DOMAIN reports' : reports'[m].arg = reports'[n].arg => m = n
      <3>1. \A m, n \in DOMAIN reports : reports[m].arg = reports[n].arg => m = n
        BY DEF IInv, OneReport
      <3> QED BY <1>7, <1>8, <1>9, <1>11, <3>1
    <2>3. \A k \in Args : job'[k].at = "reported" => \E n \in DOMAIN reports' : reports'[n].arg = k
      <3>1. ASSUME NEW k \in Args, job'[k].at = "reported"
            PROVE  \E n \in DOMAIN reports' : reports'[n].arg = k
        <4>1. CASE k = i
          <5>1. last \in DOMAIN reports' /\ reports'[last].arg = k
            BY <1>7, <1>8, <4>1 DEF last
          <5> QED BY <5>1
        <4>2. CASE k # i
          <5>1. PICK n \in DOMAIN reports : reports[n].arg = k
            BY <1>6, <3>1, <4>2 DEF IInv, OneReport
          <5>2. n \in DOMAIN reports' /\ reports'[n].arg = k
            BY <1>8, <5>1 DEF last
          <5> QED BY <5>2
        <4> QED BY <4>1, <4>2
      <3> QED BY <3>1
    <2>4. hadFailure' <=> \E n \in DOMAIN reports' : ~reports'[n].ok
      <3>1. hadFailure <=> \E n \in DOMAIN reports : ~reports[n].ok
        BY DEF IInv, OneReport
      <3>2. hadFailure' <=> hadFailure \/ ~r.ok
        BY <1>1, <1>14 DEF Fails
      <3>3. last \in DOMAIN reports' /\ DOMAIN reports \subseteq DOMAIN reports'
        BY <1>8 DEF last
      <3> QED BY <1>8, <1>9, <3>1, <3>2, <3>3
    <2> QED BY <1>8, <2>1, <2>2, <2>3, <2>4 DEF OneReport
  <1>16. ReportsTell'
    <2> DEFINE Tells(n) ==
          LET x == reports'[n] IN
          x.read => /\ Len(executed[x.arg]) = 1
                    /\ executed[x.arg][1].status = 0 /\ executed[x.arg][1].hasResult
                    /\ x.output = Produced(executed[x.arg][1])
                    /\ x.ok <=> executed[x.arg][1].code = 0
    <2>1. \A n \in DOMAIN reports : Tells(n)
      BY <1>8 DEF IInv, ReportsTell
    <2>2. Tells(last)
      <3>1. CASE job[i].at = "done"
        <4>1. FitDone(job[i], executed[i])
          BY <1>3, <3>1 DEF Fit
        <4>2. r.output = job[i].output /\ (r.ok <=> job[i].code = 0)
          BY <1>2, <3>1
        <4> QED BY <1>7, <1>8, <4>1, <4>2 DEF FitDone, Succeeded
      <3>2. CASE job[i].at # "done"
        <4>1. ~r.read
          BY <1>2, <3>2
        <4> QED BY <1>8, <4>1
      <3> QED BY <3>1, <3>2
    <2>3. \A n \in DOMAIN reports' : Tells(n)
      <3> HIDE DEF Tells
      <3> QED BY <1>9, <2>1, <2>2
    <2> QED BY <1>1, <2>3 DEF ReportsTell
  <1>17. EndsRight'
    BY <1>1 DEF EndsRight
  <1> QED BY <1>6, <1>12, <1>13, <1>15, <1>16, <1>17 DEF IInv

LEMMA FinishKeeps ==
    ASSUME IInv, Finish
    PROVE  IInv'
  <1>1. /\ exit' = (IF hadFailure THEN "FAILURE" ELSE "SUCCESS")
        /\ UNCHANGED <<connected, expired, started, job, cas, executed, harmed, reports, hadFailure, faults>>
        /\ started = Len(Spec) /\ InFlight = {}
    BY DEF Finish, serverVars
  <1>2. \A i \in Args : job[i].at = "reported"
    <2>1. \A i \in Args : job[i].at # "waiting"
      BY <1>1, Constants DEF IInv, TypeOK
    <2> QED BY <1>1, <2>1 DEF InFlight
  <1>3. exit' \in {"SUCCESS", "FAILURE"} /\ (exit' = "SUCCESS" <=> ~hadFailure)
    BY <1>1
  <1>4. TypeOK'
    BY <1>1, <1>3 DEF IInv, TypeOK
  <1>5. EndsRight'
    BY <1>1, <1>2, <1>3 DEF EndsRight
  <1>6. Kept' /\ AllFit' /\ OneReport' /\ ReportsTell' /\ (job \in [Args -> Places])'
    BY <1>1 DEF IInv, Kept, AllFit, OneReport, ReportsTell
  <1> QED BY <1>4, <1>5, <1>6 DEF IInv

LEMMA EvictKeeps ==
    ASSUME IInv, NEW b \in Evictable, Evict(b)
    PROVE  IInv'
  <1>1. /\ exit = "none" /\ cas' = cas \ {b}
        /\ UNCHANGED <<connected, expired, started, job, executed, harmed, reports, hadFailure, exit, faults>>
    BY DEF Evict
  <1>2. TypeOK' /\ Kept'
    BY <1>1 DEF IInv, TypeOK, Kept
  <1>3. cas \subseteq cas' \cup Evictable
    BY <1>1
  <1>4. ASSUME NEW i \in Args PROVE Fit(i, job[i], executed[i], harmed, cas')
    <2>1. PICK c2 : c2 = cas'
      OBVIOUS
    <2> QED BY <1>3, <2>1, FitFrame DEF IInv, AllFit
  <1>5. AllFit'
    BY <1>1, <1>4 DEF AllFit
  <1>6. OneReport' /\ ReportsTell' /\ EndsRight' /\ (job \in [Args -> Places])'
    BY <1>1 DEF IInv, OneReport, ReportsTell, EndsRight
  <1> QED BY <1>2, <1>5, <1>6 DEF IInv

(* The steps that touch no job: a fault, the connection, the end.          *)
LEMMA OutsideKeeps ==
    ASSUME IInv, UNCHANGED <<started, job, cas, executed, harmed, reports, hadFailure>>,
           connected' \in BOOLEAN, expired' \in BOOLEAN, faults' \in 0 .. MaxFaults,
           exit' = exit \/ exit' = "error"
    PROVE  IInv'
  <1>1. TypeOK'
    BY Types DEF IInv, TypeOK
  <1>2. EndsRight'
    BY DEF IInv, EndsRight
  <1>3. Kept' /\ AllFit' /\ OneReport' /\ ReportsTell' /\ (job \in [Args -> Places])'
    BY DEF IInv, Kept, AllFit, OneReport, ReportsTell
  <1> QED BY <1>1, <1>2, <1>3 DEF IInv

LEMMA FaultType ==
    ASSUME IInv, Fault
    PROVE  faults' \in 0 .. MaxFaults
  BY Types, Constants DEF Fault

LEMMA ConnectKeeps ==
    ASSUME IInv, Connect
    PROVE  IInv'
  <1>1. UNCHANGED <<expired, started, job, cas, executed, harmed, reports, hadFailure>>
    BY DEF Connect, serverVars
  <1>2. CASE connected' = TRUE /\ UNCHANGED <<exit, faults>>
    BY <1>1, <1>2, Types, OutsideKeeps
  <1>3. CASE Fault /\ exit' = "error" /\ UNCHANGED connected
    BY <1>1, <1>3, Types, FaultType, OutsideKeeps
  <1> QED BY <1>2, <1>3 DEF Connect

LEMMA ExpireKeeps ==
    ASSUME IInv, Expire
    PROVE  IInv'
  <1>1. /\ UNCHANGED <<connected, started, job, cas, executed, harmed, reports, hadFailure, exit>>
        /\ expired' = TRUE /\ Fault
    BY DEF Expire, serverVars
  <1> QED BY <1>1, Types, FaultType, OutsideKeeps

LEMMA PrintFailureKeeps ==
    ASSUME IInv, NEW i \in Args, PrintFailure(i)
    PROVE  IInv'
  <1>1. /\ UNCHANGED <<connected, expired, started, job, cas, executed, harmed, reports, hadFailure>>
        /\ exit' = "error" /\ Fault
    BY DEF PrintFailure, serverVars
  <1> QED BY <1>1, Types, FaultType, OutsideKeeps

-----------------------------------------------------------------------------
LEMMA InvStep == IInv /\ [Next]_vars => IInv'
  <1> SUFFICES ASSUME IInv, [Next]_vars PROVE IInv'
    OBVIOUS
  <1>1. ASSUME NEW i \in Args, RunOne(i) PROVE IInv'
    BY <1>1, WriteChunkKeeps, AnswerEarlyKeeps, ExecuteKeeps, ResponseKeeps, ReadChunkKeeps,
       ReadEndsKeeps, CallRefusedKeeps DEF RunOne
  <1>2. ASSUME NEW i \in Args, Breaks(i) PROVE IInv'
    BY <1>2, UploadFailsKeeps, StopEarlyKeeps, StreamEndsKeeps, ReadDamagedKeeps, ReadFailsKeeps,
       PrintFailureKeeps DEF Breaks
  <1>3. ASSUME NEW i \in Args, Report(i) PROVE IInv'
    BY <1>3, ReportKeeps
  <1>4. CASE Connect \/ Expire \/ Start \/ Finish
    BY <1>4, ConnectKeeps, ExpireKeeps, StartKeeps, FinishKeeps
  <1>5. ASSUME NEW b \in Evictable, Evict(b) PROVE IInv'
    BY <1>5, EvictKeeps
  <1>6. CASE UNCHANGED vars
    <2>1. UNCHANGED <<connected, expired, started, job, cas, executed, harmed, reports, hadFailure,
                      exit, faults>>
      BY <1>6 DEF vars, serverVars
    <2> QED BY <2>1, Types, OutsideKeeps
  <1> QED BY <1>1, <1>2, <1>3, <1>4, <1>5, <1>6 DEF Next

LEMMA InvHolds == Behaviour => []IInv
  BY InvInit, InvStep, PTL DEF Behaviour

-----------------------------------------------------------------------------
(* Every variable keeps its type, and the iterator is where the futures    *)
(* say it is.                                                              *)
THEOREM TypeCorrect == Behaviour => []TypeOK
  <1>1. IInv => TypeOK
    BY DEF IInv
  <1> QED BY <1>1, InvHolds, PTL

(* The server never misses a blob that it did not drop itself.             *)
THEOREM NothingIsMissing == Behaviour => []NothingMissing
  <1>1. IInv => NothingMissing
    BY DEF IInv, AllFit, Fit, NothingMissing
  <1> QED BY <1>1, InvHolds, PTL

(* A report tells of one execution, whole, however its streams were cut.   *)
THEOREM ReportsTellTheTruth == Behaviour => []ReportsTell
  <1>1. IInv => ReportsTell
    BY DEF IInv
  <1> QED BY <1>1, InvHolds, PTL

(* No argument fails by the tool's own doing, whatever the sizes are.      *)
THEOREM FailuresHaveACause == Behaviour => []FailsOnlyByFault
  <1>1. IInv => FailsOnlyByFault
    <2> SUFFICES ASSUME IInv, NEW i \in Args, job[i].at = "failed"
                 PROVE  \/ ~Spec[i].usable \/ i \in harmed
                        \/ executed[i] # <<>> /\ (executed[i][1].status # 0 \/ ~executed[i][1].hasResult)
      BY DEF FailsOnlyByFault
    <2>1. FitFailed(i, executed[i], harmed)
      BY DEF IInv, AllFit, Fit
    <2> QED BY <2>1 DEF FitFailed, Succeeded
  <1> QED BY <1>1, InvHolds, PTL

(* A process that ends by itself has reported every argument once and says *)
(* SUCCESS exactly when all of them succeeded.                             *)
THEOREM TheExitCodeTells == Behaviour => []ExitTells
  <1>1. IInv => ExitTells
    <2> SUFFICES ASSUME IInv, exit \in {"SUCCESS", "FAILURE"} PROVE
          /\ Len(reports) = Len(Spec)
          /\ \A i \in Args : Len(executed[i]) <= 1 /\ \E n \in DOMAIN reports : reports[n].arg = i
          /\ exit = "SUCCESS" <=> \A n \in DOMAIN reports : reports[n].ok
      BY DEF ExitTells
    <2>1. \A i \in Args : job[i].at = "reported"
      BY DEF IInv, EndsRight
    <2>2. \A i \in Args : \E n \in DOMAIN reports : reports[n].arg = i
      BY <2>1 DEF IInv, OneReport
    <2>3. \A i \in Args : Len(executed[i]) <= 1
      BY DEF IInv, AllFit, Fit
    <2>4. exit = "SUCCESS" <=> \A n \in DOMAIN reports : reports[n].ok
      BY DEF IInv, EndsRight, OneReport
    <2>5. Len(reports) = Len(Spec)
      <3> DEFINE S == 1 .. Len(reports)
                 f == [n \in S |-> reports[n].arg]
      <3>1. Len(reports) \in Nat /\ DOMAIN reports = S
        BY Types
      <3>2. \A n \in S : reports[n].arg \in Args
        BY <3>1, Types
      <3>3. \A m, n \in S : reports[m].arg = reports[n].arg => m = n
        BY <3>1 DEF IInv, OneReport
      <3>4. f \in [S -> Args] /\ (\A m, n \in S : f[m] = f[n] => m = n)
            /\ (\A i \in Args : \E n \in S : f[n] = i)
        BY <2>2, <3>1, <3>2, <3>3
      <3>5. ExistsBijection(S, Args)
        <4> HIDE DEF f
        <4>1. f \in Bijection(S, Args)
          BY <3>4 DEF Bijection, Injection, Surjection, IsInjective
        <4> QED BY <4>1 DEF ExistsBijection
      <3>6. IsFiniteSet(S) /\ Cardinality(S) = Len(reports)
        BY <3>1, FirstN
      <3>7. Args = 1 .. Len(Spec) /\ Len(Spec) \in Nat
        BY Constants
      <3>8. Cardinality(Args) = Len(Spec)
        BY <3>7, FirstN
      <3>9. Cardinality(Args) = Cardinality(S)
        BY <3>5, <3>6, FS_Bijection
      <3> QED BY <3>6, <3>8, <3>9
    <2> QED BY <2>2, <2>3, <2>4, <2>5
  <1> QED BY <1>1, InvHolds, PTL
=============================================================================
