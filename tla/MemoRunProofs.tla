---------------------------- MODULE MemoRunProofs ----------------------------
(***************************************************************************)
(* Proofs about MemoRun, for any number of invocations, any options and    *)
(* any behaviour of the wrapped commands.                                  *)
(***************************************************************************)
EXTENDS MemoRunProperties, SequenceTheorems, TLAPS

-----------------------------------------------------------------------------
(* Lemmas about the operators.                                             *)

(* The tree of a directory node is a tree, the content of a file content.  *)
LEMMA NodeParts ==
    ASSUME NEW n \in Node
    PROVE  /\ n.kind \in {"absent", "file", "link", "dir"}
           /\ n.kind \in {"file", "link"} => n \in FileLike
           /\ n.kind = "dir" => n.entries \in Trees
  BY DEF Node, Absent, FileLike, DirNode

LEMMA TreeEntries ==
    ASSUME NEW t \in Trees
    PROVE  /\ t = [n \in DOMAIN t |-> t[n]]
           /\ DOMAIN t \subseteq Names
           /\ \A n \in DOMAIN t : t[n] \in FileLike
  BY DEF Trees

LEMMA FileBlobsAreBlobs ==
    ASSUME NEW t \in Trees
    PROVE  FileBlobs(t) \subseteq Blobs
  BY TreeEntries DEF FileBlobs, FilesOf, Data, Blobs, FileLike

LEMMA TreeBlobsAreBlobs ==
    ASSUME NEW t \in Trees
    PROVE  TreeBlobs(t) \subseteq Blobs
  <1>1. <<"tree", t>> \in Messages /\ <<"directory", t>> \in Messages
    BY DEF Messages
  <1>2. Messages \subseteq Blobs
    BY DEF Blobs
  <1>3. FileBlobs(t) \subseteq Blobs
    BY FileBlobsAreBlobs
  <1> QED BY <1>1, <1>2, <1>3 DEF TreeBlobs

LEMMA KeyBlobsAreBlobs ==
    ASSUME NEW r \in Runs
    PROVE  KeyBlobs(r) \subseteq Blobs
  BY DEF Blobs

LEMMA StreamRefsAreBlobs ==
    ASSUME NEW res \in ActionResult
    PROVE  StreamRefs(res) \subseteq Blobs
  BY DEF StreamRefs, ActionResult, Blobs, Data

LEMMA ResultParts ==
    ASSUME NEW res \in ActionResult
    PROVE  /\ res.code \in Codes
           /\ res.stdout \in Content
           /\ res.stderr \in Content
           /\ res.files \in Seq(OutputFile)
           /\ res.dirs \in Seq(OutputDirectory)
           /\ Len(res.files) \in Nat
           /\ Len(res.dirs) \in Nat
           /\ DOMAIN res.files = 1..Len(res.files)
           /\ DOMAIN res.dirs = 1..Len(res.dirs)
           /\ \A i \in DOMAIN res.files : res.files[i] \in OutputFile
           /\ \A i \in DOMAIN res.dirs : res.dirs[i] \in OutputDirectory
  BY DEF ActionResult

(* An output that is captured extends the result.                          *)
LEMMA FileCaptureExtends ==
    ASSUME NEW res \in ActionResult, NEW o \in OutputFile
    PROVE  [res EXCEPT !.files = Append(@, o)] \in ActionResult
  <1>1. Append(res.files, o) \in Seq(OutputFile)
    BY ResultParts, AppendProperties
  <1> QED BY <1>1 DEF ActionResult

LEMMA DirCaptureExtends ==
    ASSUME NEW res \in ActionResult, NEW u \in OutputDirectory
    PROVE  [res EXCEPT !.dirs = Append(@, u)] \in ActionResult
  <1>1. Append(res.dirs, u) \in Seq(OutputDirectory)
    BY ResultParts, AppendProperties
  <1> QED BY <1>1 DEF ActionResult

(* What a captured output adds to the references of a result.              *)
LEMMA FileRefsExtend ==
    ASSUME NEW res \in ActionResult, NEW o \in OutputFile
    PROVE  LET new == [res EXCEPT !.files = Append(@, o)]
           IN  Refs(new) \subseteq Refs(res) \cup {Data(o.data)}
  <1> DEFINE new == [res EXCEPT !.files = Append(@, o)]
  <1>1. /\ new.files = Append(res.files, o) /\ new.dirs = res.dirs
        /\ new.stdout = res.stdout /\ new.stderr = res.stderr
    BY DEF ActionResult
  <1>2. /\ DOMAIN new.files = 1..(Len(res.files) + 1)
        /\ \A i \in DOMAIN res.files : new.files[i] = res.files[i]
        /\ new.files[Len(res.files) + 1] = o
        /\ DOMAIN res.files = 1..Len(res.files)
        /\ Len(res.files) \in Nat
    BY <1>1, ResultParts, AppendProperties
  <1>3. FileRefs(new) \subseteq FileRefs(res) \cup {Data(o.data)}
    BY <1>2 DEF FileRefs
  <1>4. DirRefs(new) = DirRefs(res) /\ StreamRefs(new) = StreamRefs(res)
    BY <1>1 DEF DirRefs, StreamRefs
  <1>5. res # Nothing
    BY NothingAssumption
  <1> QED BY <1>3, <1>4, <1>5 DEF Refs

LEMMA DirRefsExtend ==
    ASSUME NEW res \in ActionResult, NEW u \in OutputDirectory
    PROVE  LET new == [res EXCEPT !.dirs = Append(@, u)]
           IN  Refs(new) \subseteq Refs(res) \cup TreeBlobs(u.tree)
  <1> DEFINE new == [res EXCEPT !.dirs = Append(@, u)]
  <1>1. /\ new.dirs = Append(res.dirs, u) /\ new.files = res.files
        /\ new.stdout = res.stdout /\ new.stderr = res.stderr
    BY DEF ActionResult
  <1>2. /\ DOMAIN new.dirs = 1..(Len(res.dirs) + 1)
        /\ \A i \in DOMAIN res.dirs : new.dirs[i] = res.dirs[i]
        /\ new.dirs[Len(res.dirs) + 1] = u
        /\ DOMAIN res.dirs = 1..Len(res.dirs)
        /\ Len(res.dirs) \in Nat
    BY <1>1, ResultParts, AppendProperties
  <1>3. DirRefs(new) \subseteq DirRefs(res) \cup TreeBlobs(u.tree)
    BY <1>2 DEF DirRefs, TreeBlobs
  <1>4. FileRefs(new) = FileRefs(res) /\ StreamRefs(new) = StreamRefs(res)
    BY <1>1 DEF FileRefs, StreamRefs
  <1>5. res # Nothing
    BY NothingAssumption
  <1> QED BY <1>3, <1>4, <1>5 DEF Refs

-----------------------------------------------------------------------------
(* Type correctness.  What keeps it inductive is LoopsInBounds: there is a *)
(* result to add to, to record or to replay, a capture appends an output   *)
(* that is due, and a replay reads within what was recorded.               *)

(* Where an invocation is, or goes once its upload is over.                *)
Stage(r) == IF pc[r] \in {"find", "push"} THEN upload[r].next ELSE pc[r]

LoopsInBounds ==
    \A r \in Runs :
      /\ pc[r] = "start" => result[r] = Nothing
      /\ pc[r] \in {"find", "push"} =>
           upload[r].next \in {"lookup", "spawn", "capture", "record", "done"}
      /\ Stage(r) \in {"capture", "record"} \cup Replaying =>
           result[r] \in ActionResult
      /\ Stage(r) = "capture" =>
           \/ Len(result[r].files) < Len(Files(r))
           \/ Len(result[r].dirs) < Len(Dirs(r))
      /\ pc[r] \in {"trees", "treefiles"} => at[r] < Len(result[r].dirs)
      /\ Stage(r) \in {"start", "lookup", "stdout", "stderr", "files"} => at[r] = 0

TypeInv == TypeOK /\ LoopsInBounds

LEMMA TypeInit == Init => TypeInv
  <1> SUFFICES ASSUME Init PROVE TypeInv
    OBVIOUS
  <1>1. TypeOK
    BY NodesAssumption DEF Init, TypeOK, NoUpload, Labels
  <1>2. LoopsInBounds
    BY DEF Init, LoopsInBounds, NoUpload, Stage, Replaying
  <1> QED BY <1>1, <1>2 DEF TypeInv

(* The directory of an invocation, and what the code keeps there.          *)
LEMMA DiskTypes ==
    ASSUME TypeOK, NEW r \in Runs
    PROVE  /\ Opts[r].cwd \in Cwds
           /\ At(r) \in [Paths -> Node]
           /\ Files(r) \in Seq(Paths) /\ Dirs(r) \in Seq(Paths)
           /\ ActionOf(r) \in Actions
  BY OptsAssumption DEF TypeOK, At, Files, Dirs, Actions

LEMMA DueTypes ==
    ASSUME TypeInv, NEW r \in Runs, pc[r] = "capture"
    PROVE  /\ Due(r) \in Paths
           /\ result[r] \in ActionResult
  <1>1. result[r] \in ActionResult
    BY DEF TypeInv, LoopsInBounds, Stage
  <1>2. /\ Len(result[r].files) \in Nat
        /\ Len(result[r].dirs) \in Nat
    BY <1>1, ResultParts
  <1>3. /\ Files(r) \in Seq(Paths) /\ Dirs(r) \in Seq(Paths)
    BY DiskTypes DEF TypeInv
  <1>4. \/ Len(result[r].files) < Len(Files(r))
        \/ Len(result[r].dirs) < Len(Dirs(r))
    BY DEF TypeInv, LoopsInBounds, Stage
  <1> QED BY <1>1, <1>2, <1>3, <1>4 DEF Due

LEMMA ReplayedTypes ==
    ASSUME TypeInv, NEW r \in Runs, pc[r] \in {"trees", "treefiles"}
    PROVE  /\ result[r] \in ActionResult
           /\ at[r] \in Nat
           /\ at[r] + 1 \in DOMAIN result[r].dirs
           /\ Replayed(r).path \in Paths
           /\ Replayed(r).tree \in Trees
  <1>1. result[r] \in ActionResult
    BY DEF TypeInv, LoopsInBounds, Stage, Replaying
  <1>2. at[r] \in Nat /\ at[r] < Len(result[r].dirs)
    BY DEF TypeInv, TypeOK, LoopsInBounds
  <1>3. at[r] + 1 \in DOMAIN result[r].dirs
    BY <1>1, <1>2, ResultParts
  <1>4. Replayed(r) \in OutputDirectory
    BY <1>1, <1>3, ResultParts DEF Replayed
  <1> QED BY <1>1, <1>2, <1>3, <1>4 DEF OutputDirectory

(* The steps that leave all but the control of one invocation alone.       *)
LEMMA StartTypes ==
    ASSUME TypeInv, NEW r \in Runs, Start(r)
    PROVE  TypeInv'
  <1>1. KeyBlobs(r) \subseteq Blobs
    BY KeyBlobsAreBlobs
  <1>2. TypeOK'
    BY <1>1 DEF TypeInv, TypeOK, Start, Upload, Goto, Labels
  <1>3. LoopsInBounds'
    BY DEF TypeInv, TypeOK, LoopsInBounds, Start, Upload, Goto, Stage, Replaying
  <1> QED BY <1>2, <1>3 DEF TypeInv

LEMMA FindMissingTypes ==
    ASSUME TypeInv, NEW r \in Runs, FindMissing(r)
    PROVE  TypeInv'
  <1>1. TypeOK'
    <2>1. upload' \in [Runs -> [blobs : SUBSET Blobs, missing : SUBSET Blobs,
                                next : Labels]]
      <3> DEFINE new == [upload[r] EXCEPT !.missing = upload[r].blobs \ cas]
      <3>1. upload[r] \in [blobs : SUBSET Blobs, missing : SUBSET Blobs, next : Labels]
        BY DEF TypeInv, TypeOK
      <3>2. new \in [blobs : SUBSET Blobs, missing : SUBSET Blobs, next : Labels]
        BY <3>1
      <3>3. upload' = [upload EXCEPT ![r] = new]
        BY <3>1 DEF FindMissing, TypeInv, TypeOK
      <3> HIDE DEF new
      <3> QED BY <3>2, <3>3 DEF TypeInv, TypeOK
    <2>2. pc' \in [Runs -> Labels]
      BY DEF TypeInv, TypeOK, FindMissing, Goto, Labels
    <2> QED BY <2>1, <2>2 DEF TypeInv, TypeOK, FindMissing
  <1>2. LoopsInBounds'
    BY DEF TypeInv, TypeOK, LoopsInBounds, FindMissing, Goto, Stage, Replaying
  <1> QED BY <1>1, <1>2 DEF TypeInv

LEMMA PushTypes ==
    ASSUME TypeInv, NEW r \in Runs, Push(r)
    PROVE  TypeInv'
  <1>1. TypeOK'
    BY DEF TypeInv, TypeOK, Push, Goto, Labels, NoUpload
  <1>2. LoopsInBounds'
    BY DEF TypeInv, TypeOK, LoopsInBounds, Push, Goto, Stage, Replaying, NoUpload
  <1> QED BY <1>1, <1>2 DEF TypeInv

LEMMA PushPartlyTypes ==
    ASSUME TypeInv, NEW r \in Runs, PushPartly(r)
    PROVE  TypeInv'
  <1>types. TypeOK'
    BY DEF TypeInv, TypeOK, PushPartly, NoUpload, Goto, Labels
  <1>loops. LoopsInBounds'
    BY DEF TypeInv, TypeOK, LoopsInBounds, PushPartly, NoUpload, Goto, Stage, Replaying
  <1> QED BY <1>types, <1>loops DEF TypeInv

LEMMA LookupMissTypes ==
    ASSUME TypeInv, NEW r \in Runs, LookupMiss(r)
    PROVE  TypeInv'
  <1>types. TypeOK'
    BY DEF TypeInv, TypeOK, LookupMiss, Goto, Labels
  <1>loops. LoopsInBounds'
    BY DEF TypeInv, TypeOK, LoopsInBounds, LookupMiss, Goto, Stage, Replaying
  <1> QED BY <1>types, <1>loops DEF TypeInv

LEMMA LookupHitTypes ==
    ASSUME TypeInv, NEW r \in Runs, LookupHit(r)
    PROVE  TypeInv'
  <1>1. ActionOf(r) \in Actions
    BY DEF Actions
  <1>2. ac[ActionOf(r)] \in ActionResult
    BY <1>1 DEF TypeInv, TypeOK, LookupHit
  <1>types. TypeOK'
    BY <1>2 DEF TypeInv, TypeOK, LookupHit, Goto, Labels
  <1>loops. LoopsInBounds'
    BY <1>2 DEF TypeInv, TypeOK, LoopsInBounds, LookupHit, Goto, Stage, Replaying
  <1> QED BY <1>types, <1>loops DEF TypeInv

LEMMA CaptureRefusedTypes ==
    ASSUME TypeInv, NEW r \in Runs, CaptureRefused(r)
    PROVE  TypeInv'
  <1>types. TypeOK'
    BY DEF TypeInv, TypeOK, CaptureRefused, Goto, Labels
  <1>loops. LoopsInBounds'
    BY DEF TypeInv, TypeOK, LoopsInBounds, CaptureRefused, Goto, Stage, Replaying
  <1> QED BY <1>types, <1>loops DEF TypeInv

LEMMA RecordTypes ==
    ASSUME TypeInv, NEW r \in Runs, Record(r)
    PROVE  TypeInv'
  <1>1. ActionOf(r) \in Actions
    BY DEF Actions
  <1>2. result[r] \in ActionResult
    BY DEF TypeInv, LoopsInBounds, Stage, Record
  <1>types. TypeOK'
    BY <1>1, <1>2 DEF TypeInv, TypeOK, Record, Publish, Goto, Labels
  <1>loops. LoopsInBounds'
    BY DEF TypeInv, TypeOK, LoopsInBounds, Record, Publish, Goto, Stage, Replaying
  <1> QED BY <1>types, <1>loops DEF TypeInv

LEMMA RecordUnansweredTypes ==
    ASSUME TypeInv, NEW r \in Runs, RecordUnanswered(r)
    PROVE  TypeInv'
  <1>1. ActionOf(r) \in Actions
    BY DEF Actions
  <1>2. result[r] \in ActionResult
    BY DEF TypeInv, LoopsInBounds, Stage, RecordUnanswered
  <1>types. TypeOK'
    BY <1>1, <1>2 DEF TypeInv, TypeOK, RecordUnanswered, Publish, Goto, Labels
  <1>loops. LoopsInBounds'
    BY DEF TypeInv, TypeOK, LoopsInBounds, RecordUnanswered, Publish, Goto, Stage, Replaying
  <1> QED BY <1>types, <1>loops DEF TypeInv

LEMMA PrintStdoutTypes ==
    ASSUME TypeInv, NEW r \in Runs, PrintStdout(r)
    PROVE  TypeInv'
  <1>1. result[r] \in ActionResult
    BY DEF TypeInv, LoopsInBounds, Stage, Replaying, PrintStdout
  <1>2. result[r].stdout \in Content /\ result[r].stderr \in Content
    BY <1>1, ResultParts
  <1>3. shown' \in [Runs -> [stdout : Content \cup {Nothing},
                            stderr : Content \cup {Nothing}]]
    <2>1. CASE shown' = [shown EXCEPT ![r].stdout = result[r].stdout]
      BY <1>2, <2>1 DEF TypeInv, TypeOK
    <2>2. CASE UNCHANGED shown
      BY <2>2 DEF TypeInv, TypeOK
    <2> QED BY <2>1, <2>2 DEF PrintStdout
  <1>types. TypeOK'
    BY <1>3 DEF TypeInv, TypeOK, PrintStdout, Goto, Labels
  <1>loops. LoopsInBounds'
    BY DEF TypeInv, TypeOK, LoopsInBounds, PrintStdout, Goto, Stage, Replaying
  <1> QED BY <1>types, <1>loops DEF TypeInv

LEMMA PrintStderrTypes ==
    ASSUME TypeInv, NEW r \in Runs, PrintStderr(r)
    PROVE  TypeInv'
  <1>1. result[r] \in ActionResult
    BY DEF TypeInv, LoopsInBounds, Stage, Replaying, PrintStderr
  <1>2. result[r].stdout \in Content /\ result[r].stderr \in Content
    BY <1>1, ResultParts
  <1>3. shown' \in [Runs -> [stdout : Content \cup {Nothing},
                            stderr : Content \cup {Nothing}]]
    <2>1. CASE shown' = [shown EXCEPT ![r].stderr = result[r].stderr]
      BY <1>2, <2>1 DEF TypeInv, TypeOK
    <2>2. CASE UNCHANGED shown
      BY <2>2 DEF TypeInv, TypeOK
    <2> QED BY <2>1, <2>2 DEF PrintStderr
  <1>types. TypeOK'
    BY <1>3 DEF TypeInv, TypeOK, PrintStderr, Goto, Labels
  <1>loops. LoopsInBounds'
    BY DEF TypeInv, TypeOK, LoopsInBounds, PrintStderr, Goto, Stage, Replaying
  <1> QED BY <1>types, <1>loops DEF TypeInv

LEMMA BlobGoneTypes ==
    ASSUME TypeInv, NEW r \in Runs, BlobGone(r)
    PROVE  TypeInv'
  <1>types. TypeOK'
    BY DEF TypeInv, TypeOK, BlobGone, Goto, Labels
  <1>loops. LoopsInBounds'
    BY DEF TypeInv, TypeOK, LoopsInBounds, BlobGone, Goto, Stage, Replaying
  <1> QED BY <1>types, <1>loops DEF TypeInv

LEMMA FailTypes ==
    ASSUME TypeInv, NEW r \in Runs, Fail(r)
    PROVE  TypeInv'
  <1>types. TypeOK'
    BY DEF TypeInv, TypeOK, Fail, NoUpload, Goto, Labels
  <1>loops. LoopsInBounds'
    BY DEF TypeInv, TypeOK, LoopsInBounds, Fail, NoUpload, Goto, Stage, Replaying
  <1> QED BY <1>types, <1>loops DEF TypeInv

LEMMA WriteRefusedTypes ==
    ASSUME TypeInv, NEW r \in Runs, WriteRefused(r)
    PROVE  TypeInv'
  <1>types. TypeOK'
    BY DEF TypeInv, TypeOK, WriteRefused, Goto, Labels
  <1>loops. LoopsInBounds'
    BY DEF TypeInv, TypeOK, LoopsInBounds, WriteRefused, Goto, Stage, Replaying
  <1> QED BY <1>types, <1>loops DEF TypeInv

(* Where an invocation goes after a capture keeps the loop in its bounds.  *)
LEMMA AfterCaptureInBounds ==
    ASSUME NEW r \in Runs, NEW res
    PROVE  /\ AfterCapture(r, res) \in {"capture", "record", "done"}
           /\ AfterCapture(r, res) = "capture" =>
                \/ Len(res.files) < Len(Files(r))
                \/ Len(res.dirs) < Len(Dirs(r))
  BY DEF AfterCapture

LEMMA ExecuteTypes ==
    ASSUME TypeInv, NEW r \in Runs, Execute(r)
    PROVE  TypeInv'
  <1>1. PICK b \in Behaviours[Opts[r].argv] :
          LET left == [p \in Paths |->
                         IF p \in DOMAIN b.writes THEN b.writes[p] ELSE At(r)[p]]
              res == [code |-> b.code, stdout |-> b.stdout,
                      stderr |-> b.stderr, files |-> <<>>, dirs |-> <<>>]
          IN  /\ disk' = [disk EXCEPT ![Opts[r].cwd] = left]
              /\ executed' = [executed EXCEPT ![r] =
                                [code |-> b.code, stdout |-> b.stdout,
                                 stderr |-> b.stderr, left |-> left]]
              /\ shown' = [shown EXCEPT ![r] =
                             [stdout |-> b.stdout, stderr |-> b.stderr]]
              /\ result' = [result EXCEPT ![r] = res]
              /\ Upload(r, StreamRefs(res), AfterCapture(r, res))
    BY Zenon DEF Execute
  <1> DEFINE left == [p \in Paths |->
                        IF p \in DOMAIN b.writes THEN b.writes[p] ELSE At(r)[p]]
             res == [code |-> b.code, stdout |-> b.stdout,
                     stderr |-> b.stderr, files |-> <<>>, dirs |-> <<>>]
  <1>2. IsOutcome(b)
    BY OptsAssumption, BehavioursAssumption
  <1>3. left \in [Paths -> Node]
    BY <1>2, DiskTypes DEF TypeInv, IsOutcome
  <1>4. res \in ActionResult
    BY <1>2 DEF IsOutcome, ActionResult
  <1>5. StreamRefs(res) \subseteq Blobs
    BY <1>4, StreamRefsAreBlobs
  <1>6. [code |-> b.code, stdout |-> b.stdout, stderr |-> b.stderr, left |-> left]
          \in Execution
    BY <1>2, <1>3 DEF IsOutcome, Execution
  <1>7. [stdout |-> b.stdout, stderr |-> b.stderr]
          \in [stdout : Content \cup {Nothing}, stderr : Content \cup {Nothing}]
    BY <1>2 DEF IsOutcome
  <1>8. Opts[r].cwd \in Cwds
    BY OptsAssumption
  <1>9. /\ disk' = [disk EXCEPT ![Opts[r].cwd] = left]
        /\ result' = [result EXCEPT ![r] = res]
        /\ Upload(r, StreamRefs(res), AfterCapture(r, res))
        /\ pc[r] = "spawn"
        /\ UNCHANGED <<at, cas, ac, published>>
    BY <1>1 DEF Execute
  <1>10. AfterCapture(r, res) \in Labels
    BY AfterCaptureInBounds DEF Labels
  <1> HIDE DEF left, res
  <1>types. TypeOK'
    <2>1. pc' \in [Runs -> Labels]
      BY <1>9 DEF TypeInv, TypeOK, Upload, Goto, Labels
    <2>2. upload' \in [Runs -> [blobs : SUBSET Blobs, missing : SUBSET Blobs,
                                next : Labels]]
      BY <1>5, <1>9, <1>10 DEF TypeInv, TypeOK, Upload
    <2>3. result' \in [Runs -> ActionResult \cup {Nothing}]
      BY <1>4, <1>9 DEF TypeInv, TypeOK
    <2>4. shown' \in [Runs -> [stdout : Content \cup {Nothing},
                               stderr : Content \cup {Nothing}]]
      BY <1>1, <1>7 DEF TypeInv, TypeOK
    <2>5. disk' \in [Cwds -> [Paths -> Node]]
      BY <1>3, <1>8, <1>9 DEF TypeInv, TypeOK
    <2>6. executed' \in [Runs -> Execution \cup {Nothing}]
      BY <1>1, <1>6 DEF TypeInv, TypeOK, left
    <2> QED BY <1>9, <2>1, <2>2, <2>3, <2>4, <2>5, <2>6 DEF TypeInv, TypeOK
  <1>loops. LoopsInBounds'
    <2>1. \A q \in Runs \ {r} : pc'[q] = pc[q] /\ upload'[q] = upload[q]
                                 /\ result'[q] = result[q]
      BY <1>9 DEF TypeInv, TypeOK, Upload, Goto
    <2>2. /\ pc'[r] = "find" /\ result'[r] = res
          /\ upload'[r].next = AfterCapture(r, res)
      BY <1>9 DEF TypeInv, TypeOK, Upload, Goto
    <2> QED
      BY <1>4, <1>9, <2>1, <2>2, AfterCaptureInBounds
      DEF TypeInv, LoopsInBounds, Stage, Replaying, Files, Dirs
  <1> QED BY <1>types, <1>loops DEF TypeInv

(* Both captures extend the result and start an upload.                    *)
LEMMA CaptureTypes ==
    ASSUME TypeInv, NEW r \in Runs, pc[r] = "capture",
           NEW res \in ActionResult, NEW blobs \in SUBSET Blobs,
           result' = [result EXCEPT ![r] = res],
           Upload(r, blobs, AfterCapture(r, res)),
           UNCHANGED <<at, shown, cas, ac, disk, executed, published>>
    PROVE  TypeInv'
  <1>1. AfterCapture(r, res) \in Labels
    BY AfterCaptureInBounds DEF Labels
  <1>types. TypeOK'
    BY <1>1 DEF TypeInv, TypeOK, Upload, Goto, Labels
  <1>loops. LoopsInBounds'
    <2>1. \A q \in Runs \ {r} : pc'[q] = pc[q] /\ upload'[q] = upload[q]
                                 /\ result'[q] = result[q]
      BY DEF TypeInv, TypeOK, Upload, Goto
    <2>2. /\ pc'[r] = "find" /\ result'[r] = res
          /\ upload'[r].next = AfterCapture(r, res)
      BY DEF TypeInv, TypeOK, Upload, Goto
    <2> QED
      BY <2>1, <2>2, AfterCaptureInBounds
      DEF TypeInv, LoopsInBounds, Stage, Replaying, Files, Dirs
  <1> QED BY <1>types, <1>loops DEF TypeInv

(* What a capture step does, in the terms of the two lemmas about it.      *)
LEMMA CaptureFileStep ==
    ASSUME TypeInv, NEW r \in Runs, CaptureFile(r)
    PROVE  \E o \in OutputFile :
             LET res == [result[r] EXCEPT !.files = Append(@, o)]
             IN  /\ result[r] \in ActionResult /\ res \in ActionResult
                 /\ {Data(o.data)} \in SUBSET Blobs
                 /\ result' = [result EXCEPT ![r] = res]
                 /\ Upload(r, {Data(o.data)}, AfterCapture(r, res))
  <1> DEFINE node == At(r)[Due(r)]
             o == [path |-> Due(r), data |-> node.data, exec |-> node.exec]
  <1>1. /\ pc[r] = "capture" /\ node.kind = "file"
        /\ result' = [result EXCEPT ![r] = [result[r] EXCEPT !.files = Append(@, o)]]
        /\ Upload(r, {Data(node.data)},
                  AfterCapture(r, [result[r] EXCEPT !.files = Append(@, o)]))
    BY DEF CaptureFile
  <1>2. Due(r) \in Paths /\ result[r] \in ActionResult
    BY <1>1, DueTypes
  <1>3. node \in Node
    BY <1>2, DiskTypes DEF TypeInv
  <1>4. node \in FileLike
    BY <1>1, <1>3, NodeParts
  <1>5. o \in OutputFile /\ o.data = node.data
    BY <1>2, <1>4 DEF OutputFile, FileLike
  <1>6. Data(node.data) \in Blobs
    BY <1>4 DEF FileLike, Blobs
  <1>7. [result[r] EXCEPT !.files = Append(@, o)] \in ActionResult
    BY <1>2, <1>5, FileCaptureExtends
  <1> HIDE DEF o, node
  <1> QED BY <1>1, <1>2, <1>5, <1>6, <1>7

LEMMA CaptureDirStep ==
    ASSUME TypeInv, NEW r \in Runs, CaptureDir(r)
    PROVE  \E u \in OutputDirectory :
             LET res == [result[r] EXCEPT !.dirs = Append(@, u)]
             IN  /\ result[r] \in ActionResult /\ res \in ActionResult
                 /\ TreeBlobs(u.tree) \in SUBSET Blobs
                 /\ result' = [result EXCEPT ![r] = res]
                 /\ Upload(r, TreeBlobs(u.tree), AfterCapture(r, res))
  <1> DEFINE tree == At(r)[Due(r)].entries
             u == [path |-> Due(r), tree |-> tree]
  <1>1. /\ pc[r] = "capture" /\ At(r)[Due(r)].kind = "dir"
        /\ result' = [result EXCEPT ![r] = [result[r] EXCEPT !.dirs = Append(@, u)]]
        /\ Upload(r, TreeBlobs(tree),
                  AfterCapture(r, [result[r] EXCEPT !.dirs = Append(@, u)]))
    BY DEF CaptureDir
  <1>2. Due(r) \in Paths /\ result[r] \in ActionResult
    BY <1>1, DueTypes
  <1>3. At(r)[Due(r)] \in Node
    BY <1>2, DiskTypes DEF TypeInv
  <1>4. tree \in Trees
    BY <1>1, <1>3, NodeParts
  <1>5. u \in OutputDirectory /\ u.tree = tree
    BY <1>2, <1>4 DEF OutputDirectory
  <1>6. TreeBlobs(tree) \in SUBSET Blobs
    BY <1>4, TreeBlobsAreBlobs
  <1>7. [result[r] EXCEPT !.dirs = Append(@, u)] \in ActionResult
    BY <1>2, <1>5, DirCaptureExtends
  <1> HIDE DEF u, tree
  <1> QED BY <1>1, <1>2, <1>5, <1>6, <1>7

LEMMA CaptureFileTypes ==
    ASSUME TypeInv, NEW r \in Runs, CaptureFile(r)
    PROVE  TypeInv'
  <1>1. PICK o \in OutputFile :
          LET res == [result[r] EXCEPT !.files = Append(@, o)]
          IN  /\ res \in ActionResult
              /\ {Data(o.data)} \in SUBSET Blobs
              /\ result' = [result EXCEPT ![r] = res]
              /\ Upload(r, {Data(o.data)}, AfterCapture(r, res))
    BY CaptureFileStep
  <1>2. /\ pc[r] = "capture"
        /\ UNCHANGED <<at, shown, cas, ac, disk, executed, published>>
    BY DEF CaptureFile
  <1> QED BY <1>1, <1>2, CaptureTypes

LEMMA CaptureDirTypes ==
    ASSUME TypeInv, NEW r \in Runs, CaptureDir(r)
    PROVE  TypeInv'
  <1>1. PICK u \in OutputDirectory :
          LET res == [result[r] EXCEPT !.dirs = Append(@, u)]
          IN  /\ res \in ActionResult
              /\ TreeBlobs(u.tree) \in SUBSET Blobs
              /\ result' = [result EXCEPT ![r] = res]
              /\ Upload(r, TreeBlobs(u.tree), AfterCapture(r, res))
    BY CaptureDirStep
  <1>2. /\ pc[r] = "capture"
        /\ UNCHANGED <<at, shown, cas, ac, disk, executed, published>>
    BY DEF CaptureDir
  <1> QED BY <1>1, <1>2, CaptureTypes

-----------------------------------------------------------------------------
(* The steps of a replay write nodes.                                      *)

LEMMA WrittenIsFileLike ==
    ASSUME NEW old, NEW f, f.data \in Content, f.exec \in BOOLEAN
    PROVE  Written(old, f) \in FileLike
  BY DEF Written, FileLike

LEMMA WithEntriesTypes ==
    ASSUME TypeOK, NEW r \in Runs, NEW p \in Paths,
           NEW new, DOMAIN new \subseteq Names,
           \A n \in DOMAIN new : new[n] \in FileLike
    PROVE  WithEntries(r, p, new) \in [Cwds -> [Paths -> Node]]
  <1> DEFINE old == EntriesAt(r, p)
             merged == [n \in DOMAIN old \cup DOMAIN new |->
                          IF n \in DOMAIN new THEN new[n] ELSE old[n]]
             node == [kind |-> "dir", entries |-> merged]
  <1>1. old \in Trees
    <2>1. CASE At(r)[p].kind = "dir"
      BY <2>1, DiskTypes, NodeParts DEF EntriesAt
    <2>2. CASE At(r)[p].kind # "dir"
      <3>1. NoEntries \in [{} -> FileLike]
        BY DEF NoEntries
      <3>2. {} \in SUBSET Names
        OBVIOUS
      <3> QED BY <2>2, <3>1, <3>2 DEF EntriesAt, Trees
    <2> QED BY <2>1, <2>2
  <1>2. DOMAIN old \subseteq Names /\ \A n \in DOMAIN old : old[n] \in FileLike
    BY <1>1, TreeEntries
  <1>3. merged \in [DOMAIN old \cup DOMAIN new -> FileLike]
    BY <1>2
  <1>4. DOMAIN old \cup DOMAIN new \in SUBSET Names
    BY <1>2
  <1> HIDE DEF merged
  <1>5. merged \in Trees
    BY <1>3, <1>4 DEF Trees
  <1>6. node \in Node
    BY <1>5 DEF DirNode, Node
  <1>7. WithEntries(r, p, new) = [disk EXCEPT ![Opts[r].cwd][p] = node]
    BY DEF WithEntries, merged
  <1> HIDE DEF node
  <1>8. Opts[r].cwd \in Cwds
    BY OptsAssumption
  <1> QED BY <1>6, <1>7, <1>8 DEF TypeOK

(* A replay step that writes the disk and moves on, or fails.              *)
LEMMA ReplayStepTypes ==
    ASSUME TypeInv, NEW r \in Runs, pc[r] \in {"files", "trees", "treefiles"},
           disk' \in [Cwds -> [Paths -> Node]],
           NEW label \in Labels, pc' = [pc EXCEPT ![r] = label],
           NEW n \in Nat, at' = [at EXCEPT ![r] = n],
           label \in {"trees", "treefiles"} => n < Len(result[r].dirs),
           label \in {"trees", "treefiles", "done", "failed"},
           UNCHANGED <<upload, result, shown, cas, ac, executed, published>>
    PROVE  TypeInv'
  <1>types. TypeOK'
    BY DEF TypeInv, TypeOK
  <1>loops. LoopsInBounds'
    <2>1. result[r] \in ActionResult
      BY DEF TypeInv, LoopsInBounds, Stage, Replaying
    <2>2. \A q \in Runs \ {r} : pc'[q] = pc[q] /\ at'[q] = at[q]
      BY DEF TypeInv, TypeOK
    <2>3. pc'[r] = label /\ at'[r] = n
      BY DEF TypeInv, TypeOK
    <2> QED BY <2>1, <2>2, <2>3 DEF TypeInv, LoopsInBounds, Stage, Replaying
  <1> QED BY <1>types, <1>loops DEF TypeInv

(* Some of the recorded files, written over what is there.                 *)
LEMMA RestoredTypes ==
    ASSUME TypeInv, NEW r \in Runs, pc[r] = "files",
           NEW ids, ids \subseteq DOMAIN result[r].files
    PROVE  Restored(r, ids) \in [Paths -> Node]
  <1>1. result[r] \in ActionResult
    BY DEF TypeInv, LoopsInBounds, Stage, Replaying
  <1> SUFFICES ASSUME NEW p \in Paths
               PROVE  (IF LastAt(r, p, ids) # {}
                       THEN Written(At(r)[p], result[r].files[CHOOSE i \in LastAt(r, p, ids) : TRUE])
                       ELSE At(r)[p]) \in Node
    BY DEF Restored
  <1>2. CASE LastAt(r, p, ids) # {}
    <2> DEFINE i == CHOOSE i \in LastAt(r, p, ids) : TRUE
    <2>1. i \in LastAt(r, p, ids)
      BY <1>2
    <2>2. i \in DOMAIN result[r].files
      BY <2>1 DEF LastAt
    <2>3. result[r].files[i] \in OutputFile
      BY <1>1, <2>2, ResultParts
    <2>4. Written(At(r)[p], result[r].files[i]) \in FileLike
      BY <2>3, WrittenIsFileLike DEF OutputFile
    <2> QED BY <1>2, <2>4 DEF Node
  <1>3. CASE LastAt(r, p, ids) = {}
    BY <1>3, DiskTypes DEF TypeInv
  <1> QED BY <1>2, <1>3

LEMMA RestoreFilesTypes ==
    ASSUME TypeInv, NEW r \in Runs, RestoreFiles(r)
    PROVE  TypeInv'
  <1>1. result[r] \in ActionResult /\ at[r] = 0 /\ pc[r] = "files"
    BY DEF TypeInv, LoopsInBounds, Stage, Replaying, RestoreFiles
  <1>2. Restored(r, Restorable(r)) \in [Paths -> Node]
    <2>1. Restorable(r) \subseteq DOMAIN result[r].files
      BY DEF Restorable
    <2> QED BY <1>1, <2>1, RestoredTypes
  <1>3. Opts[r].cwd \in Cwds
    BY OptsAssumption
  <1>4. disk' \in [Cwds -> [Paths -> Node]]
    BY <1>2, <1>3 DEF TypeInv, TypeOK, RestoreFiles
  <1> DEFINE label == IF Restorable(r) = DOMAIN result[r].files
                      THEN AfterTrees(r, 0) ELSE "failed"
  <1>5. /\ label \in {"trees", "done", "failed"}
        /\ label = "trees" => 0 < Len(result[r].dirs)
    BY DEF AfterTrees
  <1>6. /\ pc' = [pc EXCEPT ![r] = label]
        /\ UNCHANGED <<upload, result, at, shown, cas, ac, executed, published>>
    BY DEF RestoreFiles, Goto
  <1>7. at' = [at EXCEPT ![r] = 0]
    BY <1>1, <1>6 DEF TypeInv, TypeOK
  <1> HIDE DEF label
  <1>8. /\ label \in Labels /\ 0 \in Nat
        /\ label \in {"trees", "treefiles", "done", "failed"}
        /\ label \in {"trees", "treefiles"} => 0 < Len(result[r].dirs)
    BY <1>5 DEF Labels
  <1> QED BY <1>1, <1>4, <1>6, <1>7, <1>8, ReplayStepTypes, Zenon

LEMMA MaterializeTreeTypes ==
    ASSUME TypeInv, NEW r \in Runs, MaterializeTree(r)
    PROVE  TypeInv'
  <1> DEFINE t   == Replayed(r).tree
             new == [n \in LinksOf(t) |-> t[n]]
  <1>1. pc[r] = "trees"
    BY DEF MaterializeTree
  <1>2. /\ at[r] \in Nat /\ at[r] < Len(result[r].dirs)
        /\ Replayed(r).path \in Paths /\ t \in Trees
    BY <1>1, ReplayedTypes DEF TypeInv, LoopsInBounds
  <1>3. DOMAIN new \subseteq Names /\ \A n \in DOMAIN new : new[n] \in FileLike
    BY <1>2, TreeEntries DEF LinksOf
  <1>4. disk' = WithEntries(r, Replayed(r).path, new)
    BY DEF MaterializeTree
  <1> HIDE DEF new
  <1>5. disk' \in [Cwds -> [Paths -> Node]]
    BY <1>2, <1>3, <1>4, WithEntriesTypes DEF TypeInv
  <1>6. /\ pc' = [pc EXCEPT ![r] = "treefiles"]
        /\ UNCHANGED <<upload, result, at, shown, cas, ac, executed, published>>
    BY DEF MaterializeTree, Goto
  <1>7. at' = [at EXCEPT ![r] = at[r]]
    BY <1>6 DEF TypeInv, TypeOK
  <1> QED BY <1>1, <1>2, <1>5, <1>6, <1>7, ReplayStepTypes DEF Labels

LEMMA MaterializeRefusedTypes ==
    ASSUME TypeInv, NEW r \in Runs, MaterializeRefused(r)
    PROVE  TypeInv'
  <1> DEFINE t   == Replayed(r).tree
             old == DOMAIN EntriesAt(r, Replayed(r).path)
  <1>1. pc[r] = "trees"
    BY DEF MaterializeRefused
  <1>2. at[r] \in Nat /\ Replayed(r).path \in Paths /\ t \in Trees
    BY <1>1, ReplayedTypes
  <1>3. disk' \in [Cwds -> [Paths -> Node]]
    <2>1. CASE At(r)[Replayed(r).path].kind \in {"absent", "dir"}
      <3>1. PICK some \in SUBSET (LinksOf(t) \ old) :
              disk' = WithEntries(r, Replayed(r).path, [n \in some |-> t[n]])
        BY <2>1 DEF MaterializeRefused
      <3> DEFINE new == [n \in some |-> t[n]]
      <3>2. DOMAIN new \subseteq Names /\ \A n \in DOMAIN new : new[n] \in FileLike
        BY <1>2, TreeEntries DEF LinksOf
      <3>3. disk' = WithEntries(r, Replayed(r).path, new)
        BY <3>1
      <3> HIDE DEF new
      <3> QED BY <1>2, <3>2, <3>3, WithEntriesTypes DEF TypeInv
    <2>2. CASE At(r)[Replayed(r).path].kind \notin {"absent", "dir"}
      BY <2>2 DEF MaterializeRefused, TypeInv, TypeOK
    <2> QED BY <2>1, <2>2
  <1>4. /\ pc' = [pc EXCEPT ![r] = "failed"]
        /\ UNCHANGED <<upload, result, at, shown, cas, ac, executed, published>>
    BY DEF MaterializeRefused, Goto
  <1>5. at' = [at EXCEPT ![r] = at[r]]
    BY <1>4 DEF TypeInv, TypeOK
  <1> QED BY <1>1, <1>2, <1>3, <1>4, <1>5, ReplayStepTypes DEF Labels

(* Some of the files of a tree, written to its directory.                  *)
LEMMA WithFilesTypes ==
    ASSUME TypeInv, NEW r \in Runs, pc[r] = "treefiles",
           NEW names, names \subseteq FilesOf(Replayed(r).tree)
    PROVE  WithFiles(r, names) \in [Cwds -> [Paths -> Node]]
  <1> DEFINE t   == Replayed(r).tree
             old == EntriesAt(r, Replayed(r).path)
             new == [n \in names |->
                       IF n \in DOMAIN old THEN Written(old[n], t[n]) ELSE t[n]]
  <1>1. Replayed(r).path \in Paths /\ t \in Trees
    BY ReplayedTypes
  <1>2. \A n \in names : n \in Names /\ t[n] \in FileLike
    BY <1>1, TreeEntries DEF FilesOf
  <1>3. \A n \in names : Written(old[n], t[n]) \in FileLike
    BY <1>2, WrittenIsFileLike DEF FileLike
  <1>4. DOMAIN new \subseteq Names /\ \A n \in DOMAIN new : new[n] \in FileLike
    BY <1>2, <1>3
  <1>5. WithFiles(r, names) = WithEntries(r, Replayed(r).path, new)
    BY DEF WithFiles
  <1> HIDE DEF new
  <1> QED BY <1>1, <1>4, <1>5, WithEntriesTypes DEF TypeInv

LEMMA WriteTreeTypes ==
    ASSUME TypeInv, NEW r \in Runs, WriteTree(r)
    PROVE  TypeInv'
  <1>1. pc[r] = "treefiles"
    BY DEF WriteTree
  <1>2. at[r] \in Nat /\ result[r] \in ActionResult
    BY <1>1, ReplayedTypes
  <1>7. disk' \in [Cwds -> [Paths -> Node]]
    BY <1>1, WithFilesTypes DEF WriteTree
  <1> DEFINE label == AfterTrees(r, at[r] + 1)
  <1>8. /\ label \in {"trees", "done"}
        /\ label = "trees" => at[r] + 1 < Len(result[r].dirs)
    BY DEF AfterTrees
  <1>9. /\ pc' = [pc EXCEPT ![r] = label]
        /\ at' = [at EXCEPT ![r] = at[r] + 1]
        /\ UNCHANGED <<upload, result, shown, cas, ac, executed, published>>
    BY DEF WriteTree, Goto
  <1> HIDE DEF label
  <1>10. label \in Labels /\ at[r] + 1 \in Nat
    BY <1>2, <1>8 DEF Labels
  <1> QED BY <1>1, <1>7, <1>8, <1>9, <1>10, ReplayStepTypes

LEMMA LeftOutTypes ==
    ASSUME TypeInv, NEW r \in Runs, LeftOut(r)
    PROVE  TypeInv'
  <1>1. pc[r] \in {"files", "trees", "treefiles"}
    BY DEF LeftOut
  <1>2. disk' \in [Cwds -> [Paths -> Node]]
    <2>1. CASE pc[r] = "files"
      <3>1. PICK i \in DOMAIN result[r].files :
              disk' = [disk EXCEPT ![Opts[r].cwd] =
                         Restored(r, {j \in Restorable(r) : j < i})]
        BY <2>1 DEF LeftOut
      <3>2. {j \in Restorable(r) : j < i} \subseteq DOMAIN result[r].files
        BY DEF Restorable
      <3>3. Restored(r, {j \in Restorable(r) : j < i}) \in [Paths -> Node]
        BY <2>1, <3>2, RestoredTypes
      <3> QED BY <3>1, <3>3 DEF TypeInv, TypeOK
    <2>2. CASE pc[r] = "trees"
      BY <2>2 DEF LeftOut, TypeInv, TypeOK
    <2>3. CASE pc[r] = "treefiles"
      <3>1. PICK some \in SUBSET FilesOf(Replayed(r).tree) : disk' = WithFiles(r, some)
        BY <2>3 DEF LeftOut
      <3> QED BY <2>3, <3>1, WithFilesTypes
    <2> QED BY <1>1, <2>1, <2>2, <2>3
  <1>3. /\ pc' = [pc EXCEPT ![r] = "failed"]
        /\ UNCHANGED <<upload, result, at, shown, cas, ac, executed, published>>
    BY DEF LeftOut, Goto
  <1>4. at[r] \in Nat /\ at' = [at EXCEPT ![r] = at[r]]
    BY <1>3 DEF TypeInv, TypeOK
  <1> QED BY <1>1, <1>2, <1>3, <1>4, ReplayStepTypes DEF Labels

-----------------------------------------------------------------------------
(* The servers' steps, and the theorem.                                    *)

LEMMA EvictTypes ==
    ASSUME TypeInv,
           \/ \E b \in EvictableBlobs : EvictBlob(b)
           \/ \E a \in EvictableActions : EvictAction(a)
    PROVE  TypeInv'
  <1>types. TypeOK'
    BY DEF TypeInv, TypeOK, EvictBlob, EvictAction
  <1>loops. LoopsInBounds'
    BY DEF TypeInv, LoopsInBounds, EvictBlob, EvictAction, Stage, Replaying
  <1> QED BY <1>types, <1>loops DEF TypeInv

LEMMA StutterTypes == TypeInv /\ UNCHANGED vars => TypeInv'
  BY DEF TypeInv, TypeOK, LoopsInBounds, vars, Stage, Replaying, Files, Dirs

LEMMA TypeStep == TypeInv /\ [Next]_vars => TypeInv'
  <1> SUFFICES ASSUME TypeInv, [Next]_vars PROVE TypeInv'
    OBVIOUS
  <1>1. ASSUME NEW r \in Runs, Step(r) PROVE TypeInv'
    <2>1. CASE Start(r)              BY <2>1, StartTypes
    <2>2. CASE FindMissing(r)        BY <2>2, FindMissingTypes
    <2>3. CASE Push(r)               BY <2>3, PushTypes
    <2>4. CASE LookupMiss(r)         BY <2>4, LookupMissTypes
    <2>5. CASE LookupHit(r)          BY <2>5, LookupHitTypes
    <2>6. CASE Execute(r)            BY <2>6, ExecuteTypes
    <2>7. CASE CaptureFile(r)        BY <2>7, CaptureFileTypes
    <2>8. CASE CaptureDir(r)         BY <2>8, CaptureDirTypes
    <2>9. CASE CaptureRefused(r)     BY <2>9, CaptureRefusedTypes
    <2>10. CASE Record(r)            BY <2>10, RecordTypes
    <2>11. CASE PrintStdout(r)       BY <2>11, PrintStdoutTypes
    <2>12. CASE PrintStderr(r)       BY <2>12, PrintStderrTypes
    <2>13. CASE RestoreFiles(r)      BY <2>13, RestoreFilesTypes
    <2>14. CASE MaterializeTree(r)   BY <2>14, MaterializeTreeTypes
    <2>15. CASE MaterializeRefused(r) BY <2>15, MaterializeRefusedTypes
    <2>16. CASE WriteTree(r)         BY <2>16, WriteTreeTypes
    <2>17. CASE WriteRefused(r)      BY <2>17, WriteRefusedTypes
    <2>18. CASE BlobGone(r)          BY <2>18, BlobGoneTypes
    <2>19. CASE LeftOut(r)           BY <2>19, LeftOutTypes
    <2> QED BY <1>1, <2>1, <2>2, <2>3, <2>4, <2>5, <2>6, <2>7, <2>8, <2>9, <2>10,
               <2>11, <2>12, <2>13, <2>14, <2>15, <2>16, <2>17, <2>18, <2>19
            DEF Step
  <1>2. ASSUME NEW r \in Runs, Fault(r) PROVE TypeInv'
    BY <1>2, PushPartlyTypes, RecordUnansweredTypes, FailTypes DEF Fault
  <1>3. CASE \E b \in EvictableBlobs : EvictBlob(b)
    BY <1>3, EvictTypes
  <1>4. CASE \E a \in EvictableActions : EvictAction(a)
    BY <1>4, EvictTypes
  <1>5. CASE Terminated \/ UNCHANGED vars
    BY <1>5, StutterTypes DEF Terminated
  <1> QED BY <1>1, <1>2, <1>3, <1>4, <1>5 DEF Next

(* Every variable keeps its type, whatever the options, the commands, the  *)
(* faults and the evictions: results stay well formed while outputs are    *)
(* appended, and each write of a replay leaves well-formed nodes.          *)
THEOREM TypeCorrect == Spec => []TypeOK
  <1>1. TypeInv => TypeOK
    BY DEF TypeInv
  <1> QED BY TypeInit, TypeStep, <1>1, PTL DEF Spec

-----------------------------------------------------------------------------
(* Referential integrity.  On its own it is not inductive: an invocation   *)
(* about to record must be known to have stored what its result refers to. *)
(* OwedOrPending says so of every moment of an invocation.                 *)

RefInv == TypeInv /\ ReferentialIntegrity /\ OwedOrPending

LEMMA RefInit == Init => RefInv
  <1> SUFFICES ASSUME Init PROVE RefInv
    OBVIOUS
  <1>1. ReferentialIntegrity
    BY DEF Init, ReferentialIntegrity, Actions
  <1>2. OwedOrPending
    BY DEF Init, OwedOrPending
  <1> QED BY <1>1, <1>2, TypeInit DEF RefInv

(* A step of r that takes nothing from the CAS and leaves the ActionCache  *)
(* alone need only account for r's own blobs.                              *)
LEMMA OwnStep ==
    ASSUME RefInv, NEW r \in Runs,
           cas \subseteq cas', ac' = ac,
           \A q \in Runs \ {r} : /\ pc'[q] = pc[q] /\ upload'[q] = upload[q]
                                 /\ result'[q] = result[q],
           pc'[r] \notin {"start", "failed"} =>
             (Refs(result'[r]) \cup KeyBlobs(r)) \ EvictableBlobs
               \subseteq cas' \cup Pending(r)'
    PROVE  ReferentialIntegrity' /\ OwedOrPending'
  <1>1. ReferentialIntegrity'
    BY DEF RefInv, ReferentialIntegrity
  <1>2. ASSUME NEW q \in Runs \ {r}, pc'[q] \notin {"start", "failed"}
        PROVE  (Refs(result'[q]) \cup KeyBlobs(q)) \ EvictableBlobs
                 \subseteq cas' \cup Pending(q)'
    <2>1. (Refs(result[q]) \cup KeyBlobs(q)) \ EvictableBlobs
            \subseteq cas \cup Pending(q)
      BY <1>2 DEF RefInv, OwedOrPending
    <2>2. Pending(q)' = Pending(q) /\ result'[q] = result[q]
      BY <1>2 DEF Pending
    <2> QED BY <2>1, <2>2
  <1>3. OwedOrPending'
    BY <1>2 DEF OwedOrPending
  <1> QED BY <1>1, <1>3

(* In particular a step that adds no reference and moves on from where     *)
(* nothing is pending to where nothing is.                                 *)
LEMMA QuietStep ==
    ASSUME RefInv, NEW r \in Runs,
           pc[r] \notin {"start", "find", "push", "failed"},
           NEW label, label \notin {"start", "find", "push"},
           pc' = [pc EXCEPT ![r] = label],
           UNCHANGED <<upload, result, cas, ac>>
    PROVE  ReferentialIntegrity' /\ OwedOrPending'
  <1>1. Pending(r) = {} /\ Pending(r)' = {}
    BY DEF Pending, RefInv, TypeInv, TypeOK
  <1>2. (Refs(result'[r]) \cup KeyBlobs(r)) \ EvictableBlobs \subseteq cas' \cup Pending(r)'
    BY <1>1 DEF RefInv, OwedOrPending
  <1>3. \A q \in Runs \ {r} : pc'[q] = pc[q]
    BY DEF RefInv, TypeInv, TypeOK
  <1> QED BY <1>2, <1>3, OwnStep

(* Starting an upload of what is newly owed keeps the account.             *)
LEMMA UploadStep ==
    ASSUME RefInv, NEW r \in Runs,
           NEW blobs, NEW next, Upload(r, blobs, next),
           NEW res, result' = [result EXCEPT ![r] = res],
           UNCHANGED <<cas, ac>>,
           (Refs(res) \cup KeyBlobs(r)) \ EvictableBlobs \subseteq cas \cup blobs
    PROVE  ReferentialIntegrity' /\ OwedOrPending'
  <1>1. /\ pc'[r] = "find" /\ upload'[r].blobs = blobs /\ result'[r] = res
        /\ \A q \in Runs \ {r} : /\ pc'[q] = pc[q] /\ upload'[q] = upload[q]
                                 /\ result'[q] = result[q]
    BY DEF RefInv, TypeInv, TypeOK, Upload, Goto
  <1>2. Pending(r)' = blobs
    BY <1>1 DEF Pending
  <1> QED BY <1>1, <1>2, OwnStep

LEMMA StartRefs ==
    ASSUME RefInv, NEW r \in Runs, Start(r)
    PROVE  ReferentialIntegrity' /\ OwedOrPending'
  <1>1. Refs(result[r]) = {}
    BY DEF RefInv, TypeInv, LoopsInBounds, Start, Refs
  <1>2. result' = [result EXCEPT ![r] = result[r]]
    BY DEF RefInv, TypeInv, TypeOK, Start
  <1>3. UNCHANGED <<cas, ac>>
    BY DEF Start
  <1>4. PICK next : Upload(r, KeyBlobs(r), next)
    BY DEF Start
  <1> QED BY <1>1, <1>2, <1>3, <1>4, UploadStep

LEMMA FindMissingRefs ==
    ASSUME RefInv, NEW r \in Runs, FindMissing(r)
    PROVE  ReferentialIntegrity' /\ OwedOrPending'
  <1>1. /\ pc[r] = "find" /\ pc'[r] = "push"
        /\ upload'[r].missing = upload[r].blobs \ cas
        /\ \A q \in Runs \ {r} : pc'[q] = pc[q] /\ upload'[q] = upload[q]
        /\ UNCHANGED <<result, cas, ac>>
    BY DEF RefInv, TypeInv, TypeOK, FindMissing, Goto
  <1>2. Pending(r) = upload[r].blobs /\ Pending(r)' = upload[r].blobs \ cas
    BY <1>1 DEF Pending
  <1>3. (Refs(result'[r]) \cup KeyBlobs(r)) \ EvictableBlobs \subseteq cas' \cup Pending(r)'
    BY <1>1, <1>2 DEF RefInv, OwedOrPending
  <1> QED BY <1>1, <1>3, OwnStep

LEMMA PushRefs ==
    ASSUME RefInv, NEW r \in Runs, Push(r)
    PROVE  ReferentialIntegrity' /\ OwedOrPending'
  <1>1. /\ pc[r] = "push" /\ pc'[r] = upload[r].next
        /\ cas' = cas \cup upload[r].missing
        /\ \A q \in Runs \ {r} : pc'[q] = pc[q] /\ upload'[q] = upload[q]
        /\ UNCHANGED <<result, ac>>
    BY DEF RefInv, TypeInv, TypeOK, Push, Goto
  <1>2. upload[r].next \notin {"find", "push"}
    BY <1>1 DEF RefInv, TypeInv, LoopsInBounds
  <1>3. Pending(r) = upload[r].missing /\ Pending(r)' = {}
    BY <1>1, <1>2 DEF Pending
  <1>4. (Refs(result'[r]) \cup KeyBlobs(r)) \ EvictableBlobs \subseteq cas' \cup Pending(r)'
    BY <1>1, <1>3 DEF RefInv, OwedOrPending
  <1> QED BY <1>1, <1>4, OwnStep

(* A step that ends an invocation in failure owes nothing.                 *)
LEMMA FailureRefs ==
    ASSUME RefInv, NEW r \in Runs,
           cas \subseteq cas', ac' = ac, pc' = [pc EXCEPT ![r] = "failed"],
           \A q \in Runs \ {r} : upload'[q] = upload[q],
           UNCHANGED result
    PROVE  ReferentialIntegrity' /\ OwedOrPending'
  <1>1. /\ pc'[r] = "failed"
        /\ \A q \in Runs \ {r} : pc'[q] = pc[q]
    BY DEF RefInv, TypeInv, TypeOK
  <1> QED BY <1>1, OwnStep

LEMMA LookupHitRefs ==
    ASSUME RefInv, NEW r \in Runs, LookupHit(r)
    PROVE  ReferentialIntegrity' /\ OwedOrPending'
  <1>1. /\ pc'[r] = "stdout" /\ result'[r] = ac[ActionOf(r)]
        /\ ac[ActionOf(r)] # Nothing
        /\ \A q \in Runs \ {r} : pc'[q] = pc[q] /\ result'[q] = result[q]
        /\ UNCHANGED <<upload, cas, ac>>
    BY DEF RefInv, TypeInv, TypeOK, LookupHit, Goto
  <1>2. (Refs(ac[ActionOf(r)]) \cup KeyBlobs(r)) \ EvictableBlobs \subseteq cas
    BY <1>1 DEF RefInv, ReferentialIntegrity
  <1> QED BY <1>1, <1>2, OwnStep

LEMMA ExecuteRefs ==
    ASSUME RefInv, NEW r \in Runs, Execute(r)
    PROVE  ReferentialIntegrity' /\ OwedOrPending'
  <1>1. PICK b \in Behaviours[Opts[r].argv] :
          LET res == [code |-> b.code, stdout |-> b.stdout,
                      stderr |-> b.stderr, files |-> <<>>, dirs |-> <<>>]
          IN  /\ result' = [result EXCEPT ![r] = res]
              /\ Upload(r, StreamRefs(res), AfterCapture(r, res))
    BY DEF Execute
  <1> DEFINE res == [code |-> b.code, stdout |-> b.stdout,
                     stderr |-> b.stderr, files |-> <<>>, dirs |-> <<>>]
  <1>2. Refs(res) \subseteq StreamRefs(res)
    BY DEF Refs, FileRefs, DirRefs
  <1>3. pc[r] = "spawn" /\ UNCHANGED <<cas, ac>>
    BY DEF Execute
  <1>4. KeyBlobs(r) \ EvictableBlobs \subseteq cas
    BY <1>3 DEF RefInv, OwedOrPending, Pending
  <1>5. (Refs(res) \cup KeyBlobs(r)) \ EvictableBlobs \subseteq cas \cup StreamRefs(res)
    BY <1>2, <1>4
  <1> HIDE DEF res
  <1>6. /\ result' = [result EXCEPT ![r] = res]
        /\ Upload(r, StreamRefs(res), AfterCapture(r, res))
    BY <1>1 DEF res
  <1> QED BY <1>3, <1>5, <1>6, UploadStep

LEMMA CaptureFileRefs ==
    ASSUME RefInv, NEW r \in Runs, CaptureFile(r)
    PROVE  ReferentialIntegrity' /\ OwedOrPending'
  <1>1. PICK o \in OutputFile :
          LET res == [result[r] EXCEPT !.files = Append(@, o)]
          IN  /\ result[r] \in ActionResult
              /\ result' = [result EXCEPT ![r] = res]
              /\ Upload(r, {Data(o.data)}, AfterCapture(r, res))
    BY CaptureFileStep DEF RefInv
  <1> DEFINE res == [result[r] EXCEPT !.files = Append(@, o)]
  <1>2. Refs(res) \subseteq Refs(result[r]) \cup {Data(o.data)}
    BY <1>1, FileRefsExtend
  <1>3. pc[r] = "capture" /\ UNCHANGED <<cas, ac>>
    BY DEF CaptureFile
  <1>4. (Refs(result[r]) \cup KeyBlobs(r)) \ EvictableBlobs \subseteq cas
    BY <1>3 DEF RefInv, OwedOrPending, Pending
  <1> HIDE DEF res
  <1>5. /\ result' = [result EXCEPT ![r] = res]
        /\ Upload(r, {Data(o.data)}, AfterCapture(r, res))
    BY <1>1 DEF res
  <1> QED BY <1>2, <1>3, <1>4, <1>5, UploadStep

LEMMA CaptureDirRefs ==
    ASSUME RefInv, NEW r \in Runs, CaptureDir(r)
    PROVE  ReferentialIntegrity' /\ OwedOrPending'
  <1>1. PICK u \in OutputDirectory :
          LET res == [result[r] EXCEPT !.dirs = Append(@, u)]
          IN  /\ result[r] \in ActionResult
              /\ result' = [result EXCEPT ![r] = res]
              /\ Upload(r, TreeBlobs(u.tree), AfterCapture(r, res))
    BY CaptureDirStep DEF RefInv
  <1> DEFINE res == [result[r] EXCEPT !.dirs = Append(@, u)]
  <1>2. Refs(res) \subseteq Refs(result[r]) \cup TreeBlobs(u.tree)
    BY <1>1, DirRefsExtend
  <1>3. pc[r] = "capture" /\ UNCHANGED <<cas, ac>>
    BY DEF CaptureDir
  <1>4. (Refs(result[r]) \cup KeyBlobs(r)) \ EvictableBlobs \subseteq cas
    BY <1>3 DEF RefInv, OwedOrPending, Pending
  <1> HIDE DEF res
  <1>5. /\ result' = [result EXCEPT ![r] = res]
        /\ Upload(r, TreeBlobs(u.tree), AfterCapture(r, res))
    BY <1>1 DEF res
  <1> QED BY <1>2, <1>3, <1>4, <1>5, UploadStep

(* What is recorded is stored: this is the step the invariant is for.      *)
LEMMA RecordRefs ==
    ASSUME RefInv, NEW r \in Runs, pc[r] = "record", Publish(r),
           NEW label \in {"done", "failed"}, pc' = [pc EXCEPT ![r] = label],
           UNCHANGED <<upload, result, cas>>
    PROVE  ReferentialIntegrity' /\ OwedOrPending'
  <1>1. (Refs(result[r]) \cup KeyBlobs(r)) \ EvictableBlobs \subseteq cas
    BY DEF RefInv, OwedOrPending, Pending
  <1>2. ASSUME NEW q \in Runs, ac'[ActionOf(q)] # Nothing
        PROVE  (Refs(ac'[ActionOf(q)]) \cup KeyBlobs(q)) \ EvictableBlobs \subseteq cas
    <2>1. ActionOf(q) \in Actions /\ ActionOf(r) \in Actions
      BY DEF Actions
    <2>2. CASE ActionOf(q) = ActionOf(r)
      <3>1. CommandOf(Opts[q]) = CommandOf(Opts[r])
        BY <2>2 DEF ActionOf
      <3>2. KeyBlobs(q) = KeyBlobs(r)
        BY <2>2, <3>1 DEF KeyBlobs
      <3>3. ac'[ActionOf(q)] = result[r]
        BY <2>1, <2>2 DEF Publish, RefInv, TypeInv, TypeOK
      <3> QED BY <1>1, <3>2, <3>3
    <2>3. CASE ActionOf(q) # ActionOf(r)
      <3>1. ac'[ActionOf(q)] = ac[ActionOf(q)]
        BY <2>1, <2>3 DEF Publish, RefInv, TypeInv, TypeOK
      <3> QED BY <1>2, <3>1 DEF RefInv, ReferentialIntegrity
    <2> QED BY <2>2, <2>3
  <1>3. ReferentialIntegrity'
    BY <1>2 DEF ReferentialIntegrity
  <1>4. OwedOrPending'
    BY <1>1 DEF RefInv, TypeInv, TypeOK, OwedOrPending, Pending
  <1> QED BY <1>3, <1>4

LEMMA EvictRefs ==
    ASSUME RefInv,
           \/ \E b \in EvictableBlobs : EvictBlob(b)
           \/ \E a \in EvictableActions : EvictAction(a)
    PROVE  ReferentialIntegrity' /\ OwedOrPending'
  <1>1. CASE \E b \in EvictableBlobs : EvictBlob(b)
    <2>1. cas \ EvictableBlobs \subseteq cas'
      BY <1>1 DEF EvictBlob
    <2>2. UNCHANGED <<pc, upload, result, ac>>
      BY <1>1 DEF EvictBlob
    <2>3. ReferentialIntegrity'
      BY <2>1, <2>2 DEF RefInv, ReferentialIntegrity
    <2>4. OwedOrPending'
      BY <2>1, <2>2 DEF RefInv, OwedOrPending, Pending
    <2> QED BY <2>3, <2>4
  <1>2. CASE \E a \in EvictableActions : EvictAction(a)
    <2>1. PICK a : ac' = [ac EXCEPT ![a] = Nothing]
      BY <1>2 DEF EvictAction
    <2>2. UNCHANGED <<pc, upload, result, cas>>
      BY <1>2 DEF EvictAction
    <2>3. \A q \in Runs : ac'[ActionOf(q)] \in {ac[ActionOf(q)], Nothing}
      BY <2>1 DEF RefInv, TypeInv, TypeOK, Actions
    <2>4. ReferentialIntegrity'
      BY <2>2, <2>3 DEF RefInv, ReferentialIntegrity
    <2>5. OwedOrPending'
      BY <2>2 DEF RefInv, OwedOrPending, Pending
    <2> QED BY <2>4, <2>5
  <1> QED BY <1>1, <1>2

LEMMA RefStep == RefInv /\ [Next]_vars => RefInv'
  <1> SUFFICES ASSUME RefInv, [Next]_vars
               PROVE  ReferentialIntegrity' /\ OwedOrPending'
    BY TypeStep DEF RefInv
  <1>1. ASSUME NEW r \in Runs, Step(r)
        PROVE  ReferentialIntegrity' /\ OwedOrPending'
    <2>1. CASE Start(r)              BY <2>1, StartRefs
    <2>2. CASE FindMissing(r)        BY <2>2, FindMissingRefs
    <2>3. CASE Push(r)               BY <2>3, PushRefs
    <2>4. CASE LookupMiss(r)         BY <2>4, QuietStep DEF LookupMiss, Goto
    <2>5. CASE LookupHit(r)          BY <2>5, LookupHitRefs
    <2>6. CASE Execute(r)            BY <2>6, ExecuteRefs
    <2>7. CASE CaptureFile(r)        BY <2>7, CaptureFileRefs
    <2>8. CASE CaptureDir(r)         BY <2>8, CaptureDirRefs
    <2>9. CASE CaptureRefused(r)     BY <2>9, FailureRefs DEF CaptureRefused, Goto
    <2>10. CASE Record(r)            BY <2>10, RecordRefs DEF Record, Goto
    <2>11. CASE PrintStdout(r)       BY <2>11, QuietStep DEF PrintStdout, Goto
    <2>12. CASE PrintStderr(r)       BY <2>12, QuietStep DEF PrintStderr, Goto
    <2>13. CASE RestoreFiles(r)
      <3> DEFINE label == IF Restorable(r) = DOMAIN result[r].files
                          THEN AfterTrees(r, 0) ELSE "failed"
      <3>1. label \notin {"start", "find", "push"}
        BY DEF AfterTrees
      <3>2. /\ pc[r] = "files" /\ pc' = [pc EXCEPT ![r] = label]
            /\ UNCHANGED <<upload, result, cas, ac>>
        BY <2>13 DEF RestoreFiles, Goto
      <3> HIDE DEF label
      <3> QED BY <3>1, <3>2, QuietStep
    <2>14. CASE MaterializeTree(r)   BY <2>14, QuietStep DEF MaterializeTree, Goto
    <2>15. CASE MaterializeRefused(r)
      BY <2>15, FailureRefs DEF MaterializeRefused, Goto
    <2>16. CASE WriteTree(r)
      <3> DEFINE label == AfterTrees(r, at[r] + 1)
      <3>1. label \notin {"start", "find", "push"}
        BY DEF AfterTrees
      <3>2. /\ pc[r] = "treefiles" /\ pc' = [pc EXCEPT ![r] = label]
            /\ UNCHANGED <<upload, result, cas, ac>>
        BY <2>16 DEF WriteTree, Goto
      <3> HIDE DEF label
      <3> QED BY <3>1, <3>2, QuietStep
    <2>17. CASE WriteRefused(r)      BY <2>17, FailureRefs DEF WriteRefused, Goto
    <2>18. CASE BlobGone(r)          BY <2>18, FailureRefs DEF BlobGone, Goto
    <2>19. CASE LeftOut(r)           BY <2>19, FailureRefs DEF LeftOut, Goto
    <2> QED BY <1>1, <2>1, <2>2, <2>3, <2>4, <2>5, <2>6, <2>7, <2>8, <2>9, <2>10,
               <2>11, <2>12, <2>13, <2>14, <2>15, <2>16, <2>17, <2>18, <2>19
            DEF Step
  <1>2. ASSUME NEW r \in Runs, Fault(r)
        PROVE  ReferentialIntegrity' /\ OwedOrPending'
    <2>1. CASE PushPartly(r)
      <3>1. /\ cas \subseteq cas' /\ ac' = ac /\ pc' = [pc EXCEPT ![r] = "failed"]
            /\ \A q \in Runs \ {r} : upload'[q] = upload[q]
            /\ UNCHANGED result
        BY <2>1 DEF PushPartly, Goto, RefInv, TypeInv, TypeOK
      <3> QED BY <3>1, FailureRefs
    <2>2. CASE RecordUnanswered(r)   BY <2>2, RecordRefs DEF RecordUnanswered, Goto
    <2>3. CASE Fail(r)
      <3>1. /\ cas \subseteq cas' /\ ac' = ac /\ pc' = [pc EXCEPT ![r] = "failed"]
            /\ \A q \in Runs \ {r} : upload'[q] = upload[q]
            /\ UNCHANGED result
        BY <2>3 DEF Fail, Goto, RefInv, TypeInv, TypeOK
      <3> QED BY <3>1, FailureRefs
    <2> QED BY <1>2, <2>1, <2>2, <2>3 DEF Fault
  <1>3. CASE (\E b \in EvictableBlobs : EvictBlob(b))
             \/ (\E a \in EvictableActions : EvictAction(a))
    BY <1>3, EvictRefs
  <1>4. CASE Terminated \/ UNCHANGED vars
    BY <1>4 DEF Terminated, RefInv, ReferentialIntegrity, OwedOrPending, Pending, vars
  <1> QED BY <1>1, <1>2, <1>3, <1>4 DEF Next

(* Whatever the ActionCache refers to, the CAS holds, unless the CAS       *)
(* dropped it itself: for any interleaving of any number of invocations,   *)
(* with partial uploads, lost answers and deaths anywhere.                 *)
THEOREM CacheIsReferentiallyIntact == Spec => []ReferentialIntegrity
  <1>1. RefInv => ReferentialIntegrity
    BY DEF RefInv
  <1> QED BY RefInit, RefStep, <1>1, PTL DEF Spec

(* What an invocation owes is stored or on its way, at every moment.       *)
THEOREM NothingOwedIsForgotten == Spec => []OwedOrPending
  <1>1. RefInv => OwedOrPending
    BY DEF RefInv
  <1> QED BY RefInit, RefStep, <1>1, PTL DEF Spec

(* Each download of a replay asks for what the replayed result refers to.  *)
LEMMA WantedIsReferred ==
    ASSUME TypeInv, NEW r \in Runs, pc[r] \in Replaying
    PROVE  Wanted(r) \subseteq Refs(result[r])
  <1>1. result[r] \in ActionResult /\ result[r] # Nothing
    BY NothingAssumption DEF TypeInv, LoopsInBounds, Stage, Replaying
  <1>2. CASE pc[r] \in {"stdout", "stderr"}
    BY <1>1, <1>2 DEF Wanted, Refs, StreamRefs
  <1>3. CASE pc[r] = "files"
    BY <1>1, <1>3 DEF Wanted, Refs
  <1>4. CASE pc[r] \in {"trees", "treefiles"}
    <2>1. at[r] + 1 \in DOMAIN result[r].dirs
      BY <1>4, ReplayedTypes
    <2>2. {<<"tree", Replayed(r).tree>>} \cup FileBlobs(Replayed(r).tree)
            \subseteq DirRefs(result[r])
      BY <2>1 DEF DirRefs, Replayed
    <2> QED BY <1>1, <1>4, <2>2 DEF Wanted, Refs
  <1> QED BY <1>2, <1>3, <1>4 DEF Replaying

(* A hit never meets a missing blob that the CAS did not drop itself.      *)
THEOREM HitsAlwaysResolve == Spec => []HitsResolve
  <1>1. RefInv => HitsResolve
    <2> SUFFICES ASSUME RefInv, NEW r \in Runs, pc[r] \in Replaying
                 PROVE  Wanted(r) \ EvictableBlobs \subseteq cas
      BY DEF HitsResolve
    <2>1. Refs(result[r]) \ EvictableBlobs \subseteq cas
      BY DEF RefInv, OwedOrPending, Pending, Replaying
    <2>2. Wanted(r) \subseteq Refs(result[r])
      BY WantedIsReferred DEF RefInv
    <2> QED BY <2>1, <2>2
  <1> QED BY RefInit, RefStep, <1>1, PTL DEF Spec

-----------------------------------------------------------------------------
(***************************************************************************)
(* Memoization is sound: what the ActionCache gives to an invocation is    *)
(* what one execution of its own command left behind, for any number of    *)
(* invocations, any interleaving, any faults and evictions, as long as     *)
(* those that share a directory run one after the other.                   *)
(***************************************************************************)

(* The inductive invariant.                                                *)

(* An invocation started after those that come before it had ended.        *)
InTurn ==
    \A r \in Runs :
      pc[r] \notin {"start", "failed"} =>
        \A q \in Runs : q \in After[r] => Finished(q)

(* Who has executed its command, and who may use the cache.                *)
InStage(r) ==
    /\ Stage(r) \in {"start", "lookup", "spawn"} \cup Replaying =>
         executed[r] = Nothing
    /\ Stage(r) \in {"capture", "record"} => executed[r] # Nothing
    /\ Stage(r) \in {"lookup", "record"} \cup Replaying => ~Opts[r].noCache
    /\ (pc[r] \in {"find", "push"} /\ Stage(r) = "done") =>
         Opts[r].noCache /\ executed[r] # Nothing

(* Nobody touches what a command left behind before it is captured.        *)
Undisturbed(r) ==
    (executed[r] # Nothing /\ ~Finished(r)) => At(r) = executed[r].left

(* res is what was left behind, of the outputs whose turn has come.        *)
CapturedSoFar(o, e, res) ==
    /\ res.code = e.code /\ res.stdout = e.stdout /\ res.stderr = e.stderr
    /\ Len(res.files) <= Len(o.files)
    /\ Len(res.dirs) <= Len(o.dirs)
    /\ \A i \in DOMAIN res.files :
         /\ e.left[o.files[i]].kind = "file"
         /\ res.files[i] = [path |-> o.files[i], data |-> e.left[o.files[i]].data,
                            exec |-> e.left[o.files[i]].exec]
    /\ \A i \in DOMAIN res.dirs :
         /\ e.left[o.dirs[i]].kind = "dir"
         /\ res.dirs[i] = [path |-> o.dirs[i], tree |-> e.left[o.dirs[i]].entries]
AllCaptured(o, res) ==
    Len(res.files) = Len(o.files) /\ Len(res.dirs) = Len(o.dirs)

Assembled(r) ==
    (executed[r] # Nothing /\ pc[r] # "failed") =>
      /\ result[r] \in ActionResult
      /\ CapturedSoFar(Opts[r], executed[r], result[r])
      /\ Stage(r) \in {"record", "done"} => AllCaptured(Opts[r], result[r])

(* What is replayed was recorded for this very action.                     *)
Recalled(r) ==
    (executed[r] = Nothing /\ pc[r] \in Replaying \cup {"done"}) =>
      <<ActionOf(r), result[r]>> \in published

Sound(r) == InStage(r) /\ Undisturbed(r) /\ Assembled(r) /\ Recalled(r)

Entries == \A a \in Actions : ac[a] # Nothing => <<a, ac[a]>> \in published

(* Everything recorded is the whole result of one execution.               *)
Origins ==
    \A entry \in published :
      \E q \in Runs :
        /\ executed[q] # Nothing
        /\ ~Opts[q].noCache
        /\ Complete(Opts[q], executed[q])
        /\ entry = <<ActionOf(q), Captured(Opts[q], executed[q])>>

MemoInv == /\ TypeInv
           /\ InTurn
           /\ \A r \in Runs : Sound(r)
           /\ Entries
           /\ Origins

-----------------------------------------------------------------------------
(* Capturing.                                                              *)

LEMMA OptionTypes ==
    ASSUME NEW r \in Runs
    PROVE  /\ Opts[r].files \in Seq(Paths)
           /\ Opts[r].dirs \in Seq(Paths)
           /\ Len(Opts[r].files) \in Nat /\ Len(Opts[r].dirs) \in Nat
           /\ DOMAIN Opts[r].files = 1..Len(Opts[r].files)
           /\ DOMAIN Opts[r].dirs = 1..Len(Opts[r].dirs)
           /\ \A i \in 1..Len(Opts[r].files) : Opts[r].files[i] \in Paths
           /\ \A i \in 1..Len(Opts[r].dirs) : Opts[r].dirs[i] \in Paths
           /\ Opts[r].noCache \in BOOLEAN
  BY OptsAssumption

LEMMA CapturedIsResult ==
    ASSUME NEW r \in Runs, NEW e \in Execution, Complete(Opts[r], e)
    PROVE  Captured(Opts[r], e) \in ActionResult
  <1> DEFINE f == [i \in 1..Len(Opts[r].files) |->
                     [path |-> Opts[r].files[i], data |-> e.left[Opts[r].files[i]].data,
                      exec |-> e.left[Opts[r].files[i]].exec]]
             d == [i \in 1..Len(Opts[r].dirs) |->
                     [path |-> Opts[r].dirs[i], tree |-> e.left[Opts[r].dirs[i]].entries]]
  <1>1. \A i \in 1..Len(Opts[r].files) :
          /\ Opts[r].files[i] \in Paths
          /\ e.left[Opts[r].files[i]] \in FileLike
    <2> TAKE i \in 1..Len(Opts[r].files)
    <2>1. Opts[r].files[i] \in Paths
      BY OptionTypes
    <2>2. e.left[Opts[r].files[i]] \in Node
      BY <2>1 DEF Execution
    <2>3. e.left[Opts[r].files[i]].kind = "file"
      BY OptionTypes DEF Complete
    <2> QED BY <2>1, <2>2, <2>3, NodeParts
  <1>2. \A i \in 1..Len(Opts[r].dirs) :
          /\ Opts[r].dirs[i] \in Paths
          /\ e.left[Opts[r].dirs[i]].entries \in Trees
    <2> TAKE i \in 1..Len(Opts[r].dirs)
    <2>1. Opts[r].dirs[i] \in Paths
      BY OptionTypes
    <2>2. e.left[Opts[r].dirs[i]] \in Node
      BY <2>1 DEF Execution
    <2>3. e.left[Opts[r].dirs[i]].kind = "dir"
      BY OptionTypes DEF Complete
    <2> QED BY <2>1, <2>2, <2>3, NodeParts
  <1>3. f \in Seq(OutputFile)
    <2>1. \A i \in 1..Len(Opts[r].files) : f[i] \in OutputFile
      BY <1>1 DEF OutputFile, FileLike
    <2>2. f \in [1..Len(Opts[r].files) -> OutputFile]
      BY <2>1
    <2> HIDE DEF f
    <2> QED BY <2>2, OptionTypes, SeqDef
  <1>4. d \in Seq(OutputDirectory)
    <2>1. \A i \in 1..Len(Opts[r].dirs) : d[i] \in OutputDirectory
      BY <1>2 DEF OutputDirectory
    <2>2. d \in [1..Len(Opts[r].dirs) -> OutputDirectory]
      BY <2>1
    <2> HIDE DEF d
    <2> QED BY <2>2, OptionTypes, SeqDef
  <1>5. Captured(Opts[r], e) = [code |-> e.code, stdout |-> e.stdout,
                                stderr |-> e.stderr, files |-> f, dirs |-> d]
    BY DEF Captured
  <1> HIDE DEF f, d
  <1> QED BY <1>3, <1>4, <1>5 DEF ActionResult, Execution

(* Once every declared output is captured, the result is the execution's.  *)
LEMMA FullCapture ==
    ASSUME NEW r \in Runs, NEW e \in Execution, NEW res \in ActionResult,
           CapturedSoFar(Opts[r], e, res), AllCaptured(Opts[r], res)
    PROVE  Complete(Opts[r], e) /\ res = Captured(Opts[r], e)
  <1>1. /\ DOMAIN res.files = 1..Len(Opts[r].files)
        /\ DOMAIN res.dirs = 1..Len(Opts[r].dirs)
    BY ResultParts DEF AllCaptured
  <1>2. Complete(Opts[r], e)
    BY <1>1, OptionTypes DEF Complete, CapturedSoFar
  <1> DEFINE f == [i \in 1..Len(Opts[r].files) |->
                     [path |-> Opts[r].files[i], data |-> e.left[Opts[r].files[i]].data,
                      exec |-> e.left[Opts[r].files[i]].exec]]
             d == [i \in 1..Len(Opts[r].dirs) |->
                     [path |-> Opts[r].dirs[i], tree |-> e.left[Opts[r].dirs[i]].entries]]
  <1>3. res.files = f
    <2>1. res.files = [i \in 1..Len(Opts[r].files) |-> res.files[i]]
      BY <1>1, ResultParts
    <2>2. \A i \in 1..Len(Opts[r].files) : res.files[i] = f[i]
      BY <1>1 DEF CapturedSoFar
    <2> QED BY <2>1, <2>2
  <1>4. res.dirs = d
    <2>1. res.dirs = [i \in 1..Len(Opts[r].dirs) |-> res.dirs[i]]
      BY <1>1, ResultParts
    <2>2. \A i \in 1..Len(Opts[r].dirs) : res.dirs[i] = d[i]
      BY <1>1 DEF CapturedSoFar
    <2> QED BY <2>1, <2>2
  <1>5. Captured(Opts[r], e) = [code |-> e.code, stdout |-> e.stdout,
                                stderr |-> e.stderr, files |-> f, dirs |-> d]
    BY DEF Captured
  <1> HIDE DEF f, d
  <1>6. res = [code |-> e.code, stdout |-> e.stdout, stderr |-> e.stderr,
               files |-> f, dirs |-> d]
    BY <1>3, <1>4 DEF ActionResult, CapturedSoFar
  <1> QED BY <1>2, <1>5, <1>6

(* A capture takes the output whose turn it is.                            *)
LEMMA FileCapturedNext ==
    ASSUME NEW r \in Runs, NEW e, NEW res \in ActionResult, NEW o \in OutputFile,
           CapturedSoFar(Opts[r], e, res),
           Len(res.files) < Len(Opts[r].files),
           LET p == Opts[r].files[Len(res.files) + 1]
           IN  /\ e.left[p].kind = "file"
               /\ o = [path |-> p, data |-> e.left[p].data, exec |-> e.left[p].exec]
    PROVE  CapturedSoFar(Opts[r], e, [res EXCEPT !.files = Append(@, o)])
  <1> DEFINE new == [res EXCEPT !.files = Append(@, o)]
  <1>1. /\ new.files = Append(res.files, o) /\ new.dirs = res.dirs
        /\ new.code = res.code /\ new.stdout = res.stdout /\ new.stderr = res.stderr
    BY DEF ActionResult
  <1> HIDE DEF new
  <1>2. /\ DOMAIN new.files = 1..(Len(res.files) + 1)
        /\ Len(new.files) = Len(res.files) + 1
        /\ \A i \in DOMAIN res.files : new.files[i] = res.files[i]
        /\ new.files[Len(res.files) + 1] = o
        /\ DOMAIN res.files = 1..Len(res.files)
        /\ Len(res.files) \in Nat
    <2>1. res.files \in Seq(OutputFile)
      BY ResultParts
    <2>2. o \in OutputFile
      OBVIOUS
    <2> QED BY ONLY <1>1, <2>1, <2>2, AppendProperties
  <1>3. \A i \in DOMAIN new.files :
          /\ e.left[Opts[r].files[i]].kind = "file"
          /\ new.files[i] = [path |-> Opts[r].files[i],
                             data |-> e.left[Opts[r].files[i]].data,
                             exec |-> e.left[Opts[r].files[i]].exec]
    <2> TAKE i \in DOMAIN new.files
    <2>1. i \in DOMAIN res.files \/ i = Len(res.files) + 1
      BY <1>2
    <2>2. CASE i \in DOMAIN res.files
      BY <1>2, <2>2 DEF CapturedSoFar
    <2>3. CASE i = Len(res.files) + 1
      BY <1>2, <2>3
    <2> QED BY <2>1, <2>2, <2>3
  <1>4. Len(new.files) <= Len(Opts[r].files)
    <2>1. Len(Opts[r].files) \in Nat
      BY OptionTypes
    <2>2. Len(res.files) < Len(Opts[r].files)
      OBVIOUS
    <2> QED BY ONLY <1>2, <2>1, <2>2
  <1>5. /\ new.code = e.code /\ new.stdout = e.stdout /\ new.stderr = e.stderr
        /\ Len(new.dirs) <= Len(Opts[r].dirs)
    BY <1>1 DEF CapturedSoFar
  <1>6. \A i \in DOMAIN new.dirs :
          /\ e.left[Opts[r].dirs[i]].kind = "dir"
          /\ new.dirs[i] = [path |-> Opts[r].dirs[i],
                             tree |-> e.left[Opts[r].dirs[i]].entries]
    <2>1. \A i \in DOMAIN res.dirs :
            /\ e.left[Opts[r].dirs[i]].kind = "dir"
            /\ res.dirs[i] = [path |-> Opts[r].dirs[i],
                               tree |-> e.left[Opts[r].dirs[i]].entries]
      BY DEF CapturedSoFar
    <2> QED BY <1>1, <2>1
  <1>7. CapturedSoFar(Opts[r], e, new)
    BY ONLY <1>3, <1>4, <1>5, <1>6 DEF CapturedSoFar
  <1> QED BY <1>7 DEF new

LEMMA DirCapturedNext ==
    ASSUME NEW r \in Runs, NEW e, NEW res \in ActionResult, NEW u \in OutputDirectory,
           CapturedSoFar(Opts[r], e, res),
           Len(res.dirs) < Len(Opts[r].dirs),
           LET p == Opts[r].dirs[Len(res.dirs) + 1]
           IN  /\ e.left[p].kind = "dir"
               /\ u = [path |-> p, tree |-> e.left[p].entries]
    PROVE  CapturedSoFar(Opts[r], e, [res EXCEPT !.dirs = Append(@, u)])
  <1> DEFINE new == [res EXCEPT !.dirs = Append(@, u)]
  <1>1. /\ new.dirs = Append(res.dirs, u) /\ new.files = res.files
        /\ new.code = res.code /\ new.stdout = res.stdout /\ new.stderr = res.stderr
    BY DEF ActionResult
  <1> HIDE DEF new
  <1>2. /\ DOMAIN new.dirs = 1..(Len(res.dirs) + 1)
        /\ Len(new.dirs) = Len(res.dirs) + 1
        /\ \A i \in DOMAIN res.dirs : new.dirs[i] = res.dirs[i]
        /\ new.dirs[Len(res.dirs) + 1] = u
        /\ DOMAIN res.dirs = 1..Len(res.dirs)
        /\ Len(res.dirs) \in Nat
    <2>1. res.dirs \in Seq(OutputDirectory)
      BY ResultParts
    <2>2. u \in OutputDirectory
      OBVIOUS
    <2> QED BY ONLY <1>1, <2>1, <2>2, AppendProperties
  <1>3. \A i \in DOMAIN new.dirs :
          /\ e.left[Opts[r].dirs[i]].kind = "dir"
          /\ new.dirs[i] = [path |-> Opts[r].dirs[i],
                            tree |-> e.left[Opts[r].dirs[i]].entries]
    <2> TAKE i \in DOMAIN new.dirs
    <2>1. i \in DOMAIN res.dirs \/ i = Len(res.dirs) + 1
      BY <1>2
    <2>2. CASE i \in DOMAIN res.dirs
      BY <1>2, <2>2 DEF CapturedSoFar
    <2>3. CASE i = Len(res.dirs) + 1
      BY <1>2, <2>3
    <2> QED BY <2>1, <2>2, <2>3
  <1>4. Len(new.dirs) <= Len(Opts[r].dirs)
    <2>1. Len(Opts[r].dirs) \in Nat
      BY OptionTypes
    <2>2. Len(res.dirs) < Len(Opts[r].dirs)
      OBVIOUS
    <2> QED BY ONLY <1>2, <2>1, <2>2
  <1>5. /\ new.code = e.code /\ new.stdout = e.stdout /\ new.stderr = e.stderr
        /\ Len(new.files) <= Len(Opts[r].files)
    BY <1>1 DEF CapturedSoFar
  <1>6. \A i \in DOMAIN new.files :
          /\ e.left[Opts[r].files[i]].kind = "file"
          /\ new.files[i] = [path |-> Opts[r].files[i],
                             data |-> e.left[Opts[r].files[i]].data,
                             exec |-> e.left[Opts[r].files[i]].exec]
    <2>1. \A i \in DOMAIN res.files :
            /\ e.left[Opts[r].files[i]].kind = "file"
            /\ res.files[i] = [path |-> Opts[r].files[i],
                               data |-> e.left[Opts[r].files[i]].data,
                               exec |-> e.left[Opts[r].files[i]].exec]
      BY DEF CapturedSoFar
    <2> QED BY <1>1, <2>1
  <1>7. CapturedSoFar(Opts[r], e, new)
    BY ONLY <1>3, <1>4, <1>5, <1>6 DEF CapturedSoFar
  <1> QED BY <1>7 DEF new

-----------------------------------------------------------------------------
(* What a step of one invocation leaves alone.                             *)

Frame(r) ==
    /\ ~Finished(r)
    /\ pc'[r] # "start"
    /\ pc[r] = "start" => \/ pc'[r] = "failed"
                          \/ \A q \in Runs : q \in After[r] => Finished(q)
    /\ \A q \in Runs \ {r} : /\ pc'[q] = pc[q]
                             /\ upload'[q] = upload[q]
                             /\ result'[q] = result[q]
                             /\ executed'[q] = executed[q]
    /\ executed[r] # Nothing => executed'[r] = executed[r]
    /\ \/ UNCHANGED disk
       \/ /\ pc[r] # "start"
          /\ \A c \in Cwds : c # Opts[r].cwd => disk'[c] = disk[c]

LEMMA InTurnKept ==
    ASSUME InTurn, NEW r \in Runs, Frame(r)
    PROVE  InTurn'
  <1> SUFFICES ASSUME NEW s \in Runs, pc'[s] \notin {"start", "failed"},
                      NEW q \in Runs, q \in After[s]
               PROVE  Finished(q)'
    BY DEF InTurn
  <1>1. Finished(q)
    <2>1. CASE s = r
      BY <2>1 DEF Frame, InTurn, Finished
    <2>2. CASE s # r
      BY <2>2 DEF Frame, InTurn
    <2> QED BY <2>1, <2>2
  <1>2. q # r
    BY <1>1 DEF Frame
  <1> QED BY <1>1, <1>2 DEF Frame, Finished

(* Two invocations under way do not share a directory.                     *)
LEMMA Apart ==
    ASSUME Separate, InTurn, NEW q \in Runs, NEW r \in Runs, q # r,
           pc[q] # "start", pc[r] # "start", ~Finished(q), ~Finished(r)
    PROVE  Opts[q].cwd # Opts[r].cwd
  BY DEF Separate, InTurn, Finished

(* So the others find their directories as they left them.                 *)
LEMMA DirectoryKept ==
    ASSUME Separate, MemoInv, NEW r \in Runs, Frame(r), NEW q \in Runs \ {r},
           pc[q] # "start", ~Finished(q)
    PROVE  At(q)' = At(q)
  <1>1. CASE UNCHANGED disk
    BY <1>1 DEF At
  <1>2. CASE pc[r] # "start" /\ \A c \in Cwds : c # Opts[r].cwd => disk'[c] = disk[c]
    <2>1. Opts[q].cwd # Opts[r].cwd
      BY <1>2, Apart DEF Frame, MemoInv
    <2>2. Opts[q].cwd \in Cwds
      BY OptsAssumption
    <2> QED BY <1>2, <2>1, <2>2 DEF At
  <1> QED BY <1>1, <1>2 DEF Frame

LEMMA OthersKept ==
    ASSUME Separate, MemoInv, NEW r \in Runs, Frame(r), published \subseteq published',
           NEW q \in Runs \ {r}
    PROVE  Sound(q)'
  <1>1. /\ pc'[q] = pc[q] /\ upload'[q] = upload[q]
        /\ result'[q] = result[q] /\ executed'[q] = executed[q]
    BY DEF Frame
  <1>2. Stage(q)' = Stage(q) /\ (Finished(q)' <=> Finished(q))
    BY <1>1 DEF Stage, Finished
  <1>3. InStage(q) /\ Undisturbed(q) /\ Assembled(q) /\ Recalled(q)
    BY DEF MemoInv, Sound
  <1>4. InStage(q)'
    BY <1>1, <1>2, <1>3 DEF InStage
  <1>5. Undisturbed(q)'
    <2> SUFFICES ASSUME executed[q] # Nothing, ~Finished(q)
                 PROVE  At(q)' = executed[q].left
      BY <1>1, <1>2 DEF Undisturbed
    <2>1. At(q) = executed[q].left
      BY <1>3 DEF Undisturbed
    <2>2. pc[q] # "start"
      BY <1>3 DEF InStage, Stage
    <2> QED BY <2>1, <2>2, DirectoryKept
  <1>6. Assembled(q)'
    BY <1>1, <1>2, <1>3 DEF Assembled
  <1>7. Recalled(q)'
    BY <1>1, <1>3 DEF Recalled
  <1> QED BY <1>4, <1>5, <1>6, <1>7 DEF Sound

(* Executions are not taken back, so neither is where a result comes from. *)
LEMMA OriginsKept ==
    ASSUME Origins, published' = published,
           \A q \in Runs : executed[q] # Nothing => executed'[q] = executed[q]
    PROVE  Origins'
  <1> SUFFICES ASSUME NEW entry \in published
               PROVE  \E q \in Runs :
                        /\ executed'[q] # Nothing
                        /\ ~Opts[q].noCache
                        /\ Complete(Opts[q], executed'[q])
                        /\ entry = <<ActionOf(q), Captured(Opts[q], executed'[q])>>
    BY DEF Origins
  <1>1. PICK q \in Runs :
          /\ executed[q] # Nothing
          /\ ~Opts[q].noCache
          /\ Complete(Opts[q], executed[q])
          /\ entry = <<ActionOf(q), Captured(Opts[q], executed[q])>>
    BY DEF Origins
  <1>2. executed'[q] = executed[q]
    BY <1>1
  <1> QED BY <1>1, <1>2

(* A step that records nothing is sound if its own invocation stays so.    *)
LEMMA OwnStepSound ==
    ASSUME Separate, MemoInv, NEW r \in Runs, Frame(r),
           UNCHANGED <<ac, published>>, Sound(r)', TypeInv'
    PROVE  MemoInv'
  <1>1. InTurn'
    BY InTurnKept DEF MemoInv
  <1>2. \A q \in Runs : Sound(q)'
    BY OthersKept
  <1>3. Entries'
    BY DEF MemoInv, Entries
  <1>4. Origins'
    BY OriginsKept DEF MemoInv, Frame
  <1> QED BY <1>1, <1>2, <1>3, <1>4 DEF MemoInv

-----------------------------------------------------------------------------
(* The steps of an invocation.                                             *)

LEMMA ExecuteEffect ==
    ASSUME NEW r \in Runs, Execute(r)
    PROVE  \E left, e, res, next :
             /\ disk' = [disk EXCEPT ![Opts[r].cwd] = left]
             /\ executed' = [executed EXCEPT ![r] = e]
             /\ result' = [result EXCEPT ![r] = res]
             /\ Upload(r, StreamRefs(res), next)
             /\ next \in {"capture", "record", "done"}
  <1>1. PICK b \in Behaviours[Opts[r].argv] :
          LET left == [p \in Paths |->
                         IF p \in DOMAIN b.writes THEN b.writes[p] ELSE At(r)[p]]
              res == [code |-> b.code, stdout |-> b.stdout,
                      stderr |-> b.stderr, files |-> <<>>, dirs |-> <<>>]
          IN  /\ disk' = [disk EXCEPT ![Opts[r].cwd] = left]
              /\ executed' = [executed EXCEPT ![r] =
                                [code |-> b.code, stdout |-> b.stdout,
                                 stderr |-> b.stderr, left |-> left]]
              /\ result' = [result EXCEPT ![r] = res]
              /\ Upload(r, StreamRefs(res), AfterCapture(r, res))
    BY Zenon DEF Execute
  <1> DEFINE left == [p \in Paths |->
                        IF p \in DOMAIN b.writes THEN b.writes[p] ELSE At(r)[p]]
             res == [code |-> b.code, stdout |-> b.stdout,
                     stderr |-> b.stderr, files |-> <<>>, dirs |-> <<>>]
             e == [code |-> b.code, stdout |-> b.stdout,
                   stderr |-> b.stderr, left |-> left]
  <1>2. /\ disk' = [disk EXCEPT ![Opts[r].cwd] = left]
        /\ executed' = [executed EXCEPT ![r] = e]
        /\ result' = [result EXCEPT ![r] = res]
        /\ Upload(r, StreamRefs(res), AfterCapture(r, res))
    BY <1>1
  <1>3. AfterCapture(r, res) \in {"capture", "record", "done"}
    BY DEF AfterCapture
  <1> HIDE DEF left, res, e
  <1> QED BY <1>2, <1>3

LEMMA StepFrame ==
    ASSUME MemoInv, NEW r \in Runs, Step(r) \/ Fault(r)
    PROVE  Frame(r)
  <1>types. /\ pc \in [Runs -> Labels]
            /\ DOMAIN upload = Runs /\ DOMAIN result = Runs /\ DOMAIN executed = Runs
            /\ DOMAIN disk = Cwds /\ Opts[r].cwd \in Cwds
    BY OptsAssumption DEF MemoInv, TypeInv, TypeOK
  <1>1. CASE Start(r)
    BY <1>1, <1>types DEF Start, Upload, Goto, Frame, Finished
  <1>2. CASE FindMissing(r)
    BY <1>2, <1>types DEF FindMissing, Goto, Frame, Finished
  <1>3. CASE LookupMiss(r)
    BY <1>3, <1>types DEF LookupMiss, Goto, Frame, Finished
  <1>4. CASE LookupHit(r)
    BY <1>4, <1>types DEF LookupHit, Goto, Frame, Finished
  <1>5. CASE CaptureRefused(r)
    BY <1>5, <1>types DEF CaptureRefused, Goto, Frame, Finished
  <1>6. CASE Record(r)
    BY <1>6, <1>types DEF Record, Publish, Goto, Frame, Finished
  <1>7. CASE PrintStdout(r)
    BY <1>7, <1>types DEF PrintStdout, Goto, Frame, Finished
  <1>8. CASE PrintStderr(r)
    BY <1>8, <1>types DEF PrintStderr, Goto, Frame, Finished
  <1>9. CASE WriteRefused(r)
    BY <1>9, <1>types DEF WriteRefused, Goto, Frame, Finished
  <1>10. CASE BlobGone(r)
    BY <1>10, <1>types DEF BlobGone, Replaying, Goto, Frame, Finished
  <1>11. CASE Push(r) \/ PushPartly(r)
    <2>1. upload[r].next # "start"
      BY <1>11 DEF Push, PushPartly, MemoInv, TypeInv, LoopsInBounds
    <2> QED BY <1>11, <2>1, <1>types DEF Push, PushPartly, Goto, Frame, Finished
  <1>12. CASE RecordUnanswered(r) \/ Fail(r)
    BY <1>12, <1>types DEF RecordUnanswered, Publish, Fail, Goto, Frame, Finished
  <1>13. CASE CaptureFile(r)
    BY <1>13, <1>types DEF CaptureFile, Upload, Goto, Frame, Finished
  <1>14. CASE CaptureDir(r)
    BY <1>14, <1>types DEF CaptureDir, Upload, Goto, Frame, Finished
  <1>15. CASE Execute(r)
    <2>1. executed[r] = Nothing
      BY <1>15 DEF Execute, MemoInv, Sound, InStage, Stage
    <2>2. PICK left, e, res, next :
            /\ disk' = [disk EXCEPT ![Opts[r].cwd] = left]
            /\ executed' = [executed EXCEPT ![r] = e]
            /\ result' = [result EXCEPT ![r] = res]
            /\ Upload(r, StreamRefs(res), next)
      BY <1>15, ExecuteEffect
    <2> QED BY <1>15, <2>1, <2>2, <1>types DEF Execute, Upload, Goto, Frame, Finished
  <1>16. CASE RestoreFiles(r)
    <2>1. PICK label : label # "start" /\ Goto(r, label)
      BY <1>16 DEF RestoreFiles, AfterTrees
    <2> QED BY <1>16, <2>1, <1>types DEF RestoreFiles, Goto, Frame, Finished
  <1>17. CASE MaterializeTree(r) \/ MaterializeRefused(r) \/ WriteTree(r)
    <2>1. UNCHANGED disk \/ \E p, new : disk' = WithEntries(r, p, new)
      BY <1>17 DEF MaterializeTree, MaterializeRefused, WriteTree, WithFiles
    <2>2. \A c \in Cwds : c # Opts[r].cwd => disk'[c] = disk[c]
      BY <2>1, <1>types DEF WithEntries
    <2>3. PICK label : label # "start" /\ Goto(r, label)
      BY <1>17 DEF MaterializeTree, MaterializeRefused, WriteTree, AfterTrees
    <2> QED BY <1>17, <2>2, <2>3, <1>types
            DEF MaterializeTree, MaterializeRefused, WriteTree, Goto, Frame, Finished
  <1>18. CASE LeftOut(r)
    <2>1. \/ UNCHANGED disk
          \/ \E new : disk' = [disk EXCEPT ![Opts[r].cwd] = new]
          \/ \E p, new : disk' = WithEntries(r, p, new)
      BY <1>18 DEF LeftOut, WithFiles
    <2>2. \A c \in Cwds : c # Opts[r].cwd => disk'[c] = disk[c]
      BY <2>1, <1>types DEF WithEntries
    <2>3. Goto(r, "failed") /\ pc[r] # "start"
      BY <1>18 DEF LeftOut
    <2> QED BY <1>18, <2>2, <2>3, <1>types DEF LeftOut, Goto, Frame, Finished
  <1> QED BY <1>1, <1>2, <1>3, <1>4, <1>5, <1>6, <1>7, <1>8, <1>9, <1>10, <1>11, <1>12, <1>13, <1>14, <1>15, <1>16, <1>17, <1>18 DEF Step, Fault

(* An invocation that has failed claims nothing.                           *)
LEMMA FailedSound ==
    ASSUME NEW r \in Runs, pc'[r] = "failed"
    PROVE  Sound(r)'
  BY DEF Sound, InStage, Undisturbed, Assembled, Recalled, Stage, Finished, Replaying

(* An upload changes neither the stage nor what was captured.              *)
LEMMA SameStageSound ==
    ASSUME MemoInv, NEW r \in Runs, pc[r] \in {"find", "push"},
           pc'[r] # "start", Stage(r)' = Stage(r),
           UNCHANGED <<result, disk, executed, published>>
    PROVE  Sound(r)'
  <1>1. InStage(r) /\ Undisturbed(r) /\ Assembled(r)
    BY DEF MemoInv, Sound
  <1>2. Stage(r) \in {"lookup", "spawn", "capture", "record", "done"}
    BY DEF MemoInv, TypeInv, LoopsInBounds, Stage
  <1>3. InStage(r)'
    BY <1>1, <1>2 DEF InStage
  <1>4. Undisturbed(r)'
    BY <1>1 DEF Undisturbed, Finished, At
  <1>5. Assembled(r)'
    BY <1>1 DEF Assembled
  <1>6. Recalled(r)'
    <2> SUFFICES ASSUME executed[r] = Nothing, pc'[r] \in Replaying \cup {"done"}
                 PROVE  FALSE
      BY DEF Recalled
    <2>1. Stage(r)' = pc'[r]
      BY DEF Stage, Replaying
    <2>2. Stage(r) = "done"
      BY <1>2, <2>1 DEF Replaying
    <2> QED BY <1>1, <2>2 DEF InStage
  <1> QED BY <1>3, <1>4, <1>5, <1>6 DEF Sound

(* Before it executes or recalls, an invocation has no result to answer    *)
(* for.                                                                    *)
LEMMA EarlySound ==
    ASSUME NEW r \in Runs, executed'[r] = Nothing,
           Stage(r)' \in {"lookup", "spawn"},
           Stage(r)' = "lookup" => ~Opts[r].noCache,
           pc'[r] \notin Replaying \cup {"done"}
    PROVE  Sound(r)'
  BY DEF Sound, InStage, Undisturbed, Assembled, Recalled, Stage, Replaying

LEMMA ReplaySound ==
    ASSUME MemoInv, NEW r \in Runs, pc[r] \in Replaying,
           pc'[r] \in Replaying \cup {"done"},
           UNCHANGED <<result, executed, published>>
    PROVE  Sound(r)'
  <1>1. InStage(r) /\ Recalled(r)
    BY DEF MemoInv, Sound
  <1>2. Stage(r) = pc[r] /\ Stage(r)' = pc'[r]
    BY DEF Stage, Replaying
  <1>3. executed[r] = Nothing /\ ~Opts[r].noCache
    BY <1>1, <1>2 DEF InStage
  <1>4. <<ActionOf(r), result[r]>> \in published
    BY <1>1, <1>3 DEF Recalled
  <1>5. InStage(r)'
    BY <1>2, <1>3 DEF InStage, Replaying
  <1>6. Recalled(r)'
    BY <1>4 DEF Recalled
  <1> QED BY <1>3, <1>5, <1>6 DEF Sound, Undisturbed, Assembled

LEMMA LookupHitSound ==
    ASSUME MemoInv, NEW r \in Runs, LookupHit(r)
    PROVE  Sound(r)'
  <1>1. ActionOf(r) \in Actions
    BY DEF Actions
  <1>2. /\ pc[r] = "lookup" /\ pc'[r] = "stdout" /\ result'[r] = ac[ActionOf(r)]
        /\ ac[ActionOf(r)] # Nothing
        /\ UNCHANGED <<executed, published>>
    BY DEF MemoInv, TypeInv, TypeOK, LookupHit, Goto
  <1>3. executed[r] = Nothing /\ ~Opts[r].noCache
    BY <1>2 DEF MemoInv, Sound, InStage, Stage
  <1>4. <<ActionOf(r), ac[ActionOf(r)]>> \in published
    BY <1>1, <1>2 DEF MemoInv, Entries
  <1>5. InStage(r)' /\ Recalled(r)'
    BY <1>2, <1>3, <1>4 DEF InStage, Recalled, Stage, Replaying
  <1> QED BY <1>2, <1>3, <1>5 DEF Sound, Undisturbed, Assembled

(* Where an invocation goes when res is what it has captured.              *)
LEMMA AfterCaptureStage ==
    ASSUME NEW r \in Runs, NEW e, NEW res \in ActionResult,
           CapturedSoFar(Opts[r], e, res),
           NEW label, label = AfterCapture(r, res)
    PROVE  /\ label \in {"capture", "record", "done"}
           /\ label # "capture" => AllCaptured(Opts[r], res)
           /\ label = "record" => ~Opts[r].noCache
           /\ label = "done" => Opts[r].noCache
  <1>1. /\ Len(res.files) \in Nat /\ Len(res.dirs) \in Nat
        /\ Len(Opts[r].files) \in Nat /\ Len(Opts[r].dirs) \in Nat
    BY ResultParts, OptionTypes
  <1>2. Len(res.files) <= Len(Opts[r].files) /\ Len(res.dirs) <= Len(Opts[r].dirs)
    BY DEF CapturedSoFar
  <1>3. label # "capture" => AllCaptured(Opts[r], res)
    BY <1>1, <1>2 DEF AfterCapture, AllCaptured, Files, Dirs
  <1> QED BY <1>3, OptionTypes DEF AfterCapture

(* An upload that starts with res captured of what was left behind.        *)
LEMMA UploadSound ==
    ASSUME MemoInv, NEW r \in Runs, NEW blobs, NEW res \in ActionResult,
           Upload(r, blobs, AfterCapture(r, res)),
           result'[r] = res,
           executed'[r] # Nothing,
           At(r)' = executed'[r].left,
           CapturedSoFar(Opts[r], executed'[r], res)
    PROVE  Sound(r)'
  <1>1. pc'[r] = "find" /\ upload'[r].next = AfterCapture(r, res)
    BY DEF MemoInv, TypeInv, TypeOK, Upload, Goto
  <1>2. Stage(r)' = AfterCapture(r, res)
    BY <1>1 DEF Stage
  <1> DEFINE label == AfterCapture(r, res)
  <1>3. /\ label \in {"capture", "record", "done"}
        /\ label # "capture" => AllCaptured(Opts[r], res)
        /\ label = "record" => ~Opts[r].noCache
        /\ label = "done" => Opts[r].noCache
    BY AfterCaptureStage
  <1> HIDE DEF label
  <1>4. Stage(r)' = label
    BY <1>2 DEF label
  <1>5. InStage(r)'
    BY <1>1, <1>3, <1>4 DEF InStage, Replaying
  <1>6. Assembled(r)'
    BY <1>1, <1>3, <1>4 DEF Assembled
  <1>7. Undisturbed(r)' /\ Recalled(r)'
    BY DEF Undisturbed, Recalled
  <1> QED BY <1>5, <1>6, <1>7 DEF Sound

LEMMA ExecuteSound ==
    ASSUME MemoInv, TypeInv', NEW r \in Runs, Execute(r)
    PROVE  Sound(r)'
  <1>1. PICK b \in Behaviours[Opts[r].argv] :
          LET left == [p \in Paths |->
                         IF p \in DOMAIN b.writes THEN b.writes[p] ELSE At(r)[p]]
              res == [code |-> b.code, stdout |-> b.stdout,
                      stderr |-> b.stderr, files |-> <<>>, dirs |-> <<>>]
          IN  /\ disk' = [disk EXCEPT ![Opts[r].cwd] = left]
              /\ executed' = [executed EXCEPT ![r] =
                                [code |-> b.code, stdout |-> b.stdout,
                                 stderr |-> b.stderr, left |-> left]]
              /\ result' = [result EXCEPT ![r] = res]
              /\ Upload(r, StreamRefs(res), AfterCapture(r, res))
    BY Zenon DEF Execute
  <1> DEFINE left == [p \in Paths |->
                        IF p \in DOMAIN b.writes THEN b.writes[p] ELSE At(r)[p]]
             res == [code |-> b.code, stdout |-> b.stdout,
                     stderr |-> b.stderr, files |-> <<>>, dirs |-> <<>>]
             e == [code |-> b.code, stdout |-> b.stdout,
                   stderr |-> b.stderr, left |-> left]
  <1>2. /\ disk' = [disk EXCEPT ![Opts[r].cwd] = left]
        /\ executed' = [executed EXCEPT ![r] = e]
        /\ result' = [result EXCEPT ![r] = res]
        /\ Upload(r, StreamRefs(res), AfterCapture(r, res))
    BY <1>1
  <1>3. IsOutcome(b)
    BY OptsAssumption, BehavioursAssumption
  <1>4. res \in ActionResult
    BY <1>3 DEF IsOutcome, ActionResult
  <1>5. CapturedSoFar(Opts[r], e, res)
    BY OptionTypes DEF CapturedSoFar
  <1>6. e.left = left
    OBVIOUS
  <1>7. e # Nothing
    <2>1. left \in [Paths -> Node]
      BY <1>3, DiskTypes DEF MemoInv, TypeInv, IsOutcome
    <2>2. e \in Execution
      BY <1>3, <2>1 DEF IsOutcome, Execution
    <2> QED BY <2>2, NothingAssumption
  <1> HIDE DEF left, res, e
  <1>8. /\ disk'[Opts[r].cwd] = left /\ executed'[r] = e /\ result'[r] = res
    BY <1>2, OptsAssumption DEF MemoInv, TypeInv, TypeOK
  <1> QED BY <1>2, <1>4, <1>5, <1>6, <1>7, <1>8, UploadSound DEF At

(* What an invocation captures is what its command left behind.            *)
LEMMA CaptureState ==
    ASSUME MemoInv, NEW r \in Runs, pc[r] = "capture"
    PROVE  /\ executed[r] # Nothing
           /\ At(r) = executed[r].left
           /\ CapturedSoFar(Opts[r], executed[r], result[r])
           /\ result[r] \in ActionResult
           /\ Len(result[r].files) \in Nat /\ Len(result[r].dirs) \in Nat
           /\ \/ Len(result[r].files) < Len(Opts[r].files)
              \/ Len(result[r].dirs) < Len(Opts[r].dirs)
  <1>1. InStage(r) /\ Undisturbed(r) /\ Assembled(r)
    BY DEF MemoInv, Sound
  <1>2. executed[r] # Nothing
    BY <1>1 DEF InStage, Stage
  <1>3. At(r) = executed[r].left /\ CapturedSoFar(Opts[r], executed[r], result[r])
    BY <1>1, <1>2 DEF Undisturbed, Assembled, Finished
  <1>4. /\ result[r] \in ActionResult
        /\ \/ Len(result[r].files) < Len(Opts[r].files)
           \/ Len(result[r].dirs) < Len(Opts[r].dirs)
    BY DEF MemoInv, TypeInv, LoopsInBounds, Stage, Files, Dirs
  <1> QED BY <1>2, <1>3, <1>4, ResultParts

LEMMA CaptureFileSound ==
    ASSUME MemoInv, NEW r \in Runs, CaptureFile(r)
    PROVE  Sound(r)'
  <1> DEFINE o == [path |-> Due(r), data |-> At(r)[Due(r)].data,
                   exec |-> At(r)[Due(r)].exec]
             res == [result[r] EXCEPT !.files = Append(@, o)]
  <1>1. /\ pc[r] = "capture" /\ DueKind(r) = "file" /\ At(r)[Due(r)].kind = "file"
        /\ result' = [result EXCEPT ![r] = res]
        /\ Upload(r, {Data(At(r)[Due(r)].data)}, AfterCapture(r, res))
        /\ UNCHANGED <<disk, executed>>
    BY DEF CaptureFile
  <1>2. /\ executed[r] # Nothing
        /\ At(r) = executed[r].left
        /\ CapturedSoFar(Opts[r], executed[r], result[r])
        /\ result[r] \in ActionResult
    BY <1>1, CaptureState
  <1>3. /\ Len(result[r].files) < Len(Opts[r].files)
        /\ Due(r) = Opts[r].files[Len(result[r].files) + 1]
    BY <1>1 DEF DueKind, Due, Files
  <1>4. o \in OutputFile
    <2>1. Due(r) \in Paths
      BY <1>1, DueTypes DEF MemoInv
    <2>2. At(r)[Due(r)] \in Node
      BY <2>1, DiskTypes DEF MemoInv, TypeInv
    <2>3. At(r)[Due(r)] \in FileLike
      BY <1>1, <2>2, NodeParts
    <2> QED BY <2>1, <2>3 DEF OutputFile, FileLike
  <1>5. res \in ActionResult
    BY <1>2, <1>4, FileCaptureExtends
  <1>6. CapturedSoFar(Opts[r], executed[r], res)
    <2>1. LET p == Opts[r].files[Len(result[r].files) + 1]
          IN  /\ executed[r].left[p].kind = "file"
              /\ o = [path |-> p, data |-> executed[r].left[p].data,
                      exec |-> executed[r].left[p].exec]
      BY <1>1, <1>2, <1>3
    <2> HIDE DEF o
    <2> QED BY <1>2, <1>3, <1>4, <2>1, FileCapturedNext
  <1> HIDE DEF res, o
  <1>7. result'[r] = res
    BY <1>1 DEF MemoInv, TypeInv, TypeOK
  <1>8. executed'[r] = executed[r] /\ At(r)' = executed[r].left
    BY <1>1, <1>2 DEF At
  <1> QED BY <1>1, <1>2, <1>5, <1>6, <1>7, <1>8, UploadSound

LEMMA CaptureDirSound ==
    ASSUME MemoInv, NEW r \in Runs, CaptureDir(r)
    PROVE  Sound(r)'
  <1> DEFINE u == [path |-> Due(r), tree |-> At(r)[Due(r)].entries]
             res == [result[r] EXCEPT !.dirs = Append(@, u)]
  <1>1. /\ pc[r] = "capture" /\ DueKind(r) = "dir" /\ At(r)[Due(r)].kind = "dir"
        /\ result' = [result EXCEPT ![r] = res]
        /\ Upload(r, TreeBlobs(At(r)[Due(r)].entries), AfterCapture(r, res))
        /\ UNCHANGED <<disk, executed>>
    BY DEF CaptureDir
  <1>2. /\ executed[r] # Nothing
        /\ At(r) = executed[r].left
        /\ CapturedSoFar(Opts[r], executed[r], result[r])
        /\ result[r] \in ActionResult
        /\ \/ Len(result[r].files) < Len(Opts[r].files)
           \/ Len(result[r].dirs) < Len(Opts[r].dirs)
    BY <1>1, CaptureState
  <1>3. /\ Len(result[r].dirs) < Len(Opts[r].dirs)
        /\ Due(r) = Opts[r].dirs[Len(result[r].dirs) + 1]
    BY <1>1, <1>2 DEF DueKind, Due, Files, Dirs
  <1>4. u \in OutputDirectory
    <2>1. Due(r) \in Paths
      BY <1>1, DueTypes DEF MemoInv
    <2>2. At(r)[Due(r)] \in Node
      BY <2>1, DiskTypes DEF MemoInv, TypeInv
    <2>3. At(r)[Due(r)].entries \in Trees
      BY <1>1, <2>2, NodeParts
    <2> QED BY <2>1, <2>3 DEF OutputDirectory
  <1>5. res \in ActionResult
    BY <1>2, <1>4, DirCaptureExtends
  <1>6. CapturedSoFar(Opts[r], executed[r], res)
    <2>1. LET p == Opts[r].dirs[Len(result[r].dirs) + 1]
          IN  /\ executed[r].left[p].kind = "dir"
              /\ u = [path |-> p, tree |-> executed[r].left[p].entries]
      BY <1>1, <1>2, <1>3
    <2> HIDE DEF u
    <2> QED BY <1>2, <1>3, <1>4, <2>1, DirCapturedNext
  <1> HIDE DEF res, u
  <1>7. result'[r] = res
    BY <1>1 DEF MemoInv, TypeInv, TypeOK
  <1>8. executed'[r] = executed[r] /\ At(r)' = executed[r].left
    BY <1>1, <1>2 DEF At
  <1> QED BY <1>1, <1>2, <1>5, <1>6, <1>7, <1>8, UploadSound

(* What an invocation records is the whole result of its own execution.    *)
LEMMA AtRecord ==
    ASSUME MemoInv, NEW r \in Runs, Stage(r) \in {"record", "done"},
           executed[r] # Nothing
    PROVE  /\ executed[r] \in Execution
           /\ result[r] \in ActionResult
           /\ Complete(Opts[r], executed[r])
           /\ result[r] = Captured(Opts[r], executed[r])
  <1>1. executed[r] \in Execution
    BY DEF MemoInv, TypeInv, TypeOK
  <1>2. /\ CapturedSoFar(Opts[r], executed[r], result[r])
        /\ AllCaptured(Opts[r], result[r])
        /\ result[r] \in ActionResult
    BY DEF MemoInv, Sound, Assembled, Stage
  <1> QED BY <1>1, <1>2, FullCapture

LEMMA RecordSound ==
    ASSUME Separate, MemoInv, NEW r \in Runs, Frame(r), TypeInv',
           pc[r] = "record", Publish(r),
           NEW label \in {"done", "failed"}, pc' = [pc EXCEPT ![r] = label],
           UNCHANGED <<upload, result, executed>>
    PROVE  MemoInv'
  <1>1. /\ executed[r] # Nothing /\ ~Opts[r].noCache
        /\ Stage(r) = "record"
    BY DEF MemoInv, Sound, InStage, Stage
  <1>2. /\ Complete(Opts[r], executed[r])
        /\ result[r] = Captured(Opts[r], executed[r])
    BY <1>1, AtRecord
  <1>3. Sound(r)'
    <2>1. pc'[r] = label
      BY DEF MemoInv, TypeInv, TypeOK
    <2>2. CASE label = "failed"
      BY <2>1, <2>2, FailedSound
    <2>3. CASE label = "done"
      <3>1. Assembled(r)'
        BY <1>1, <2>1, <2>3 DEF MemoInv, Sound, Assembled, Stage
      <3>2. InStage(r)' /\ Undisturbed(r)' /\ Recalled(r)'
        BY <1>1, <2>1, <2>3 DEF InStage, Undisturbed, Recalled, Stage, Finished, Replaying
      <3> QED BY <3>1, <3>2 DEF Sound
    <2> QED BY <2>2, <2>3
  <1>4. published' = published \cup {<<ActionOf(r), result[r]>>}
    BY DEF Publish
  <1>5. \A q \in Runs : Sound(q)'
    BY <1>3, <1>4, OthersKept
  <1>6. InTurn'
    BY InTurnKept DEF MemoInv
  <1>7. Entries'
    <2> SUFFICES ASSUME NEW a \in Actions, ac'[a] # Nothing
                 PROVE  <<a, ac'[a]>> \in published'
      BY DEF Entries
    <2>1. ac'[a] = IF a = ActionOf(r) THEN result[r] ELSE ac[a]
      BY DEF Publish, MemoInv, TypeInv, TypeOK
    <2> QED BY <1>4, <2>1 DEF MemoInv, Entries
  <1>8. Origins'
    BY <1>1, <1>2, <1>4 DEF MemoInv, Origins
  <1> QED BY <1>5, <1>6, <1>7, <1>8 DEF MemoInv

(* An evicted entry is forgotten; where the others come from is not.       *)
LEMMA EvictSound ==
    ASSUME MemoInv, TypeInv',
           \/ \E b \in EvictableBlobs : EvictBlob(b)
           \/ \E a \in EvictableActions : EvictAction(a)
    PROVE  MemoInv'
  <1>1. UNCHANGED <<pc, upload, result, disk, executed, published>>
    BY DEF EvictBlob, EvictAction
  <1>2. \A a \in Actions : ac'[a] \in {ac[a], Nothing}
    BY DEF EvictBlob, EvictAction, MemoInv, TypeInv, TypeOK
  <1>3. InTurn' /\ Origins'
    BY <1>1 DEF MemoInv, InTurn, Finished, Origins
  <1>4. \A r \in Runs : Sound(r)'
    BY <1>1 DEF MemoInv, Sound, InStage, Undisturbed, Assembled, Recalled, Stage,
                Finished, At
  <1>5. Entries'
    BY <1>1, <1>2 DEF MemoInv, Entries
  <1> QED BY <1>3, <1>4, <1>5 DEF MemoInv

LEMMA MemoInit == Init => MemoInv
  <1> SUFFICES ASSUME Init PROVE MemoInv
    OBVIOUS
  <1>1. InTurn /\ Entries /\ Origins
    BY DEF Init, InTurn, Entries, Origins
  <1>2. ASSUME NEW r \in Runs PROVE Sound(r)
    <2>1. Stage(r) = "start" /\ pc[r] = "start" /\ executed[r] = Nothing
      BY DEF Init, Stage
    <2>2. InStage(r)
      BY <2>1 DEF InStage, Replaying
    <2>3. Undisturbed(r) /\ Assembled(r) /\ Recalled(r)
      BY <2>1 DEF Undisturbed, Assembled, Recalled, Replaying
    <2> QED BY <2>2, <2>3 DEF Sound
  <1> QED BY <1>1, <1>2, TypeInit DEF MemoInv

(* The own part of every step that records nothing.                        *)
LEMMA OwnSound ==
    ASSUME MemoInv, TypeInv', NEW r \in Runs, Step(r) \/ Fault(r),
           ~Record(r), UNCHANGED published
    PROVE  Sound(r)'
  <1>types. pc \in [Runs -> Labels] /\ DOMAIN upload = Runs
    BY DEF MemoInv, TypeInv, TypeOK
  <1>1. CASE Start(r)
    <2>1. executed[r] = Nothing
      BY <1>1 DEF Start, MemoInv, Sound, InStage, Stage
    <2> QED BY <1>1, <1>types, <2>1, EarlySound, OptionTypes
            DEF Start, Upload, Goto, Stage, Replaying
  <1>2. CASE FindMissing(r)
    <2>1. /\ pc[r] = "find" /\ pc'[r] = "push" /\ Stage(r)' = Stage(r)
          /\ UNCHANGED <<result, disk, executed, published>>
      BY <1>2, <1>types DEF FindMissing, Goto, Stage, MemoInv, TypeInv, TypeOK
    <2> QED BY <2>1, SameStageSound
  <1>3. CASE Push(r)
    <2>1. /\ pc[r] = "push" /\ pc'[r] = upload[r].next
          /\ UNCHANGED <<result, disk, executed, published>>
      BY <1>3, <1>types DEF Push, Goto
    <2>2. upload[r].next \in {"lookup", "spawn", "capture", "record", "done"}
      BY <2>1 DEF MemoInv, TypeInv, LoopsInBounds
    <2>3. Stage(r)' = Stage(r) /\ pc'[r] # "start"
      BY <2>1, <2>2 DEF Stage
    <2> QED BY <2>1, <2>3, SameStageSound
  <1>4. CASE LookupMiss(r)
    <2>1. executed[r] = Nothing
      BY <1>4 DEF LookupMiss, MemoInv, Sound, InStage, Stage
    <2>2. pc'[r] = "spawn" /\ executed' = executed
      BY <1>4, <1>types DEF LookupMiss, Goto
    <2> QED BY <2>1, <2>2, EarlySound DEF Stage, Replaying
  <1>5. CASE LookupHit(r)
    BY <1>5, LookupHitSound
  <1>6. CASE Execute(r)
    BY <1>6, ExecuteSound
  <1>7. CASE CaptureFile(r)
    BY <1>7, CaptureFileSound
  <1>8. CASE CaptureDir(r)
    BY <1>8, CaptureDirSound
  <1>9. CASE \/ PrintStdout(r) \/ PrintStderr(r) \/ RestoreFiles(r)
             \/ MaterializeTree(r) \/ WriteTree(r)
    <2>1. /\ pc[r] \in Replaying
          /\ UNCHANGED <<result, executed, published>>
      BY <1>9 DEF PrintStdout, PrintStderr, RestoreFiles, MaterializeTree, WriteTree, Replaying
    <2>2. PICK label \in {"stderr", "files", "trees", "treefiles", "done", "failed"} :
            Goto(r, label)
      BY <1>9 DEF PrintStdout, PrintStderr, RestoreFiles, MaterializeTree, WriteTree, AfterTrees
    <2>3. pc'[r] = label
      BY <1>types, <2>2 DEF Goto
    <2>4. CASE label = "failed"
      BY <2>3, <2>4, FailedSound
    <2>5. CASE label # "failed"
      BY <2>1, <2>3, <2>5, ReplaySound DEF Replaying
    <2> QED BY <2>4, <2>5
  <1>10. CASE \/ CaptureRefused(r) \/ MaterializeRefused(r) \/ WriteRefused(r)
              \/ LeftOut(r) \/ BlobGone(r) \/ PushPartly(r) \/ RecordUnanswered(r)
              \/ Fail(r)
    <2>1. Goto(r, "failed")
      BY <1>10 DEF CaptureRefused, MaterializeRefused, WriteRefused, LeftOut, BlobGone,
                   PushPartly, RecordUnanswered, Fail
    <2>2. pc'[r] = "failed"
      BY <1>types, <2>1 DEF Goto
    <2> QED BY <2>2, FailedSound
  <1> QED BY <1>1, <1>2, <1>3, <1>4, <1>5, <1>6, <1>7, <1>8, <1>9, <1>10
          DEF Step, Fault

LEMMA MemoStep ==
    ASSUME Separate
    PROVE  MemoInv /\ [Next]_vars => MemoInv'
  <1> SUFFICES ASSUME MemoInv, [Next]_vars PROVE MemoInv'
    OBVIOUS
  <1>types. TypeInv'
    BY TypeStep DEF MemoInv
  <1>1. ASSUME NEW r \in Runs, Step(r) \/ Fault(r) PROVE MemoInv'
    <2>1. Frame(r)
      BY <1>1, StepFrame
    <2>2. CASE Record(r) \/ RecordUnanswered(r)
      <3>1. PICK label \in {"done", "failed"} : pc' = [pc EXCEPT ![r] = label]
        BY <2>2 DEF Record, RecordUnanswered, Goto
      <3>2. /\ pc[r] = "record" /\ Publish(r)
            /\ UNCHANGED <<upload, result, executed>>
        BY <2>2 DEF Record, RecordUnanswered
      <3> QED BY <1>types, <2>1, <3>1, <3>2, RecordSound
    <2>3. CASE ~Record(r) /\ ~RecordUnanswered(r)
      <3>1. UNCHANGED <<ac, published>>
        BY <1>1, <2>3
        DEF Step, Fault, Start, FindMissing, Push, LookupMiss, LookupHit, Execute,
            CaptureFile, CaptureDir, CaptureRefused, PrintStdout, PrintStderr,
            RestoreFiles, MaterializeTree, MaterializeRefused, WriteTree,
            WriteRefused, LeftOut, BlobGone, PushPartly, Fail
      <3>2. Sound(r)'
        BY <1>1, <1>types, <2>3, <3>1, OwnSound
      <3> QED BY <1>types, <2>1, <3>1, <3>2, OwnStepSound
    <2> QED BY <2>2, <2>3
  <1>2. CASE \/ \E b \in EvictableBlobs : EvictBlob(b)
             \/ \E a \in EvictableActions : EvictAction(a)
    BY <1>2, <1>types, EvictSound
  <1>3. CASE Terminated \/ UNCHANGED vars
    BY <1>3, <1>types
    DEF Terminated, vars, MemoInv, InTurn, Sound, InStage, Undisturbed, Assembled,
        Recalled, Entries, Origins, Stage, Finished, At
  <1> QED BY <1>1, <1>2, <1>3 DEF Next

LEMMA MemoHolds ==
    ASSUME Separate
    PROVE  Spec => []MemoInv
  BY MemoInit, MemoStep, PTL DEF Spec

(* Whatever the ActionCache answers is the work of one execution of the    *)
(* very command that asks: one exit code, one pair of streams and one set  *)
(* of outputs, never a mix of two.                                         *)
THEOREM EntriesAreOneExecution ==
    ASSUME Separate
    PROVE  Spec => []OneExecution
  <1>1. MemoInv => OneExecution
    <2> SUFFICES ASSUME MemoInv, NEW r \in Runs, ac[ActionOf(r)] # Nothing
                 PROVE  \E q \in Runs :
                          /\ executed[q] # Nothing
                          /\ SameWork(Opts[q], Opts[r])
                          /\ Complete(Opts[q], executed[q])
                          /\ ac[ActionOf(r)] = Captured(Opts[q], executed[q])
      BY DEF OneExecution
    <2>1. <<ActionOf(r), ac[ActionOf(r)]>> \in published
      BY DEF MemoInv, Entries, Actions
    <2>2. PICK q \in Runs :
            /\ executed[q] # Nothing
            /\ ~Opts[q].noCache
            /\ Complete(Opts[q], executed[q])
            /\ <<ActionOf(r), ac[ActionOf(r)]>>
                 = <<ActionOf(q), Captured(Opts[q], executed[q])>>
      BY <2>1 DEF MemoInv, Origins
    <2>3. ActionOf(q) = ActionOf(r) /\ ac[ActionOf(r)] = Captured(Opts[q], executed[q])
      BY <2>2
    <2>4. SameWork(Opts[q], Opts[r])
      <3>1. /\ CommandOf(Opts[q]) = CommandOf(Opts[r])
            /\ Opts[q].root = Opts[r].root /\ Opts[q].noCache = Opts[r].noCache
        BY <2>3 DEF ActionOf
      <3>2. /\ Opts[q].argv = Opts[r].argv
            /\ Seqs(Opts[q].files) \cup Seqs(Opts[q].dirs)
                 = Seqs(Opts[r].files) \cup Seqs(Opts[r].dirs)
        BY <3>1 DEF CommandOf
      <3> QED BY <2>2, <3>1, <3>2 DEF SameWork
    <2> QED BY <2>2, <2>3, <2>4
  <1> QED BY <1>1, MemoHolds, PTL

-----------------------------------------------------------------------------
(* Refinement.  A step of one invocation is a step of Memo, or none.       *)

(* What the abstract specification sees of a step of r.                    *)
LEMMA OwnOf ==
    ASSUME NEW r \in Runs
    PROVE  /\ executed[r] = Nothing => Own[r] = Nothing
           /\ (executed[r] # Nothing /\ Complete(Opts[r], executed[r])) =>
                Own[r] = Captured(Opts[r], executed[r])
  BY DEF Own

LEMMA AnswerOf ==
    ASSUME NEW r \in Runs
    PROVE  /\ ~Finished(r) => Answer[r] = Nothing
           /\ pc[r] = "done" => Answer[r] = result[r]
           /\ pc[r] = "failed" => Answer[r] = Failed
  BY DEF Answer, Finished

LEMMA OwnUnchanged ==
    ASSUME UNCHANGED executed
    PROVE  Own' = Own
  BY DEF Own

LEMMA CapturedTypes ==
    ASSUME NEW ex \in [Runs -> Execution \cup {Nothing}], NEW r \in Runs,
           ex[r] # Nothing, Complete(Opts[r], ex[r])
    PROVE  Captured(Opts[r], ex[r]) \in ActionResult
  <1>1. ex[r] \in Execution
    OBVIOUS
  <1> QED BY <1>1, CapturedIsResult

(* A step of r changes the answer of r at most.                            *)
LEMMA AnswerChange ==
    ASSUME TypeInv, NEW r \in Runs, Frame(r)
    PROVE  /\ Answer[r] = Nothing
           /\ ~Finished(r)' => Answer' = Answer
           /\ pc'[r] = "done" => Answer' = [Answer EXCEPT ![r] = result'[r]]
           /\ pc'[r] = "failed" => Answer' = [Answer EXCEPT ![r] = Failed]
  <1>1. \A q \in Runs \ {r} : pc'[q] = pc[q] /\ result'[q] = result[q]
    BY DEF Frame
  <1>2. pc[r] \notin {"done", "failed"}
    BY DEF Frame, Finished
  <1>3. Answer[r] = Nothing
    BY <1>2 DEF Answer
  <1>4. ASSUME ~Finished(r)' PROVE Answer' = Answer
    BY <1>1, <1>2, <1>4 DEF Answer, Finished
  <1>5. ASSUME pc'[r] = "done" PROVE Answer' = [Answer EXCEPT ![r] = result'[r]]
    BY <1>1, <1>5 DEF Answer
  <1>6. ASSUME pc'[r] = "failed" PROVE Answer' = [Answer EXCEPT ![r] = Failed]
    BY <1>1, <1>6 DEF Answer
  <1> QED BY <1>3, <1>4, <1>5, <1>6

LEMMA StutterMaps ==
    ASSUME TypeInv, NEW r \in Runs, Frame(r), ~Finished(r)',
           UNCHANGED <<executed, published>>
    PROVE  UNCHANGED Abstract!vars
  BY AnswerChange, OwnUnchanged DEF Abstract!vars

LEMMA FailureMaps ==
    ASSUME TypeInv, NEW r \in Runs, Frame(r), pc'[r] = "failed",
           UNCHANGED <<executed, published>>
    PROVE  Abstract!Next
  <1>1. Abstract!GiveUp(r)
    BY AnswerChange, OwnUnchanged DEF Abstract!GiveUp
  <1> QED BY <1>1 DEF Abstract!Next

LEMMA ExecuteMaps ==
    ASSUME MemoInv, MemoInv', NEW r \in Runs, Frame(r), Execute(r)
    PROVE  Abstract!Next
  <1>1. /\ pc[r] = "spawn" /\ executed[r] = Nothing
        /\ UNCHANGED published
    BY DEF MemoInv, Sound, InStage, Stage, Execute
  <1>2. PICK res : Upload(r, StreamRefs(res), AfterCapture(r, res))
    BY Zenon DEF Execute
  <1>3. pc'[r] = "find" /\ Stage(r)' \in {"capture", "record", "done"}
    BY <1>2, AfterCaptureInBounds DEF Upload, Goto, Stage, MemoInv, TypeInv, TypeOK
  <1>4. executed'[r] # Nothing
    BY <1>3 DEF MemoInv, Sound, InStage
  <1>5. Own[r] = Nothing /\ Answer[r] = Nothing /\ Answer' = Answer
    BY <1>1, <1>3, OwnOf, AnswerChange DEF Finished, MemoInv
  <1>6. \A q \in Runs : (executed'[q] # Nothing /\ Complete(Opts[q], executed'[q]))
                         => Captured(Opts[q], executed'[q]) \in ActionResult
    <2>1. executed' \in [Runs -> Execution \cup {Nothing}]
      BY DEF MemoInv, TypeInv, TypeOK
    <2> QED BY <2>1, CapturedTypes
  <1>7. Own' \in [Runs -> {Nothing, Unusable} \cup ActionResult]
    BY <1>6 DEF Own
  <1>8. Own'[r] # Nothing
    BY <1>4, <1>6, UnusableAssumption, NothingAssumption DEF Own
  <1>9. \A q \in Runs \ {r} : Own'[q] = Own[q]
    BY DEF Own, Frame
  <1>10. Abstract!Execute(r)
    BY <1>1, <1>5, <1>7, <1>8, <1>9 DEF Abstract!Execute
  <1> QED BY <1>10 DEF Abstract!Next

(* What is recorded is offered, whether its invocation learns of it or not. *)
LEMMA RecordMaps ==
    ASSUME MemoInv, NEW r \in Runs, Frame(r), pc[r] = "record", Publish(r),
           pc'[r] \in {"done", "failed"}, UNCHANGED <<result, executed>>
    PROVE  Abstract!Next
  <1>1. executed[r] # Nothing /\ ~Opts[r].noCache /\ Stage(r) = "record"
    BY DEF MemoInv, Sound, InStage, Stage
  <1>2. /\ Complete(Opts[r], executed[r])
        /\ result[r] = Captured(Opts[r], executed[r])
        /\ result[r] \in ActionResult
    BY <1>1, AtRecord
  <1>3. Own[r] = result[r] /\ Own' = Own
    BY <1>1, <1>2, OwnOf, OwnUnchanged
  <1>4. Own[r] \notin {Nothing, Unusable}
    BY <1>2, <1>3, UnusableAssumption, NothingAssumption
  <1>5. published' = published \cup {<<ActionOf(r), Own[r]>>}
    BY <1>3 DEF Publish
  <1>6. /\ Answer[r] = Nothing
        /\ \/ Answer' = [Answer EXCEPT ![r] = Own[r]]
           \/ Answer' = [Answer EXCEPT ![r] = Failed]
    BY <1>3, AnswerChange DEF MemoInv
  <1>7. Abstract!Offer(r)
    BY <1>1, <1>3, <1>4, <1>5, <1>6 DEF Abstract!Offer
  <1> QED BY <1>7 DEF Abstract!Next

(* The end of an invocation with --no-cache.                               *)
LEMMA KeepMaps ==
    ASSUME MemoInv, NEW r \in Runs, Frame(r), pc[r] \in {"find", "push"},
           Stage(r) = "done", pc'[r] = "done",
           UNCHANGED <<result, executed, published>>
    PROVE  Abstract!Next
  <1>1. executed[r] # Nothing /\ Opts[r].noCache
    BY DEF MemoInv, Sound, InStage
  <1>2. /\ Complete(Opts[r], executed[r])
        /\ result[r] = Captured(Opts[r], executed[r])
        /\ result[r] \in ActionResult
    BY <1>1, AtRecord
  <1>3. Own[r] = result[r] /\ Own' = Own
    BY <1>1, <1>2, OwnOf, OwnUnchanged
  <1>4. Own[r] \notin {Nothing, Unusable}
    BY <1>2, <1>3, UnusableAssumption, NothingAssumption
  <1>5. Answer[r] = Nothing /\ Answer' = [Answer EXCEPT ![r] = Own[r]]
    BY <1>3, AnswerChange DEF MemoInv
  <1>6. Abstract!Keep(r)
    BY <1>1, <1>3, <1>4, <1>5 DEF Abstract!Keep
  <1> QED BY <1>6 DEF Abstract!Next

(* The end of a replay.                                                    *)
LEMMA RecallMaps ==
    ASSUME MemoInv, MemoInv', NEW r \in Runs, Frame(r), pc[r] \in Replaying,
           pc'[r] = "done", UNCHANGED <<result, executed, published>>
    PROVE  Abstract!Next
  <1>1. Stage(r) = pc[r]
    BY DEF Stage, Replaying
  <1>2. executed[r] = Nothing /\ ~Opts[r].noCache
    BY <1>1 DEF MemoInv, Sound, InStage
  <1>3. <<ActionOf(r), result[r]>> \in published
    BY <1>2 DEF MemoInv, Sound, Recalled
  <1>4. Own[r] = Nothing /\ Own' = Own
    BY <1>2, OwnOf, OwnUnchanged
  <1>5. Answer[r] = Nothing /\ Answer' = [Answer EXCEPT ![r] = result[r]]
    BY AnswerChange DEF MemoInv
  <1>6. Abstract!Recall(r)
    BY <1>2, <1>3, <1>4, <1>5 DEF Abstract!Recall
  <1> QED BY <1>6 DEF Abstract!Next

(* Every step of an invocation, and of the servers, is one step of Memo or *)
(* none.                                                                   *)
LEMMA StepMaps ==
    ASSUME MemoInv, MemoInv', NEW r \in Runs, Step(r) \/ Fault(r)
    PROVE  [Abstract!Next]_(Abstract!vars)
  <1>types. pc \in [Runs -> Labels] /\ TypeInv
    BY DEF MemoInv, TypeInv, TypeOK
  <1>frame. Frame(r)
    BY StepFrame
  <1>1. CASE Execute(r)
    BY <1>1, <1>frame, ExecuteMaps
  <1>2. CASE Record(r) \/ RecordUnanswered(r)
    <2>1. /\ pc[r] = "record" /\ Publish(r) /\ pc'[r] \in {"done", "failed"}
          /\ UNCHANGED <<result, executed>>
      BY <1>2, <1>types DEF Record, RecordUnanswered, Goto
    <2> QED BY <1>frame, <2>1, RecordMaps
  <1>3. CASE \/ Start(r) \/ FindMissing(r) \/ LookupMiss(r) \/ LookupHit(r)
             \/ CaptureFile(r) \/ CaptureDir(r) \/ PrintStdout(r) \/ PrintStderr(r)
             \/ MaterializeTree(r)
    <2>1. UNCHANGED <<executed, published>>
      BY <1>3 DEF Start, FindMissing, LookupMiss, LookupHit, CaptureFile, CaptureDir,
                  PrintStdout, PrintStderr, MaterializeTree
    <2>2. PICK label : Goto(r, label) /\ label \notin {"done", "failed"}
      BY <1>3 DEF Start, FindMissing, LookupMiss, LookupHit, CaptureFile, CaptureDir,
                  PrintStdout, PrintStderr, MaterializeTree, Upload
    <2>3. ~Finished(r)'
      BY <1>types, <2>2 DEF Goto, Finished
    <2> QED BY <1>types, <1>frame, <2>1, <2>3, StutterMaps
  <1>4. CASE \/ CaptureRefused(r) \/ MaterializeRefused(r) \/ WriteRefused(r)
             \/ LeftOut(r) \/ BlobGone(r) \/ PushPartly(r) \/ Fail(r)
    <2>1. Goto(r, "failed") /\ UNCHANGED <<executed, published>>
      BY <1>4 DEF CaptureRefused, MaterializeRefused, WriteRefused, LeftOut, BlobGone,
                  PushPartly, Fail
    <2>2. pc'[r] = "failed"
      BY <1>types, <2>1 DEF Goto
    <2> QED BY <1>types, <1>frame, <2>1, <2>2, FailureMaps
  <1>5. CASE Push(r)
    <2>1. /\ pc[r] = "push" /\ pc'[r] = upload[r].next /\ Stage(r) = upload[r].next
          /\ UNCHANGED <<result, executed, published>>
      BY <1>5, <1>types DEF Push, Goto, Stage
    <2>2. upload[r].next \in {"lookup", "spawn", "capture", "record", "done"}
      BY <2>1, <1>types DEF TypeInv, LoopsInBounds
    <2>3. CASE upload[r].next = "done"
      BY <1>frame, <2>1, <2>3, KeepMaps
    <2>4. CASE upload[r].next # "done"
      BY <1>types, <1>frame, <2>1, <2>2, <2>4, StutterMaps DEF Finished
    <2> QED BY <2>3, <2>4
  <1>6. CASE RestoreFiles(r) \/ WriteTree(r)
    <2>1. /\ pc[r] \in Replaying
          /\ UNCHANGED <<result, executed, published>>
      BY <1>6 DEF RestoreFiles, WriteTree, Replaying
    <2>2. PICK label \in {"trees", "done", "failed"} : Goto(r, label)
      BY <1>6 DEF RestoreFiles, WriteTree, AfterTrees
    <2>3. pc'[r] = label
      BY <1>types, <2>2 DEF Goto
    <2>4. CASE label = "trees"
      BY <1>types, <1>frame, <2>1, <2>3, <2>4, StutterMaps DEF Finished
    <2>5. CASE label = "done"
      BY <1>frame, <2>1, <2>3, <2>5, RecallMaps
    <2>6. CASE label = "failed"
      BY <1>types, <1>frame, <2>1, <2>3, <2>6, FailureMaps
    <2> QED BY <2>4, <2>5, <2>6
  <1> QED BY <1>1, <1>2, <1>3, <1>4, <1>5, <1>6 DEF Step, Fault

(* What invocations do with the CAS, the ActionCache and the disk amounts  *)
(* to memoization: each answers with its own execution's result or with    *)
(* one that was recorded for its action, as a whole, or fails.             *)
THEOREM RunImplementsMemo ==
    ASSUME Separate
    PROVE  Spec => ImplementsMemo
  <1>1. Init => Abstract!Init
    BY DEF Init, Abstract!Init, Own, Answer
  <1>2. MemoInv /\ MemoInv' /\ [Next]_vars => [Abstract!Next]_(Abstract!vars)
    <2> SUFFICES ASSUME MemoInv, MemoInv', [Next]_vars
                 PROVE  [Abstract!Next]_(Abstract!vars)
      OBVIOUS
    <2>1. CASE \E r \in Runs : Step(r) \/ Fault(r)
      BY <2>1, StepMaps
    <2>2. CASE \/ \E b \in EvictableBlobs : EvictBlob(b)
               \/ \E a \in EvictableActions : EvictAction(a)
               \/ Terminated \/ UNCHANGED vars
      <3>1. UNCHANGED <<pc, result, executed, published>>
        BY <2>2 DEF EvictBlob, EvictAction, Terminated, vars
      <3>2. Own' = Own /\ Answer' = Answer
        BY <3>1 DEF Own, Answer
      <3> QED BY <3>1, <3>2 DEF Abstract!vars
    <2> QED BY <2>1, <2>2 DEF Next
  <1> QED BY <1>1, <1>2, MemoHolds, PTL DEF Spec, ImplementsMemo, Abstract!Safe

-----------------------------------------------------------------------------
(* A hit looks like the execution it stands for.  While a result is        *)
(* replayed, what was replayed so far is there to see.                     *)

FilesInPlace(res, d) ==
    \A i \in DOMAIN res.files :
      LET f == res.files[i]
      IN  d[f.path].kind \in {"file", "link"} /\ SameFile(d[f.path], f)
TreeInPlace(t, ids, n) ==
    n.kind = "dir" /\ \A e \in ids : e \in DOMAIN n.entries /\ SameFile(n.entries[e], t[e])
DirsInPlace(res, d, n) ==
    \A i \in DOMAIN res.dirs :
      i <= n => TreeInPlace(res.dirs[i].tree, DOMAIN res.dirs[i].tree,
                            d[res.dirs[i].path])

(* Until it executes or replays its first stream, an invocation has shown  *)
(* nothing, and no error output until it replays that.                     *)
SilentSoFar(r) ==
    /\ Stage(r) \in {"start", "lookup", "spawn", "stdout"} =>
         shown[r].stdout = Nothing /\ shown[r].stderr = Nothing
    /\ Stage(r) = "stderr" => shown[r].stderr = Nothing

HitSoFar(r) ==
    /\ pc[r] \in {"stderr", "files", "trees", "treefiles"} =>
         shown[r].stdout \in MayShow(r, result[r].stdout)
    /\ pc[r] \in {"files", "trees", "treefiles"} =>
         shown[r].stderr \in MayShow(r, result[r].stderr)
    /\ pc[r] \in {"trees", "treefiles"} =>
         /\ FilesInPlace(result[r], At(r))
         /\ DirsInPlace(result[r], At(r), at[r])
    /\ pc[r] = "treefiles" =>
         TreeInPlace(Replayed(r).tree, LinksOf(Replayed(r).tree),
                     At(r)[Replayed(r).path])

HitInv == MemoInv /\ \A r \in Runs : SilentSoFar(r) /\ HitSoFar(r)

(* What one execution left at a path is one thing.                         *)
Coherent(res) ==
    /\ \A i, j \in DOMAIN res.files :
         res.files[i].path = res.files[j].path => SameFile(res.files[i], res.files[j])
    /\ \A i \in DOMAIN res.files, j \in DOMAIN res.dirs :
         res.files[i].path # res.dirs[j].path
    /\ \A i, j \in DOMAIN res.dirs :
         res.dirs[i].path = res.dirs[j].path => res.dirs[i].tree = res.dirs[j].tree

LEMMA CapturedCoherent ==
    ASSUME NEW q \in Runs, NEW e, Complete(Opts[q], e)
    PROVE  Coherent(Captured(Opts[q], e))
  <1> DEFINE o == Opts[q]
             res == Captured(o, e)
  <1>1. /\ DOMAIN res.files = DOMAIN o.files
        /\ DOMAIN res.dirs = DOMAIN o.dirs
        /\ \A i \in DOMAIN res.files : /\ res.files[i].path = o.files[i]
                                       /\ res.files[i].data = e.left[o.files[i]].data
                                       /\ res.files[i].exec = e.left[o.files[i]].exec
        /\ \A i \in DOMAIN res.dirs : /\ res.dirs[i].path = o.dirs[i]
                                      /\ res.dirs[i].tree = e.left[o.dirs[i]].entries
    BY OptionTypes DEF Captured
  <1> HIDE DEF res
  <1>2. /\ \A i \in DOMAIN o.files : e.left[o.files[i]].kind = "file"
        /\ \A i \in DOMAIN o.dirs : e.left[o.dirs[i]].kind = "dir"
    BY DEF Complete
  <1> HIDE DEF o
  <1>3. Coherent(res)
    BY <1>1, <1>2 DEF Coherent, SameFile
  <1> QED BY <1>3 DEF res, o

LEMMA ReplayCoherent ==
    ASSUME MemoInv, NEW r \in Runs, pc[r] \in Replaying
    PROVE  Coherent(result[r]) /\ result[r] \in ActionResult
  <1>1. Stage(r) = pc[r]
    BY DEF Stage, Replaying
  <1>2. <<ActionOf(r), result[r]>> \in published
    BY <1>1 DEF MemoInv, Sound, InStage, Recalled
  <1>3. PICK q \in Runs :
          /\ Complete(Opts[q], executed[q])
          /\ <<ActionOf(r), result[r]>> = <<ActionOf(q), Captured(Opts[q], executed[q])>>
    BY <1>2 DEF MemoInv, Origins
  <1>4. result[r] = Captured(Opts[q], executed[q])
    BY <1>3
  <1> QED BY <1>1, <1>3, <1>4, CapturedCoherent DEF MemoInv, TypeInv, LoopsInBounds

(* What download_tree does to the directory it writes to.                  *)
LEMMA WithEntriesEffect ==
    ASSUME TypeOK, NEW r \in Runs, NEW p \in Paths, NEW new,
           disk' = WithEntries(r, p, new)
    PROVE  /\ \A q \in Paths \ {p} : At(r)'[q] = At(r)[q]
           /\ At(r)'[p].kind = "dir"
           /\ DOMAIN At(r)'[p].entries = DOMAIN EntriesAt(r, p) \cup DOMAIN new
           /\ \A n \in DOMAIN new : At(r)'[p].entries[n] = new[n]
           /\ \A n \in DOMAIN EntriesAt(r, p) \ DOMAIN new :
                At(r)'[p].entries[n] = EntriesAt(r, p)[n]
  <1> DEFINE old == EntriesAt(r, p)
             merged == [n \in DOMAIN old \cup DOMAIN new |->
                          IF n \in DOMAIN new THEN new[n] ELSE old[n]]
             node == [kind |-> "dir", entries |-> merged]
  <1>1. disk' = [disk EXCEPT ![Opts[r].cwd][p] = node]
    BY DEF WithEntries
  <1>2. /\ node.kind = "dir" /\ node.entries = merged
        /\ DOMAIN merged = DOMAIN old \cup DOMAIN new
        /\ \A n \in DOMAIN new : merged[n] = new[n]
        /\ \A n \in DOMAIN old \ DOMAIN new : merged[n] = old[n]
    OBVIOUS
  <1> HIDE DEF node, merged, old
  <1>3. At(r)' = [At(r) EXCEPT ![p] = node]
    BY <1>1, OptsAssumption DEF TypeOK, At
  <1>4. At(r)'[p] = node /\ \A q \in Paths \ {p} : At(r)'[q] = At(r)[q]
    BY <1>3, DiskTypes
  <1> QED BY <1>2, <1>4 DEF old

(* Entries that agree with a tree leave what is in place of it in place.   *)
LEMMA TreeStays ==
    ASSUME TypeOK, NEW r \in Runs, NEW p \in Paths, NEW new,
           disk' = WithEntries(r, p, new),
           NEW t, NEW ids, TreeInPlace(t, ids, At(r)[p]),
           \A n \in DOMAIN new \cap ids : SameFile(new[n], t[n])
    PROVE  TreeInPlace(t, ids, At(r)'[p])
  <1>1. EntriesAt(r, p) = At(r)[p].entries
    BY DEF TreeInPlace, EntriesAt
  <1>2. At(r)'[p].kind = "dir"
    BY WithEntriesEffect
  <1>3. ASSUME NEW e \in ids
        PROVE  e \in DOMAIN At(r)'[p].entries /\ SameFile(At(r)'[p].entries[e], t[e])
    <2>1. e \in DOMAIN EntriesAt(r, p) /\ SameFile(EntriesAt(r, p)[e], t[e])
      BY <1>1 DEF TreeInPlace
    <2>2. CASE e \in DOMAIN new
      <3>1. e \in DOMAIN At(r)'[p].entries /\ At(r)'[p].entries[e] = new[e]
        BY <2>2, WithEntriesEffect
      <3> QED BY <2>2, <3>1
    <2>3. CASE e \notin DOMAIN new
      <3>1. /\ e \in DOMAIN At(r)'[p].entries
            /\ At(r)'[p].entries[e] = EntriesAt(r, p)[e]
        BY <2>1, <2>3, WithEntriesEffect
      <3> QED BY <2>1, <3>1
    <2> QED BY <2>2, <2>3
  <1> QED BY <1>2, <1>3 DEF TreeInPlace

(* So a step of download_tree leaves the outputs before it in place.       *)
LEMMA OutputsStay ==
    ASSUME TypeOK, NEW r \in Runs, NEW res \in ActionResult, Coherent(res),
           NEW k \in DOMAIN res.dirs, NEW new,
           disk' = WithEntries(r, res.dirs[k].path, new),
           \A n \in DOMAIN new \cap DOMAIN res.dirs[k].tree :
             SameFile(new[n], res.dirs[k].tree[n]),
           NEW m, FilesInPlace(res, At(r)), DirsInPlace(res, At(r), m)
    PROVE  FilesInPlace(res, At(r)') /\ DirsInPlace(res, At(r)', m)
  <1> DEFINE p == res.dirs[k].path
  <1>1. p \in Paths
    BY ResultParts DEF OutputDirectory
  <1>2. \A q \in Paths \ {p} : At(r)'[q] = At(r)[q]
    BY <1>1, WithEntriesEffect
  <1>3. FilesInPlace(res, At(r)')
    <2> SUFFICES ASSUME NEW i \in DOMAIN res.files
                 PROVE  /\ At(r)'[res.files[i].path].kind \in {"file", "link"}
                        /\ SameFile(At(r)'[res.files[i].path], res.files[i])
      BY DEF FilesInPlace
    <2>1. res.files[i].path \in Paths
      BY ResultParts DEF OutputFile
    <2>2. res.files[i].path # p
      BY DEF Coherent
    <2>3. At(r)'[res.files[i].path] = At(r)[res.files[i].path]
      BY <1>2, <2>1, <2>2
    <2> QED BY <2>3 DEF FilesInPlace
  <1>4. DirsInPlace(res, At(r)', m)
    <2> SUFFICES ASSUME NEW i \in DOMAIN res.dirs, i <= m
                 PROVE  TreeInPlace(res.dirs[i].tree, DOMAIN res.dirs[i].tree,
                                    At(r)'[res.dirs[i].path])
      BY DEF DirsInPlace
    <2>1. TreeInPlace(res.dirs[i].tree, DOMAIN res.dirs[i].tree,
                      At(r)[res.dirs[i].path])
      BY DEF DirsInPlace
    <2>2. CASE res.dirs[i].path = p
      <3>1. res.dirs[i].tree = res.dirs[k].tree
        BY <2>2 DEF Coherent
      <3> QED BY <1>1, <2>1, <2>2, <3>1, TreeStays
    <2>3. CASE res.dirs[i].path # p
      <3>1. res.dirs[i].path \in Paths
        BY ResultParts DEF OutputDirectory
      <3> QED BY <1>2, <2>1, <2>3, <3>1
    <2> QED BY <2>2, <2>3
  <1> QED BY <1>3, <1>4

(* When every file can be restored, the recorded paths are distinct, so    *)
(* each file is the last written to its path.                              *)
LEMMA FilesRestored ==
    ASSUME MemoInv, NEW r \in Runs, RestoreFiles(r),
           Restorable(r) = DOMAIN result[r].files
    PROVE  FilesInPlace(result[r], At(r)')
  <1> DEFINE f == result[r].files
             ids == Restorable(r)
  <1>1. Coherent(result[r]) /\ result[r] \in ActionResult
    BY ReplayCoherent DEF RestoreFiles, Replaying
  <1>2. /\ DOMAIN f = 1..Len(f) /\ Len(f) \in Nat
        /\ \A i \in DOMAIN f : f[i].path \in Paths
    BY <1>1, ResultParts DEF OutputFile
  <1>3. \A i, j \in DOMAIN f : j < i => f[j].data # f[i].data
    <2> SUFFICES ASSUME NEW i \in DOMAIN f, NEW j \in DOMAIN f, j < i
                 PROVE  f[j].data # f[i].data
      OBVIOUS
    <2>1. i \in ids
      OBVIOUS
    <2>2. ~Unrestorable(r, i)
      <3>1. i \in 1..i
        BY <1>2
      <3> QED BY <2>1, <3>1 DEF Restorable
    <2>3. j \in 1..(i - 1)
      BY <1>2
    <2> QED BY <2>2, <2>3 DEF Unrestorable
  <1>4. \A i, j \in DOMAIN f : f[i].path = f[j].path => i = j
    <2> SUFFICES ASSUME NEW i \in DOMAIN f, NEW j \in DOMAIN f, f[i].path = f[j].path
                 PROVE  i = j
      OBVIOUS
    <2>1. f[i].data = f[j].data
      BY <1>1 DEF Coherent, SameFile
    <2>2. ~(i < j) /\ ~(j < i)
      BY <1>3, <2>1
    <2>3. i \in Nat /\ j \in Nat
      BY <1>2
    <2> QED BY <2>2, <2>3
  <1>5. At(r)' = Restored(r, ids)
    BY OptsAssumption DEF RestoreFiles, At, MemoInv, TypeInv, TypeOK
  <1> SUFFICES ASSUME NEW i \in DOMAIN f
               PROVE  /\ At(r)'[f[i].path].kind \in {"file", "link"}
                      /\ SameFile(At(r)'[f[i].path], f[i])
    BY DEF FilesInPlace
  <1> DEFINE p == f[i].path
  <1>6. LastAt(r, p, ids) = {i}
    <2>1. i \in Nat
      BY <1>2
    <2> QED BY <1>4, <2>1 DEF LastAt
  <1>7. (CHOOSE k \in LastAt(r, p, ids) : TRUE) = i
    BY <1>6
  <1>8. At(r)'[p] = Written(At(r)[p], f[i])
    <2>1. p \in Paths /\ LastAt(r, p, ids) # {}
      BY <1>2, <1>6
    <2> QED BY <1>5, <1>7, <2>1 DEF Restored
  <1> QED BY <1>8 DEF Written, SameFile

(* What a step of the replay leaves in place.                              *)
LEMMA LinksPlaced ==
    ASSUME MemoInv, NEW r \in Runs, HitSoFar(r), MaterializeTree(r)
    PROVE  /\ FilesInPlace(result[r], At(r)')
           /\ DirsInPlace(result[r], At(r)', at[r])
           /\ TreeInPlace(Replayed(r).tree, LinksOf(Replayed(r).tree),
                          At(r)'[Replayed(r).path])
  <1> DEFINE t == Replayed(r).tree
             p == Replayed(r).path
             new == [n \in LinksOf(t) |-> t[n]]
             k == at[r] + 1
  <1>1. pc[r] = "trees" /\ disk' = WithEntries(r, p, new)
    BY DEF MaterializeTree
  <1>2. Coherent(result[r]) /\ result[r] \in ActionResult
    BY <1>1, ReplayCoherent DEF Replaying
  <1>3. k \in DOMAIN result[r].dirs /\ p \in Paths
    BY <1>1, ReplayedTypes DEF MemoInv
  <1>4. p = result[r].dirs[k].path /\ t = result[r].dirs[k].tree
    BY DEF Replayed
  <1>5. DOMAIN new = LinksOf(t) /\ \A n \in DOMAIN new : new[n] = t[n]
    OBVIOUS
  <1>6. FilesInPlace(result[r], At(r)) /\ DirsInPlace(result[r], At(r), at[r])
    BY <1>1 DEF HitSoFar
  <1>typed. TypeOK
    BY DEF MemoInv, TypeInv
  <1> HIDE DEF new, t, p, k
  <1>7. FilesInPlace(result[r], At(r)') /\ DirsInPlace(result[r], At(r)', at[r])
    BY <1>1, <1>2, <1>3, <1>4, <1>5, <1>6, <1>typed, OutputsStay DEF SameFile
  <1>8. TreeInPlace(t, LinksOf(t), At(r)'[p])
    BY <1>1, <1>3, <1>5, <1>typed, WithEntriesEffect DEF TreeInPlace, SameFile
  <1> QED BY <1>7, <1>8 DEF t, p

LEMMA TreeWritten ==
    ASSUME MemoInv, NEW r \in Runs, HitSoFar(r), WriteTree(r)
    PROVE  /\ FilesInPlace(result[r], At(r)')
           /\ DirsInPlace(result[r], At(r)', at[r] + 1)
  <1> DEFINE t == Replayed(r).tree
             p == Replayed(r).path
             old == EntriesAt(r, p)
             new == [n \in FilesOf(t) |->
                       IF n \in DOMAIN old THEN Written(old[n], t[n]) ELSE t[n]]
             k == at[r] + 1
  <1>1. pc[r] = "treefiles" /\ disk' = WithEntries(r, p, new)
    BY DEF WriteTree, WithFiles
  <1>2. Coherent(result[r]) /\ result[r] \in ActionResult
    BY <1>1, ReplayCoherent DEF Replaying
  <1>3. k \in DOMAIN result[r].dirs /\ p \in Paths /\ t \in Trees /\ at[r] \in Nat
    BY <1>1, ReplayedTypes DEF MemoInv
  <1>4. p = result[r].dirs[k].path /\ t = result[r].dirs[k].tree
    BY DEF Replayed
  <1>5. DOMAIN new = FilesOf(t) /\ \A n \in DOMAIN new : SameFile(new[n], t[n])
    BY DEF Written, SameFile
  <1>6. /\ FilesInPlace(result[r], At(r)) /\ DirsInPlace(result[r], At(r), at[r])
        /\ TreeInPlace(t, LinksOf(t), At(r)[p])
    BY <1>1 DEF HitSoFar
  <1>typed. TypeOK
    BY DEF MemoInv, TypeInv
  <1>7. DOMAIN t = FilesOf(t) \cup LinksOf(t)
    <2>1. \A n \in DOMAIN t : t[n].kind \in {"file", "link"}
      BY <1>3, TreeEntries DEF FileLike
    <2> QED BY <2>1 DEF FilesOf, LinksOf
  <1> HIDE DEF new, t, p, k, old
  <1>8. FilesInPlace(result[r], At(r)') /\ DirsInPlace(result[r], At(r)', at[r])
    BY <1>1, <1>2, <1>3, <1>4, <1>5, <1>6, <1>typed, OutputsStay
  <1>9. TreeInPlace(t, DOMAIN t, At(r)'[p])
    <2>1. TreeInPlace(t, LinksOf(t), At(r)'[p])
      BY <1>1, <1>3, <1>5, <1>6, <1>typed, TreeStays
    <2>2. \A e \in FilesOf(t) : /\ e \in DOMAIN At(r)'[p].entries
                                /\ SameFile(At(r)'[p].entries[e], t[e])
      BY <1>1, <1>3, <1>5, <1>typed, WithEntriesEffect
    <2> QED BY <1>7, <2>1, <2>2 DEF TreeInPlace
  <1>10. DirsInPlace(result[r], At(r)', k)
    <2> SUFFICES ASSUME NEW i \in DOMAIN result[r].dirs, i <= k
                 PROVE  TreeInPlace(result[r].dirs[i].tree, DOMAIN result[r].dirs[i].tree,
                                    At(r)'[result[r].dirs[i].path])
      BY DEF DirsInPlace
    <2>1. i \in Nat
      BY <1>2, ResultParts
    <2>2. CASE i = k
      BY <1>4, <1>9, <2>2
    <2>3. CASE i # k
      <3>1. i <= at[r]
        BY <1>3, <2>1, <2>3 DEF k
      <3> QED BY <1>8, <3>1 DEF DirsInPlace
    <2> QED BY <2>2, <2>3
  <1> QED BY <1>8, <1>10 DEF k

LEMMA ViewKept ==
    ASSUME MemoInv, NEW r \in Runs, Step(r) \/ Fault(r), NEW q \in Runs \ {r}
    PROVE  at'[q] = at[q] /\ shown'[q] = shown[q]
  <1>1. DOMAIN at = Runs /\ DOMAIN shown = Runs
    BY DEF MemoInv, TypeInv, TypeOK
  <1>2. CASE Execute(r)
    <2>1. \E x : shown' = [shown EXCEPT ![r] = x]
      BY <1>2, Zenon DEF Execute
    <2>2. at' = at
      BY <1>2 DEF Execute
    <2> QED BY <1>1, <2>1, <2>2
  <1>3. CASE PrintStdout(r) \/ PrintStderr(r)
    BY <1>1, <1>3 DEF PrintStdout, PrintStderr
  <1>4. CASE WriteTree(r)
    BY <1>1, <1>4 DEF WriteTree
  <1>5. CASE ~Execute(r) /\ ~PrintStdout(r) /\ ~PrintStderr(r) /\ ~WriteTree(r)
    <2>1. UNCHANGED <<at, shown>>
      BY <1>5 DEF Step, Fault, Start, FindMissing, Push, LookupMiss, LookupHit,
            CaptureFile, CaptureDir, CaptureRefused, Record, RestoreFiles,
            MaterializeTree, MaterializeRefused, WriteRefused, LeftOut, BlobGone,
            PushPartly, RecordUnanswered, Fail
    <2> QED BY <2>1
  <1> QED BY <1>2, <1>3, <1>4, <1>5

LEMMA OthersHit ==
    ASSUME Separate, HitInv, NEW r \in Runs, Step(r) \/ Fault(r), NEW q \in Runs \ {r}
    PROVE  SilentSoFar(q)' /\ HitSoFar(q)'
  <1>1. /\ pc'[q] = pc[q] /\ result'[q] = result[q] /\ upload'[q] = upload[q]
        /\ at'[q] = at[q] /\ shown'[q] = shown[q]
    BY StepFrame, ViewKept DEF Frame, HitInv
  <1>2. Replayed(q)' = Replayed(q)
    BY <1>1 DEF Replayed
  <1>3. pc[q] \in {"trees", "treefiles"} => At(q)' = At(q)
    BY StepFrame, DirectoryKept DEF HitInv, Finished
  <1>4. SilentSoFar(q) /\ HitSoFar(q)
    BY DEF HitInv
  <1> QED BY <1>1, <1>2, <1>3, <1>4 DEF SilentSoFar, HitSoFar, MayShow, Stage

LEMMA OwnSilent ==
    ASSUME HitInv, NEW r \in Runs, Step(r) \/ Fault(r)
    PROVE  SilentSoFar(r)'
  <1>types. /\ pc \in [Runs -> Labels] /\ DOMAIN upload = Runs
            /\ shown \in [Runs -> [stdout : Content \cup {Nothing},
                                   stderr : Content \cup {Nothing}]]
    BY DEF HitInv, MemoInv, TypeInv, TypeOK
  <1>silent. SilentSoFar(r)
    BY DEF HitInv
  <1>1. CASE Start(r)
    BY <1>1, <1>types, <1>silent DEF Start, Upload, Goto, SilentSoFar, Stage
  <1>2. CASE FindMissing(r)
    <2>1. Stage(r)' = Stage(r) /\ shown' = shown
      BY <1>2, <1>types DEF FindMissing, Goto, Stage, HitInv, MemoInv, TypeInv, TypeOK
    <2> QED BY <1>silent, <2>1 DEF SilentSoFar
  <1>3. CASE Push(r)
    <2>1. /\ pc[r] = "push" /\ pc'[r] = upload[r].next /\ shown' = shown
          /\ Stage(r) = upload[r].next
      BY <1>3, <1>types DEF Push, Goto, Stage
    <2>2. upload[r].next \in {"lookup", "spawn", "capture", "record", "done"}
      BY <2>1 DEF HitInv, MemoInv, TypeInv, LoopsInBounds
    <2> QED BY <1>silent, <2>1, <2>2 DEF SilentSoFar, Stage
  <1>4. CASE LookupMiss(r) \/ LookupHit(r)
    BY <1>4, <1>types, <1>silent DEF LookupMiss, LookupHit, Goto, SilentSoFar, Stage
  <1>5. CASE Execute(r)
    <2>1. pc'[r] = "find" /\ upload'[r].next \in {"capture", "record", "done"}
      BY <1>5, <1>types, ExecuteEffect DEF Upload, Goto
    <2> QED BY <2>1 DEF SilentSoFar, Stage
  <1>6. CASE CaptureFile(r) \/ CaptureDir(r)
    <2>1. PICK blobs, res : Upload(r, blobs, AfterCapture(r, res))
      BY <1>6 DEF CaptureFile, CaptureDir
    <2>2. AfterCapture(r, res) \in {"capture", "record", "done"}
      BY DEF AfterCapture
    <2>3. pc'[r] = "find" /\ upload'[r].next \in {"capture", "record", "done"}
      BY <1>types, <2>1, <2>2 DEF Upload, Goto
    <2> QED BY <2>3 DEF SilentSoFar, Stage
  <1>7. CASE PrintStdout(r)
    <2>1. /\ pc[r] = "stdout" /\ pc'[r] = "stderr"
          /\ shown'[r].stderr = shown[r].stderr
      BY <1>7, <1>types DEF PrintStdout, Goto
    <2> QED BY <1>silent, <2>1 DEF SilentSoFar, Stage
  <1>8. CASE \/ PrintStderr(r) \/ RestoreFiles(r) \/ MaterializeTree(r)
             \/ MaterializeRefused(r) \/ WriteTree(r) \/ WriteRefused(r) \/ LeftOut(r)
             \/ BlobGone(r) \/ CaptureRefused(r) \/ Record(r) \/ Fault(r)
    <2>1. PICK label \in {"files", "trees", "treefiles", "done", "failed"} : Goto(r, label)
      BY <1>8 DEF PrintStderr, RestoreFiles, MaterializeTree, MaterializeRefused,
                  WriteTree, WriteRefused, LeftOut, BlobGone, CaptureRefused, Record,
                  Fault, PushPartly, RecordUnanswered, Fail, AfterTrees
    <2>2. pc'[r] = label
      BY <1>types, <2>1 DEF Goto
    <2> QED BY <2>2 DEF SilentSoFar, Stage
  <1> QED BY <1>1, <1>2, <1>3, <1>4, <1>5, <1>6, <1>7, <1>8 DEF Step

LEMMA OwnHit ==
    ASSUME HitInv, NEW r \in Runs, Step(r) \/ Fault(r)
    PROVE  HitSoFar(r)'
  <1>types. /\ pc \in [Runs -> Labels]
            /\ shown \in [Runs -> [stdout : Content \cup {Nothing},
                                   stderr : Content \cup {Nothing}]]
            /\ at \in [Runs -> Nat]
    BY DEF HitInv, MemoInv, TypeInv, TypeOK
  <1>hit. MemoInv /\ HitSoFar(r)
    BY DEF HitInv
  <1>1. CASE PrintStdout(r)
    <2>1. /\ pc[r] = "stdout" /\ pc'[r] = "stderr" /\ result' = result
          /\ \/ shown'[r].stdout = result[r].stdout
             \/ r \in Omitting /\ shown'[r].stdout = shown[r].stdout
      BY <1>1, <1>types DEF PrintStdout, Goto
    <2>2. shown[r].stdout = Nothing
      BY <2>1 DEF HitInv, SilentSoFar, Stage
    <2> QED BY <2>1, <2>2 DEF HitSoFar, MayShow
  <1>2. CASE PrintStderr(r)
    <2>1. /\ pc[r] = "stderr" /\ pc'[r] = "files" /\ result' = result
          /\ \/ shown'[r].stderr = result[r].stderr
             \/ r \in Omitting /\ shown'[r].stderr = shown[r].stderr
          /\ shown'[r].stdout = shown[r].stdout
      BY <1>2, <1>types DEF PrintStderr, Goto
    <2>2. shown[r].stderr = Nothing
      BY <2>1 DEF HitInv, SilentSoFar, Stage
    <2> QED BY <1>hit, <2>1, <2>2 DEF HitSoFar, MayShow
  <1>3. CASE RestoreFiles(r) /\ pc'[r] # "failed"
    <2>1. /\ pc[r] = "files" /\ pc'[r] \in {"trees", "done"}
          /\ Restorable(r) = DOMAIN result[r].files
          /\ UNCHANGED <<result, at, shown>>
      BY <1>3, <1>types DEF RestoreFiles, Goto, AfterTrees
    <2>2. FilesInPlace(result[r], At(r)')
      BY <1>3, <1>hit, <2>1, FilesRestored
    <2>3. DirsInPlace(result[r], At(r)', at[r])
      <3>1. at[r] = 0 /\ result[r] \in ActionResult
        BY <2>1 DEF HitInv, MemoInv, TypeInv, LoopsInBounds, Stage, Replaying
      <3>2. \A i \in DOMAIN result[r].dirs : ~(i <= at[r])
        BY <3>1, ResultParts
      <3> QED BY <3>2 DEF DirsInPlace
    <2> QED BY <1>hit, <2>1, <2>2, <2>3 DEF HitSoFar, MayShow
  <1>4. CASE MaterializeTree(r)
    <2>1. /\ pc[r] = "trees" /\ pc'[r] = "treefiles"
          /\ UNCHANGED <<result, at, shown>>
      BY <1>4, <1>types DEF MaterializeTree, Goto
    <2>2. /\ FilesInPlace(result[r], At(r)')
          /\ DirsInPlace(result[r], At(r)', at[r])
          /\ TreeInPlace(Replayed(r).tree, LinksOf(Replayed(r).tree),
                         At(r)'[Replayed(r).path])
      BY <1>4, <1>hit, LinksPlaced
    <2>3. Replayed(r)' = Replayed(r)
      BY <2>1 DEF Replayed
    <2> QED BY <1>hit, <2>1, <2>2, <2>3 DEF HitSoFar, MayShow
  <1>5. CASE WriteTree(r)
    <2>1. /\ pc[r] = "treefiles" /\ pc'[r] \in {"trees", "done"}
          /\ at'[r] = at[r] + 1
          /\ UNCHANGED <<result, shown>>
      BY <1>5, <1>types DEF WriteTree, Goto, AfterTrees
    <2>2. /\ FilesInPlace(result[r], At(r)')
          /\ DirsInPlace(result[r], At(r)', at[r] + 1)
      BY <1>5, <1>hit, TreeWritten
    <2> QED BY <1>hit, <2>1, <2>2 DEF HitSoFar, MayShow
  <1>6. CASE pc'[r] \notin {"stderr", "files", "trees", "treefiles"}
    BY <1>6 DEF HitSoFar
  <1>7. ASSUME pc'[r] \in {"stderr", "files", "trees", "treefiles"}
        PROVE  \/ PrintStdout(r) \/ PrintStderr(r) \/ RestoreFiles(r)
               \/ MaterializeTree(r) \/ WriteTree(r)
    <2>1. CASE \/ Start(r) \/ FindMissing(r) \/ LookupMiss(r) \/ LookupHit(r)
               \/ CaptureFile(r) \/ CaptureDir(r) \/ CaptureRefused(r) \/ Record(r)
               \/ MaterializeRefused(r) \/ WriteRefused(r) \/ LeftOut(r) \/ BlobGone(r)
               \/ PushPartly(r) \/ RecordUnanswered(r) \/ Fail(r)
      <3>1. \/ Goto(r, "find") \/ Goto(r, "push") \/ Goto(r, "spawn")
            \/ Goto(r, "stdout") \/ Goto(r, "done") \/ Goto(r, "failed")
        BY <2>1 DEF Start, FindMissing, LookupMiss, LookupHit, CaptureFile, CaptureDir,
             CaptureRefused, Record, MaterializeRefused, WriteRefused, LeftOut, BlobGone,
             PushPartly, RecordUnanswered, Fail, Upload
      <3> QED BY <1>7, <1>types, <3>1 DEF Goto
    <2>2. CASE Execute(r)
      <3>1. pc'[r] = "find"
        BY <1>types, <2>2, ExecuteEffect DEF Upload, Goto
      <3> QED BY <1>7, <3>1
    <2>3. CASE Push(r)
      <3>1. pc'[r] = upload[r].next /\ pc[r] = "push"
        BY <1>types, <2>3 DEF Push, Goto
      <3>2. upload[r].next \in {"lookup", "spawn", "capture", "record", "done"}
        BY <1>hit, <3>1 DEF MemoInv, TypeInv, LoopsInBounds
      <3> QED BY <1>7, <3>1, <3>2
    <2> QED BY <2>1, <2>2, <2>3 DEF Step, Fault
  <1> QED BY <1>1, <1>2, <1>3, <1>4, <1>5, <1>6, <1>7

LEMMA HitInit == Init => HitInv
  BY MemoInit DEF Init, HitInv, SilentSoFar, HitSoFar, Stage

LEMMA HitStep ==
    ASSUME Separate
    PROVE  HitInv /\ [Next]_vars => HitInv'
  <1> SUFFICES ASSUME HitInv, [Next]_vars PROVE HitInv'
    OBVIOUS
  <1>1. MemoInv'
    BY MemoStep DEF HitInv
  <1>2. ASSUME NEW r \in Runs, Step(r) \/ Fault(r)
        PROVE  \A q \in Runs : SilentSoFar(q)' /\ HitSoFar(q)'
    <2> TAKE q \in Runs
    <2>1. CASE q = r
      BY <1>2, <2>1, OwnSilent, OwnHit
    <2>2. CASE q # r
      BY <1>2, <2>2, OthersHit
    <2> QED BY <2>1, <2>2
  <1>3. ASSUME UNCHANGED <<pc, result, at, shown, disk, upload>>
        PROVE  \A q \in Runs : SilentSoFar(q)' /\ HitSoFar(q)'
    BY <1>3 DEF HitInv, SilentSoFar, HitSoFar, MayShow, At, Replayed, Stage
  <1>4. CASE \/ \E b \in EvictableBlobs : EvictBlob(b)
             \/ \E a \in EvictableActions : EvictAction(a)
             \/ Terminated \/ UNCHANGED vars
    <2>1. UNCHANGED <<pc, result, at, shown, disk, upload>>
      BY <1>4 DEF EvictBlob, EvictAction, Terminated, vars
    <2> QED BY <1>1, <1>3, <2>1 DEF HitInv
  <1> QED BY <1>1, <1>2, <1>4 DEF Next, HitInv

(* At the end of a replay, everything that was recorded is in its place.   *)
LEMMA HitEnds ==
    ASSUME HitInv, NEW r \in Runs, Step(r) \/ Fault(r),
           pc[r] \in Replaying, pc'[r] = "done"
    PROVE  /\ shown'[r].stdout \in MayShow(r, result[r].stdout)
           /\ shown'[r].stderr \in MayShow(r, result[r].stderr)
           /\ InPlace(r, disk'[Opts[r].cwd])
  <1>types. pc \in [Runs -> Labels] /\ MemoInv /\ HitSoFar(r)
    BY DEF HitInv, MemoInv, TypeInv, TypeOK
  <1>1. result[r] \in ActionResult
    BY ReplayCoherent DEF HitInv
  <1>2. Len(result[r].dirs) \in Nat /\ DOMAIN result[r].dirs = 1..Len(result[r].dirs)
    BY <1>1, ResultParts
  <1>3. RestoreFiles(r) \/ WriteTree(r)
    <2>1. pc[r] \notin {"push", "record", "find", "spawn", "capture", "lookup", "start"}
      BY DEF Replaying
    <2>2. CASE \/ PrintStdout(r) \/ PrintStderr(r) \/ MaterializeTree(r)
               \/ MaterializeRefused(r) \/ WriteRefused(r) \/ LeftOut(r) \/ BlobGone(r)
               \/ Fail(r)
      <3>1. PICK label : Goto(r, label) /\ label # "done"
        BY <2>2 DEF PrintStdout, PrintStderr, MaterializeTree, MaterializeRefused,
                    WriteRefused, LeftOut, BlobGone, Fail
      <3> QED BY <1>types, <3>1 DEF Goto
    <2> QED BY <2>1, <2>2
      DEF Step, Fault, Start, FindMissing, Push, LookupMiss, LookupHit, Execute,
          CaptureFile, CaptureDir, CaptureRefused, Record, PushPartly, RecordUnanswered
  <1>4. /\ FilesInPlace(result[r], At(r)')
        /\ DirsInPlace(result[r], At(r)', Len(result[r].dirs))
        /\ pc[r] \in {"files", "treefiles"} /\ shown' = shown
    <2>1. CASE RestoreFiles(r)
      <3>1. /\ Restorable(r) = DOMAIN result[r].files
            /\ ~(0 < Len(result[r].dirs)) /\ pc[r] = "files" /\ shown' = shown
        BY <1>types, <2>1 DEF RestoreFiles, Goto, AfterTrees
      <3>2. DOMAIN result[r].dirs = {}
        BY <1>2, <3>1
      <3> QED BY <1>types, <2>1, <3>1, <3>2, FilesRestored DEF DirsInPlace
    <2>2. CASE WriteTree(r)
      <3>1. ~(at[r] + 1 < Len(result[r].dirs)) /\ pc[r] = "treefiles" /\ shown' = shown
        BY <1>types, <2>2 DEF WriteTree, Goto, AfterTrees
      <3>2. /\ FilesInPlace(result[r], At(r)')
            /\ DirsInPlace(result[r], At(r)', at[r] + 1)
        BY <1>types, <2>2, TreeWritten
      <3>3. at[r] \in Nat
        BY DEF HitInv, MemoInv, TypeInv, TypeOK
      <3>4. at[r] + 1 >= Len(result[r].dirs)
        BY <1>2, <3>1, <3>3
      <3>5. \A i \in DOMAIN result[r].dirs : i <= at[r] + 1
        BY <1>2, <3>3, <3>4
      <3> QED BY <3>1, <3>2, <3>5 DEF DirsInPlace
    <2> QED BY <1>3, <2>1, <2>2
  <1>5. /\ shown'[r].stdout \in MayShow(r, result[r].stdout)
        /\ shown'[r].stderr \in MayShow(r, result[r].stderr)
    BY <1>types, <1>4 DEF HitSoFar
  <1>6. InPlace(r, disk'[Opts[r].cwd])
    <2>1. At(r)' = disk'[Opts[r].cwd]
      BY DEF At
    <2> DEFINE d == disk'[Opts[r].cwd]
    <2>2. ASSUME NEW i \in DOMAIN result[r].files
          PROVE  LET f == result[r].files[i]
                 IN  d[f.path].kind \in {"file", "link"} /\ SameFile(d[f.path], f)
      BY <1>4, <2>1 DEF FilesInPlace
    <2>3. ASSUME NEW i \in DOMAIN result[r].dirs
          PROVE  LET t == result[r].dirs[i].tree
                     n == d[result[r].dirs[i].path]
                 IN  /\ n.kind = "dir"
                     /\ \A e \in DOMAIN t : e \in DOMAIN n.entries
                                            /\ SameFile(n.entries[e], t[e])
      <3>1. i <= Len(result[r].dirs)
        BY <1>2
      <3>2. TreeInPlace(result[r].dirs[i].tree, DOMAIN result[r].dirs[i].tree,
                        d[result[r].dirs[i].path])
        BY <1>4, <2>1, <3>1 DEF DirsInPlace
      <3> DEFINE t == result[r].dirs[i].tree
                 n == d[result[r].dirs[i].path]
      <3>3. TreeInPlace(t, DOMAIN t, n)
        BY <3>2
      <3> HIDE DEF t, n
      <3>4. /\ n.kind = "dir"
            /\ \A e \in DOMAIN t : e \in DOMAIN n.entries
                                   /\ SameFile(n.entries[e], t[e])
        BY <3>3 DEF TreeInPlace
      <3> QED BY <3>4 DEF t, n
    <2> HIDE DEF d
    <2>4. InPlace(r, d)
      BY <2>2, <2>3 DEF InPlace
    <2> QED BY <2>4 DEF d
  <1> QED BY <1>5, <1>6

(* Whoever gets a hit finds every recorded file and every entry of every   *)
(* recorded directory in place, and sees the recorded streams, of which    *)
(* only a server that leaves digests out of its answers takes one away.    *)
THEOREM HitsLookExecuted ==
    ASSUME Separate
    PROVE  Spec => HitLooksExecuted
  <1>1. HitInv /\ [Next]_vars =>
          [\A r \in Runs :
             (pc[r] \in Replaying /\ pc'[r] = "done") =>
               /\ shown'[r].stdout \in MayShow(r, result[r].stdout)
               /\ shown'[r].stderr \in MayShow(r, result[r].stderr)
               /\ InPlace(r, disk'[Opts[r].cwd])]_vars
    <2> SUFFICES ASSUME HitInv, [Next]_vars, NEW r \in Runs,
                        pc[r] \in Replaying, pc'[r] = "done"
                 PROVE  /\ shown'[r].stdout \in MayShow(r, result[r].stdout)
                        /\ shown'[r].stderr \in MayShow(r, result[r].stderr)
                        /\ InPlace(r, disk'[Opts[r].cwd])
      OBVIOUS
    <2>1. pc'[r] # pc[r]
      BY DEF Replaying
    <2>2. ASSUME NEW q \in Runs, Step(q) \/ Fault(q) PROVE q = r
      BY <2>1, <2>2, StepFrame DEF Frame, HitInv
    <2>3. CASE \E q \in Runs : Step(q) \/ Fault(q)
      BY <2>2, <2>3, HitEnds
    <2>4. CASE ~\E q \in Runs : Step(q) \/ Fault(q)
      BY <2>1, <2>4 DEF Next, EvictBlob, EvictAction, Terminated, vars
    <2> QED BY <2>3, <2>4
  <1> QED BY <1>1, HitInit, HitStep, PTL DEF Spec, HitLooksExecuted

-----------------------------------------------------------------------------
(* A hit that finds nothing in its way does not fail.                      *)

(* The directories that are still to be restored will take what is         *)
(* restored to them.                                                       *)
WelcomesFrom(n, res, d) ==
    \A i \in DOMAIN res.dirs :
      i > n => Welcomes(d[res.dirs[i].path], res.dirs[i].tree)

Unhindered(r) ==
    \/ pc[r] = "done"
    \/ /\ pc[r] \in Replaying
       /\ Restores(result[r]) /\ Refs(result[r]) \cap EvictableBlobs = {}
       /\ pc[r] \in {"stdout", "stderr", "files"} =>
            \A i \in DOMAIN result[r].files : At(r)[result[r].files[i].path].kind # "dir"
       /\ WelcomesFrom(IF pc[r] = "treefiles" THEN at[r] + 1 ELSE at[r], result[r], At(r))
       /\ pc[r] = "treefiles" => At(r)[Replayed(r).path].kind = "dir"

LEMMA ClearIsUnhindered ==
    ASSUME MemoInv, NEW r \in Runs, ClearHit(r)
    PROVE  Unhindered(r)
  <1>1. WelcomesFrom(at[r], result[r], At(r))
    BY DEF ClearHit, Clear, WelcomesFrom
  <1> QED BY <1>1 DEF ClearHit, Clear, Unhindered, Replaying

(* What is downloaded is there.                                            *)
LEMMA WantedIsThere ==
    ASSUME RefInv, NEW r \in Runs, pc[r] \in Replaying,
           Refs(result[r]) \cap EvictableBlobs = {}
    PROVE  Wanted(r) \subseteq cas
  <1>1. Refs(result[r]) \ EvictableBlobs \subseteq cas
    BY DEF RefInv, OwedOrPending, Pending, Replaying
  <1> QED BY <1>1, WantedIsReferred DEF RefInv

(* Every file can be restored, and the directories are left alone.         *)
LEMMA AllRestorable ==
    ASSUME MemoInv, NEW r \in Runs, pc[r] = "files", Unhindered(r)
    PROVE  /\ Restorable(r) = DOMAIN result[r].files
           /\ \A i \in DOMAIN result[r].dirs :
                Restored(r, Restorable(r))[result[r].dirs[i].path]
                  = At(r)[result[r].dirs[i].path]
  <1> DEFINE f == result[r].files
  <1>1. /\ Restores(result[r]) /\ result[r] \in ActionResult
        /\ \A i \in DOMAIN f : At(r)[f[i].path].kind # "dir"
    BY ReplayCoherent DEF Unhindered, Replaying
  <1>2. /\ DOMAIN f = 1..Len(f) /\ Len(f) \in Nat
        /\ \A i \in DOMAIN result[r].dirs : result[r].dirs[i].path \in Paths
    BY <1>1, ResultParts DEF OutputDirectory
  <1>3. \A i \in DOMAIN f : ~Unrestorable(r, i)
    <2> SUFFICES ASSUME NEW i \in DOMAIN f, Unrestorable(r, i) PROVE FALSE
      OBVIOUS
    <2>1. PICK j \in 1..(i - 1) : f[j].data = f[i].data
      BY <1>1 DEF Unrestorable
    <2>2. j \in DOMAIN f /\ j # i
      BY <1>2
    <2> QED BY <1>1, <2>1, <2>2 DEF Restores
  <1>4. Restorable(r) = DOMAIN f
    <2>1. \A i \in DOMAIN f : 1..i \subseteq DOMAIN f
      BY <1>2
    <2> QED BY <1>3, <2>1 DEF Restorable
  <1>5. ASSUME NEW i \in DOMAIN result[r].dirs
        PROVE  Restored(r, Restorable(r))[result[r].dirs[i].path]
                 = At(r)[result[r].dirs[i].path]
    <2> DEFINE p == result[r].dirs[i].path
    <2>1. \A j \in DOMAIN f : f[j].path # p
      BY <1>1 DEF Restores
    <2>2. LastAt(r, p, Restorable(r)) = {}
      BY <1>4, <2>1 DEF LastAt
    <2> QED BY <1>2, <2>2 DEF Restored
  <1> QED BY <1>4, <1>5

(* Restoring one directory leaves the others as they are.                  *)
LEMMA OtherDirectories ==
    ASSUME TypeOK, NEW r \in Runs, NEW res \in ActionResult, Restores(res),
           NEW k \in DOMAIN res.dirs, NEW new,
           disk' = WithEntries(r, res.dirs[k].path, new),
           NEW n \in Nat, WelcomesFrom(n, res, At(r)), n >= k
    PROVE  WelcomesFrom(n, res, At(r)')
  <1>1. /\ k \in Nat /\ \A i \in DOMAIN res.dirs : i \in Nat /\ res.dirs[i].path \in Paths
    BY ResultParts DEF OutputDirectory
  <1> SUFFICES ASSUME NEW i \in DOMAIN res.dirs, i > n
               PROVE  Welcomes(At(r)'[res.dirs[i].path], res.dirs[i].tree)
    BY DEF WelcomesFrom
  <1>2. i # k
    BY <1>1
  <1>3. res.dirs[i].path # res.dirs[k].path
    BY <1>2 DEF Restores
  <1>4. At(r)'[res.dirs[i].path] = At(r)[res.dirs[i].path]
    BY <1>1, <1>3, WithEntriesEffect
  <1> QED BY <1>4 DEF WelcomesFrom

LEMMA OwnUnhindered ==
    ASSUME MemoInv, RefInv, NEW r \in Runs, r \notin Unreliable, r \notin Omitting,
           Step(r) \/ Fault(r), Unhindered(r)
    PROVE  Unhindered(r)'
  <1>types. /\ pc \in [Runs -> Labels] /\ at \in [Runs -> Nat] /\ TypeOK
            /\ DOMAIN disk = Cwds /\ Opts[r].cwd \in Cwds
    BY OptsAssumption DEF MemoInv, TypeInv, TypeOK
  <1>1. pc[r] \in Replaying
    BY StepFrame DEF Unhindered, Frame, Finished
  <1>2. /\ Restores(result[r]) /\ Refs(result[r]) \cap EvictableBlobs = {}
        /\ WelcomesFrom(IF pc[r] = "treefiles" THEN at[r] + 1 ELSE at[r], result[r], At(r))
        /\ pc[r] = "treefiles" => At(r)[Replayed(r).path].kind = "dir"
        /\ pc[r] \in {"stdout", "stderr", "files"} =>
             \A i \in DOMAIN result[r].files : At(r)[result[r].files[i].path].kind # "dir"
        /\ Wanted(r) \subseteq cas
    BY <1>1, WantedIsThere DEF Unhindered, Replaying
  <1>3. result[r] \in ActionResult
    BY <1>1, ReplayCoherent
  <1>4. \/ PrintStdout(r) \/ PrintStderr(r) \/ RestoreFiles(r) \/ MaterializeTree(r)
        \/ MaterializeRefused(r) \/ WriteTree(r) \/ WriteRefused(r)
    <2>1. pc[r] \notin {"push", "record", "find", "spawn", "capture", "lookup", "start"}
      BY <1>1 DEF Replaying
    <2>2. ~LeftOut(r) /\ ~BlobGone(r) /\ ~Fault(r)
      BY <1>2 DEF LeftOut, BlobGone, Fault, PushPartly, RecordUnanswered, Fail
    <2> QED BY <2>1, <2>2
      DEF Step, Start, FindMissing, Push, LookupMiss, LookupHit, Execute,
          CaptureFile, CaptureDir, CaptureRefused, Record
  <1>5. CASE PrintStdout(r) \/ PrintStderr(r)
    <2>1. /\ pc[r] \in {"stdout", "stderr"} /\ pc'[r] \in {"stderr", "files"}
          /\ UNCHANGED <<result, at, disk>>
      BY <1>5, <1>types DEF PrintStdout, PrintStderr, Goto
    <2>2. At(r)' = At(r)
      BY <2>1 DEF At
    <2> QED BY <1>2, <2>1, <2>2 DEF Unhindered, Replaying
  <1>6. CASE RestoreFiles(r)
    <2>1. /\ pc[r] = "files" /\ UNCHANGED <<result, at>>
          /\ disk' = [disk EXCEPT ![Opts[r].cwd] = Restored(r, Restorable(r))]
      BY <1>6 DEF RestoreFiles
    <2>2. /\ Restorable(r) = DOMAIN result[r].files
          /\ \A i \in DOMAIN result[r].dirs :
               Restored(r, Restorable(r))[result[r].dirs[i].path]
                 = At(r)[result[r].dirs[i].path]
      BY <2>1, AllRestorable
    <2>3. pc'[r] \in {"trees", "done"}
      BY <1>6, <1>types, <2>2 DEF RestoreFiles, Goto, AfterTrees
    <2>4. At(r)' = Restored(r, Restorable(r))
      BY <1>types, <2>1 DEF At
    <2>5. WelcomesFrom(at[r], result[r], At(r)')
      BY <1>2, <2>1, <2>2, <2>4 DEF WelcomesFrom
    <2> QED BY <1>2, <2>1, <2>3, <2>5 DEF Unhindered, Replaying
  <1> DEFINE k == at[r] + 1
             p == Replayed(r).path
             t == Replayed(r).tree
  <1>7. pc[r] \in {"trees", "treefiles"} =>
          k \in DOMAIN result[r].dirs /\ p \in Paths /\ k \in Nat
    BY <1>types, ReplayedTypes DEF MemoInv
  <1>8. p = result[r].dirs[k].path /\ t = result[r].dirs[k].tree
    BY DEF Replayed
  <1>9. CASE pc[r] = "trees"
    <2>1. Welcomes(At(r)[p], t) /\ WelcomesFrom(k, result[r], At(r))
      <3>1. \A i \in DOMAIN result[r].dirs : i \in Nat
        BY <1>3, ResultParts
      <3>2. k > at[r] /\ \A i \in Nat : i > k => i > at[r]
        BY <1>types
      <3> QED BY <1>2, <1>7, <1>8, <1>9, <3>1, <3>2 DEF WelcomesFrom
    <2>2. MaterializeTree(r)
      <3>1. ~MaterializeRefused(r)
        BY <2>1 DEF MaterializeRefused, Welcomes, EntriesAt, NoEntries
      <3> QED BY <1>4, <1>9, <3>1
        DEF PrintStdout, PrintStderr, RestoreFiles, WriteTree, WriteRefused
    <2>3. PICK new : disk' = WithEntries(r, p, new)
      BY <2>2 DEF MaterializeTree
    <2>4. pc'[r] = "treefiles" /\ UNCHANGED <<result, at>>
      BY <1>types, <2>2 DEF MaterializeTree, Goto
    <2>5. At(r)'[p].kind = "dir"
      BY <1>types, <1>7, <1>9, <2>3, WithEntriesEffect
    <2>6. WelcomesFrom(k, result[r], At(r)')
      <3> HIDE DEF k, p
      <3>1. k >= k
        BY <1>7, <1>9
      <3> QED BY <1>types, <1>2, <1>3, <1>7, <1>8, <1>9, <2>1, <2>3, <3>1, OtherDirectories
    <2>7. Replayed(r)' = Replayed(r)
      BY <2>4 DEF Replayed
    <2> QED BY <1>2, <2>4, <2>5, <2>6, <2>7 DEF Unhindered, Replaying
  <1>10. CASE pc[r] = "treefiles"
    <2>1. WriteTree(r)
      <3>1. ~WriteRefused(r)
        BY <1>2, <1>10 DEF WriteRefused
      <3> QED BY <1>4, <1>10, <3>1
        DEF PrintStdout, PrintStderr, RestoreFiles, MaterializeTree, MaterializeRefused
    <2>2. PICK new : disk' = WithEntries(r, p, new)
      BY <2>1 DEF WriteTree, WithFiles
    <2>3. pc'[r] \in {"trees", "done"} /\ result' = result /\ at'[r] = k
      BY <1>types, <2>1 DEF WriteTree, Goto, AfterTrees
    <2>4. WelcomesFrom(k, result[r], At(r)')
      <3>1. WelcomesFrom(k, result[r], At(r))
        BY <1>2, <1>10
      <3> HIDE DEF k, p
      <3>2. k >= k
        BY <1>7, <1>10
      <3> QED BY <1>types, <1>2, <1>3, <1>7, <1>8, <1>10, <2>2, <3>1, <3>2, OtherDirectories
    <2> QED BY <1>2, <2>3, <2>4 DEF Unhindered, Replaying
  <1> QED BY <1>1, <1>4, <1>5, <1>6, <1>9, <1>10
       DEF MaterializeTree, MaterializeRefused, WriteTree, WriteRefused

LEMMA UnhinderedStep ==
    ASSUME Separate, NEW r \in Runs \ (Unreliable \cup Omitting),
           MemoInv, RefInv, [Next]_vars, Unhindered(r)
    PROVE  Unhindered(r)'
  <1>1. CASE UNCHANGED <<pc, result, at, disk>>
    BY <1>1 DEF Unhindered, At, Replayed
  <1>2. ASSUME NEW q \in Runs, Step(q) \/ Fault(q) PROVE Unhindered(r)'
    <2>1. CASE q = r
      BY <1>2, <2>1, OwnUnhindered
    <2>2. CASE q # r
      <3>1. /\ pc'[r] = pc[r] /\ result'[r] = result[r] /\ at'[r] = at[r]
        BY <1>2, <2>2, StepFrame, ViewKept DEF Frame
      <3>2. pc[r] \in Replaying => At(r)' = At(r)
        BY <1>2, <2>2, StepFrame, DirectoryKept DEF Replaying, Finished
      <3>3. Replayed(r)' = Replayed(r)
        BY <3>1 DEF Replayed
      <3> QED BY <3>1, <3>2, <3>3 DEF Unhindered
    <2> QED BY <2>1, <2>2
  <1>3. CASE \/ \E b \in EvictableBlobs : EvictBlob(b)
             \/ \E a \in EvictableActions : EvictAction(a)
             \/ Terminated \/ UNCHANGED vars
    <2>1. UNCHANGED <<pc, result, at, disk>>
      BY <1>3 DEF EvictBlob, EvictAction, Terminated, vars
    <2> QED BY <1>1, <2>1
  <1> QED BY <1>2, <1>3 DEF Next

(* A hit whose outputs do not get in each other's way, and which finds     *)
(* nothing in their way when it begins, does not fail, unless the CAS      *)
(* drops a blob of it or its answers are faulty: what it overwrites, and   *)
(* whatever the other invocations and the servers do, is no obstacle.      *)
THEOREM ClearHitsDoSucceed ==
    ASSUME Separate
    PROVE  Spec => ClearHitsSucceed
  <1>1. ASSUME NEW r \in Runs \ (Unreliable \cup Omitting)
        PROVE  Spec => [](ClearHit(r) => [](pc[r] # "failed"))
    <2>1. MemoInv /\ ClearHit(r) => Unhindered(r)
      BY ClearIsUnhindered
    <2>2. MemoInv /\ RefInv /\ [Next]_vars /\ Unhindered(r) => Unhindered(r)'
      BY UnhinderedStep
    <2>3. Unhindered(r) => pc[r] # "failed"
      BY DEF Unhindered, Replaying
    <2> QED BY <2>1, <2>2, <2>3, MemoHolds, RefInit, RefStep, PTL DEF Spec
  <1> QED BY <1>1 DEF ClearHitsSucceed
=============================================================================
