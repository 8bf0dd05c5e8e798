------------------------------- MODULE MemoRun -------------------------------
(***************************************************************************)
(* `re-memoize run`: several invocations of the command line tool share a  *)
(* Content Addressable Storage (CAS) and an ActionCache, and may share the *)
(* directory they are started from.  Every invocation is one process of    *)
(* run_cached (src/cmd/re_memoize/src/run.rs); a step ends where that      *)
(* function awaits an RPC or a child, or has finished one.                 *)
(*                                                                         *)
(* A digest is the value it digests: SHA-256 is taken to be free of        *)
(* collisions, so the CAS is a set of tagged values.  A batch RPC is one   *)
(* step of the server, unless it fails half-way.                           *)
(***************************************************************************)
EXTENDS Naturals, Sequences

CONSTANTS
    Runs,             \* the invocations
    Opts,             \* their RunOptions and the directory they start from
    After,            \* After[r]: the invocations that end before r is started
    Behaviours,       \* Behaviours[argv]: what the wrapped command may do
    Content,          \* byte strings: streams, file contents, link targets
    Names,            \* paths of the entries inside an output directory
    Paths,            \* declared output paths
    Cwds, Roots, Codes,
    InitialNodes,     \* what may be at an output path before the first run
    Unreliable,       \* invocations that may fail or be killed anywhere
    Omitting,         \* invocations whose answers to BatchReadBlobs may leave digests out
    EvictableBlobs,   \* blobs the CAS may drop at any moment
    EvictableActions, \* ActionCache entries that may be dropped
    Nothing           \* "no value": no result, nothing printed

Argvs == DOMAIN Behaviours

-----------------------------------------------------------------------------
(* The file system as the code looks at it.                                *)

FileLike == [kind : {"file", "link"}, data : Content, exec : BOOLEAN]
Absent   == [kind |-> "absent"]
Trees    == UNION {[D -> FileLike] : D \in SUBSET Names}
DirNode  == [kind : {"dir"}, entries : Trees]
Node     == {Absent} \cup FileLike \cup DirNode

(* Mutations of Written: the node keeps its kind; the mode is not set.     *)
WrittenInPlace(old, f) == [kind |-> old.kind, data |-> f.data, exec |-> f.exec]
WrittenPlain(old, f)   == [kind |-> "file", data |-> f.data, exec |-> FALSE]

(* fs::write and fs::set_permissions follow a symbolic link.               *)
Written(old, f) ==
    [kind |-> IF old.kind = "link" THEN "link" ELSE "file",
     data |-> f.data, exec |-> f.exec]

LinksOf(t) == {n \in DOMAIN t : t[n].kind = "link"}
FilesOf(t) == {n \in DOMAIN t : t[n].kind = "file"}

-----------------------------------------------------------------------------
(* Messages, blobs and results.                                            *)

Seqs(s) == {s[i] : i \in DOMAIN s}

CommandOf(o) == [argv |-> o.argv, outputs |-> Seqs(o.files) \cup Seqs(o.dirs)]
ActionOf(r)  == [command |-> CommandOf(Opts[r]), root |-> Opts[r].root,
                 doNotCache |-> Opts[r].noCache]
Actions      == {ActionOf(r) : r \in Runs}

Data(c)      == <<"data", c>>
KeyBlobs(r)  == {<<"command", CommandOf(Opts[r])>>, <<"action", ActionOf(r)>>}
FileBlobs(t) == {Data(t[n].data) : n \in FilesOf(t)}

(* What upload_directory sends.  (Mutation: the messages alone.)           *)
TreeBlobsShallow(t) == {<<"tree", t>>, <<"directory", t>>}
TreeBlobs(t) == {<<"tree", t>>, <<"directory", t>>} \cup FileBlobs(t)

Messages == {"tree", "directory"} \X Trees
Blobs == {Data(c) : c \in Content}
         \cup (UNION {KeyBlobs(r) : r \in Runs})
         \cup Messages

OutputFile      == [path : Paths, data : Content, exec : BOOLEAN]
OutputDirectory == [path : Paths, tree : Trees]
ActionResult    == [code : Codes, stdout : Content, stderr : Content,
                    files : Seq(OutputFile), dirs : Seq(OutputDirectory)]

(* What an execution leaves behind, in the streams and in the directory.   *)
Execution == [code : Codes, stdout : Content, stderr : Content,
              left : [Paths -> Node]]

(* What the wrapped command may do: its exit code, its streams and what it *)
(* leaves at the paths it writes.                                          *)
IsOutcome(b) ==
    /\ b.code \in Codes
    /\ b.stdout \in Content /\ b.stderr \in Content
    /\ DOMAIN b.writes \subseteq Paths
    /\ \A p \in DOMAIN b.writes : b.writes[p] \in Node

ASSUME OptsAssumption ==
    \A r \in Runs :
      /\ Opts[r].cwd \in Cwds
      /\ Opts[r].root \in Roots
      /\ Opts[r].argv \in Argvs
      /\ Opts[r].files \in Seq(Paths)
      /\ Opts[r].dirs \in Seq(Paths)
      /\ Opts[r].noCache \in BOOLEAN
ASSUME BehavioursAssumption ==
    \A argv \in Argvs : \A b \in Behaviours[argv] : IsOutcome(b)
ASSUME NodesAssumption == InitialNodes \subseteq Node
ASSUME NothingAssumption ==
    Nothing \notin Content \cup ActionResult \cup Execution

FileRefs(res) == {Data(res.files[i].data) : i \in DOMAIN res.files}
DirRefs(res)  == UNION {{<<"tree", res.dirs[i].tree>>, <<"directory", res.dirs[i].tree>>}
                        \cup FileBlobs(res.dirs[i].tree) : i \in DOMAIN res.dirs}
StreamRefs(res) == {Data(res.stdout), Data(res.stderr)}
Refs(res) == IF res = Nothing THEN {}
             ELSE StreamRefs(res) \cup FileRefs(res) \cup DirRefs(res)

-----------------------------------------------------------------------------
VARIABLES
    pc,        \* where each invocation is
    upload,    \* the upload_if_missing call in progress, or the last one
    result,    \* the ActionResult being assembled or replayed
    at,        \* output directories replayed so far
    shown,     \* what the invocation wrote to its stdout and stderr
    cas,       \* the blobs the server holds
    ac,        \* the ActionCache
    disk,      \* disk[cwd][path]
    executed,  \* history: what each invocation's child left behind
    published  \* history: the <<action, result>> pairs ever recorded

vars == <<pc, upload, result, at, shown, cas, ac, disk, executed, published>>

Labels == {"start", "find", "push", "lookup", "spawn", "capture", "record",
           "stdout", "stderr", "files", "trees", "treefiles",
           "done", "failed"}
Replaying == {"stdout", "stderr", "files", "trees", "treefiles"}
Finished(r) == pc[r] \in {"done", "failed"}

At(r) == disk[Opts[r].cwd]
Files(r) == Opts[r].files
Dirs(r)  == Opts[r].dirs

NoUpload == [blobs |-> {}, missing |-> {}, next |-> "start"]

Init ==
    /\ pc = [r \in Runs |-> "start"]
    /\ upload = [r \in Runs |-> NoUpload]
    /\ result = [r \in Runs |-> Nothing]
    /\ at = [r \in Runs |-> 0]
    /\ shown = [r \in Runs |-> [stdout |-> Nothing, stderr |-> Nothing]]
    /\ cas = {}
    /\ ac = [a \in Actions |-> Nothing]
    /\ disk \in [Cwds -> [Paths -> InitialNodes]]
    /\ executed = [r \in Runs |-> Nothing]
    /\ published = {}

Goto(r, label) == pc' = [pc EXCEPT ![r] = label]

(* upload_if_missing(blobs), after which the invocation goes on at next.   *)
Upload(r, blobs, next) ==
    /\ upload' = [upload EXCEPT ![r] =
                    [blobs |-> blobs, missing |-> {}, next |-> next]]
    /\ Goto(r, "find")

-----------------------------------------------------------------------------
(* The steps of one invocation.                                            *)

(* build_action, then the upload of the Command and the Action.            *)
Start(r) ==
    /\ pc[r] = "start"
    /\ \A q \in After[r] : Finished(q)
    /\ Upload(r, KeyBlobs(r), IF Opts[r].noCache THEN "spawn" ELSE "lookup")
    /\ UNCHANGED <<result, at, shown, cas, ac, disk, executed, published>>

(* FindMissingBlobs.                                                       *)
FindMissing(r) ==
    /\ pc[r] = "find"
    /\ upload' = [upload EXCEPT ![r].missing = upload[r].blobs \ cas]
    /\ Goto(r, "push")
    /\ UNCHANGED <<result, at, shown, cas, ac, disk, executed, published>>

(* BatchUpdateBlobs of what was reported missing.                          *)
Push(r) ==
    /\ pc[r] = "push"
    /\ cas' = cas \cup upload[r].missing
    /\ upload' = [upload EXCEPT ![r] = NoUpload]
    /\ Goto(r, upload[r].next)
    /\ UNCHANGED <<result, at, shown, ac, disk, executed, published>>

(* Mutation of PushPartly: the status of the items is not looked at.       *)
PushPartlyUnchecked(r) ==
    /\ pc[r] = "push"
    /\ r \in Unreliable
    /\ \E stored \in SUBSET upload[r].missing : cas' = cas \cup stored
    /\ upload' = [upload EXCEPT ![r] = NoUpload]
    /\ Goto(r, upload[r].next)
    /\ UNCHANGED <<result, at, shown, ac, disk, executed, published>>

(* A batch that is stored in part: some item has an error status, or a     *)
(* later batch fails as an RPC.                                            *)
PushPartly(r) ==
    /\ pc[r] = "push"
    /\ r \in Unreliable
    /\ \E stored \in SUBSET upload[r].missing : cas' = cas \cup stored
    /\ upload' = [upload EXCEPT ![r] = NoUpload]
    /\ Goto(r, "failed")
    /\ UNCHANGED <<result, at, shown, ac, disk, executed, published>>

(* Mutation of LookupMiss: the entry is not looked at.                     *)
LookupIgnored(r) ==
    /\ pc[r] = "lookup"
    /\ Goto(r, "spawn")
    /\ UNCHANGED <<upload, result, at, shown, cas, ac, disk, executed, published>>

(* action_result: NotFound is a miss.                                      *)
LookupMiss(r) ==
    /\ pc[r] = "lookup"
    /\ ac[ActionOf(r)] = Nothing
    /\ Goto(r, "spawn")
    /\ UNCHANGED <<upload, result, at, shown, cas, ac, disk, executed, published>>

LookupHit(r) ==
    /\ pc[r] = "lookup"
    /\ ac[ActionOf(r)] # Nothing
    /\ result' = [result EXCEPT ![r] = ac[ActionOf(r)]]
    /\ Goto(r, "stdout")
    /\ UNCHANGED <<upload, at, shown, cas, ac, disk, executed, published>>

(* Mutations of AfterCapture: the directories are forgotten; --no-cache is. *)
AfterCaptureOfFiles(r, res) ==
    IF Len(res.files) < Len(Files(r)) THEN "capture"
    ELSE IF Opts[r].noCache THEN "done" ELSE "record"
AfterCaptureRecord(r, res) ==
    IF Len(res.files) < Len(Files(r)) \/ Len(res.dirs) < Len(Dirs(r))
    THEN "capture" ELSE "record"

(* Where the invocation goes once res holds what was captured so far.      *)
AfterCapture(r, res) ==
    IF Len(res.files) < Len(Files(r)) \/ Len(res.dirs) < Len(Dirs(r))
    THEN "capture"
    ELSE IF Opts[r].noCache THEN "done" ELSE "record"

(* spawn_and_tee: the child runs to its end in the directory the tool was  *)
(* started from, over whatever lies there; then its streams are uploaded.  *)
Execute(r) ==
    /\ pc[r] = "spawn"
    /\ \E b \in Behaviours[Opts[r].argv] :
         LET left == [p \in Paths |->
                        IF p \in DOMAIN b.writes THEN b.writes[p] ELSE At(r)[p]]
         IN  /\ disk' = [disk EXCEPT ![Opts[r].cwd] = left]
             /\ executed' = [executed EXCEPT ![r] =
                               [code |-> b.code, stdout |-> b.stdout,
                                stderr |-> b.stderr, left |-> left]]
             /\ shown' = [shown EXCEPT ![r] =
                            [stdout |-> b.stdout, stderr |-> b.stderr]]
             /\ LET res == [code |-> b.code, stdout |-> b.stdout,
                            stderr |-> b.stderr, files |-> <<>>, dirs |-> <<>>]
                IN  /\ result' = [result EXCEPT ![r] = res]
                    /\ Upload(r, StreamRefs(res), AfterCapture(r, res))
    /\ UNCHANGED <<at, cas, ac, published>>

(* The declared output whose turn it is: files first, then directories.    *)
Due(r) == IF Len(result[r].files) < Len(Files(r))
          THEN Files(r)[Len(result[r].files) + 1]
          ELSE Dirs(r)[Len(result[r].dirs) + 1]
DueKind(r) == IF Len(result[r].files) < Len(Files(r)) THEN "file" ELSE "dir"

(* capture_output_file.                                                    *)
CaptureFile(r) ==
    /\ pc[r] = "capture"
    /\ DueKind(r) = "file"
    /\ At(r)[Due(r)].kind = "file"
    /\ LET node == At(r)[Due(r)]
           res  == [result[r] EXCEPT !.files = Append(@,
                      [path |-> Due(r), data |-> node.data, exec |-> node.exec])]
       IN  /\ result' = [result EXCEPT ![r] = res]
           /\ Upload(r, {Data(node.data)}, AfterCapture(r, res))
    /\ UNCHANGED <<at, shown, cas, ac, disk, executed, published>>

(* capture_output_directory: upload_directory of the whole tree.           *)
CaptureDir(r) ==
    /\ pc[r] = "capture"
    /\ DueKind(r) = "dir"
    /\ At(r)[Due(r)].kind = "dir"
    /\ LET tree == At(r)[Due(r)].entries
           res  == [result[r] EXCEPT !.dirs = Append(@,
                      [path |-> Due(r), tree |-> tree])]
       IN  /\ result' = [result EXCEPT ![r] = res]
           /\ Upload(r, TreeBlobs(tree), AfterCapture(r, res))
    /\ UNCHANGED <<at, shown, cas, ac, disk, executed, published>>

(* The output is missing, a symbolic link or of the other kind: the `?`    *)
(* of the capture loop ends the invocation.                                *)
CaptureRefused(r) ==
    /\ pc[r] = "capture"
    /\ At(r)[Due(r)].kind # DueKind(r)
    /\ Goto(r, "failed")
    /\ UNCHANGED <<upload, result, at, shown, cas, ac, disk, executed, published>>

(* Mutation of Publish: the exit code is left at its default.              *)
PublishSuccess(r) ==
    /\ ac' = [ac EXCEPT ![ActionOf(r)] = [result[r] EXCEPT !.code = 0]]
    /\ published' = published \cup {<<ActionOf(r), [result[r] EXCEPT !.code = 0]>>}

(* UpdateActionResult; the last result wins.                               *)
Publish(r) ==
    /\ ac' = [ac EXCEPT ![ActionOf(r)] = result[r]]
    /\ published' = published \cup {<<ActionOf(r), result[r]>>}

Record(r) ==
    /\ pc[r] = "record"
    /\ Publish(r)
    /\ Goto(r, "done")
    /\ UNCHANGED <<upload, result, at, shown, cas, disk, executed>>

(* The server stored the result and its answer was lost.                   *)
RecordUnanswered(r) ==
    /\ pc[r] = "record"
    /\ r \in Unreliable
    /\ Publish(r)
    /\ Goto(r, "failed")
    /\ UNCHANGED <<upload, result, at, shown, cas, disk, executed>>

-----------------------------------------------------------------------------
(* replay: a hit is played back one download at a time.                    *)

AfterTrees(r, n) == IF n < Len(result[r].dirs) THEN "trees" ELSE "done"
Replayed(r) == result[r].dirs[at[r] + 1]

(* What the download the invocation is about to do asks the CAS for.       *)
Wanted(r) ==
    CASE pc[r] = "stdout"    -> {Data(result[r].stdout)}
      [] pc[r] = "stderr"    -> {Data(result[r].stderr)}
      [] pc[r] = "files"     -> FileRefs(result[r])
      [] pc[r] = "trees"     -> {<<"tree", Replayed(r).tree>>}
      [] pc[r] = "treefiles" -> FileBlobs(Replayed(r).tree)
      [] OTHER               -> {}

(* write_stream, for stdout and then for stderr.  A stream is shown if the *)
(* server put it into its answer to the look-up, which it may, or if the   *)
(* CAS sends it; what the CAS leaves out of its answer is not missed.      *)
PrintStdout(r) ==
    /\ pc[r] = "stdout"
    /\ \/ shown' = [shown EXCEPT ![r].stdout = result[r].stdout]
       \/ r \in Omitting /\ UNCHANGED shown
    /\ Goto(r, "stderr")
    /\ UNCHANGED <<upload, result, at, cas, ac, disk, executed, published>>

PrintStderr(r) ==
    /\ pc[r] = "stderr"
    /\ \/ shown' = [shown EXCEPT ![r].stderr = result[r].stderr]
       \/ r \in Omitting /\ UNCHANGED shown
    /\ Goto(r, "files")
    /\ UNCHANGED <<upload, result, at, cas, ac, disk, executed, published>>

(* Mutation of Unrestorable: a file that exists is not overwritten.        *)
UnrestorableOver(r, i) == At(r)[result[r].files[i].path].kind # "absent"

(* restore_output_files takes the content of every file out of the map it  *)
(* downloaded, so a second file with the same digest finds nothing; a      *)
(* directory in the place of a file cannot be written.                     *)
Unrestorable(r, i) ==
    LET f == result[r].files
    IN  \/ \E j \in 1..(i - 1) : f[j].data = f[i].data
        \/ At(r)[f[i].path].kind = "dir"

(* The files before the first that cannot be restored, and what writing    *)
(* them leaves.                                                            *)
Restorable(r) == {i \in DOMAIN result[r].files :
                    \A j \in 1..i : ~Unrestorable(r, j)}
LastAt(r, p, ids) == {i \in ids : /\ result[r].files[i].path = p
                                  /\ \A j \in ids : result[r].files[j].path = p
                                                    => j <= i}
Restored(r, ids) ==
    [p \in Paths |->
       IF LastAt(r, p, ids) # {}
       THEN Written(At(r)[p], result[r].files[CHOOSE i \in LastAt(r, p, ids) : TRUE])
       ELSE At(r)[p]]

RestoreFiles(r) ==
    /\ pc[r] = "files"
    /\ Wanted(r) \subseteq cas
    /\ disk' = [disk EXCEPT ![Opts[r].cwd] = Restored(r, Restorable(r))]
    /\ Goto(r, IF Restorable(r) = DOMAIN result[r].files
               THEN AfterTrees(r, 0) ELSE "failed")
    /\ UNCHANGED <<upload, result, at, shown, cas, ac, executed, published>>

(* download_tree up to its second download: the directory and the symbolic *)
(* links are created first.  What was in the directory stays there.  A     *)
(* link in the place of the directory is taken to lead to no directory.    *)
NoEntries == [n \in {} |-> Absent]
EntriesAt(r, p) == IF At(r)[p].kind = "dir" THEN At(r)[p].entries ELSE NoEntries
WithEntries(r, p, new) ==
    LET old == EntriesAt(r, p)
    IN  [disk EXCEPT ![Opts[r].cwd][p] =
           [kind |-> "dir",
            entries |-> [n \in DOMAIN old \cup DOMAIN new |->
                           IF n \in DOMAIN new THEN new[n] ELSE old[n]]]]

MaterializeTree(r) ==
    /\ pc[r] = "trees"
    /\ Wanted(r) \subseteq cas
    /\ At(r)[Replayed(r).path].kind \in {"absent", "dir"}
    /\ LET t   == Replayed(r).tree
           old == DOMAIN EntriesAt(r, Replayed(r).path)
       IN  /\ LinksOf(t) \cap old = {}
           /\ disk' = WithEntries(r, Replayed(r).path,
                                  [n \in LinksOf(t) |-> t[n]])
    /\ Goto(r, "treefiles")
    /\ UNCHANGED <<upload, result, at, shown, cas, ac, executed, published>>

(* symlink(2) refuses a name that exists.  The links before it, in an      *)
(* order the model leaves open, have been created.                         *)
MaterializeRefused(r) ==
    /\ pc[r] = "trees"
    /\ Wanted(r) \subseteq cas
    /\ LET t   == Replayed(r).tree
           old == DOMAIN EntriesAt(r, Replayed(r).path)
       IN  IF At(r)[Replayed(r).path].kind \in {"absent", "dir"}
           THEN /\ LinksOf(t) \cap old # {}
                /\ \E some \in SUBSET (LinksOf(t) \ old) :
                     disk' = WithEntries(r, Replayed(r).path,
                                         [n \in some |-> t[n]])
           ELSE UNCHANGED disk
    /\ Goto(r, "failed")
    /\ UNCHANGED <<upload, result, at, shown, cas, ac, executed, published>>

(* write_files, and its failure when another process took the directory    *)
(* away in the meantime.                                                   *)
WithFiles(r, names) ==
    LET t   == Replayed(r).tree
        old == EntriesAt(r, Replayed(r).path)
    IN  WithEntries(r, Replayed(r).path,
          [n \in names |->
             IF n \in DOMAIN old THEN Written(old[n], t[n]) ELSE t[n]])

WriteTree(r) ==
    /\ pc[r] = "treefiles"
    /\ Wanted(r) \subseteq cas
    /\ At(r)[Replayed(r).path].kind = "dir"
    /\ disk' = WithFiles(r, FilesOf(Replayed(r).tree))
    /\ at' = [at EXCEPT ![r] = @ + 1]
    /\ Goto(r, AfterTrees(r, at[r] + 1))
    /\ UNCHANGED <<upload, result, shown, cas, ac, executed, published>>

WriteRefused(r) ==
    /\ pc[r] = "treefiles"
    /\ Wanted(r) \subseteq cas
    /\ At(r)[Replayed(r).path].kind # "dir"
    /\ Goto(r, "failed")
    /\ UNCHANGED <<upload, result, at, shown, cas, ac, disk, executed, published>>

(* The answer leaves a digest out.  Outputs are restored up to the first   *)
(* that lacks its content; the files of a tree come in no known order.     *)
LeftOut(r) ==
    /\ r \in Omitting
    /\ \/ /\ pc[r] = "files"
          /\ \E i \in DOMAIN result[r].files :
               disk' = [disk EXCEPT ![Opts[r].cwd] =
                          Restored(r, {j \in Restorable(r) : j < i})]
       \/ pc[r] = "trees" /\ UNCHANGED disk
       \/ /\ pc[r] = "treefiles"
          /\ At(r)[Replayed(r).path].kind = "dir"
          /\ LET all == FilesOf(Replayed(r).tree)
             IN  \E some \in SUBSET all : some # all /\ disk' = WithFiles(r, some)
    /\ Goto(r, "failed")
    /\ UNCHANGED <<upload, result, at, shown, cas, ac, executed, published>>

(* BatchReadBlobs reports a blob that is not there.                        *)
BlobGone(r) ==
    /\ pc[r] \in Replaying
    /\ ~(Wanted(r) \subseteq cas)
    /\ Goto(r, "failed")
    /\ UNCHANGED <<upload, result, at, shown, cas, ac, disk, executed, published>>

(* An RPC error, a local I/O error or a signal, at any point.              *)
Fail(r) ==
    /\ r \in Unreliable
    /\ ~Finished(r)
    /\ upload' = [upload EXCEPT ![r] = NoUpload]
    /\ Goto(r, "failed")
    /\ UNCHANGED <<result, at, shown, cas, ac, disk, executed, published>>

-----------------------------------------------------------------------------
(* The servers drop what they like of what they may drop.                  *)

EvictBlob(b) ==
    /\ b \in cas
    /\ cas' = cas \ {b}
    /\ UNCHANGED <<pc, upload, result, at, shown, ac, disk, executed, published>>

EvictAction(a) ==
    /\ ac[a] # Nothing
    /\ ac' = [ac EXCEPT ![a] = Nothing]
    /\ UNCHANGED <<pc, upload, result, at, shown, cas, disk, executed, published>>

Terminated ==
    /\ \A r \in Runs : Finished(r)
    /\ UNCHANGED vars

Step(r) ==
    \/ Start(r) \/ FindMissing(r) \/ Push(r)
    \/ LookupMiss(r) \/ LookupHit(r)
    \/ Execute(r) \/ CaptureFile(r) \/ CaptureDir(r) \/ CaptureRefused(r)
    \/ Record(r)
    \/ PrintStdout(r) \/ PrintStderr(r) \/ RestoreFiles(r)
    \/ MaterializeTree(r) \/ MaterializeRefused(r)
    \/ WriteTree(r) \/ WriteRefused(r) \/ LeftOut(r) \/ BlobGone(r)

Fault(r) == PushPartly(r) \/ RecordUnanswered(r) \/ Fail(r)

Next ==
    \/ \E r \in Runs : Step(r) \/ Fault(r)
    \/ \E b \in EvictableBlobs : EvictBlob(b)
    \/ \E a \in EvictableActions : EvictAction(a)
    \/ Terminated

Spec == Init /\ [][Next]_vars

(* An invocation is a single task that always moves on: every RPC returns  *)
(* and the child ends.  Nothing is assumed of faults and of eviction.      *)
Fairness == \A r \in Runs : WF_vars(Step(r))
FairSpec == Spec /\ Fairness
=============================================================================
