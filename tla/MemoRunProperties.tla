-------------------------- MODULE MemoRunProperties --------------------------
(***************************************************************************)
(* What is claimed of MemoRun: its invariants, the properties of its       *)
(* steps, and the refinement of Memo.                                      *)
(***************************************************************************)
EXTENDS MemoRun

CONSTANTS
    Unusable,  \* an execution that did not leave what was declared
    Failed     \* the answer of an invocation that failed

ASSUME UnusableAssumption == Unusable \notin ActionResult \cup {Nothing}

Pending(r) == CASE pc[r] = "find" -> upload[r].blobs
                [] pc[r] = "push" -> upload[r].missing
                [] OTHER          -> {}

(* The types of the variables.                                             *)
TypeOK ==
    /\ pc \in [Runs -> Labels]
    /\ upload \in [Runs -> [blobs : SUBSET Blobs, missing : SUBSET Blobs,
                            next : Labels]]
    /\ result \in [Runs -> ActionResult \cup {Nothing}]
    /\ at \in [Runs -> Nat]
    /\ shown \in [Runs -> [stdout : Content \cup {Nothing},
                           stderr : Content \cup {Nothing}]]
    /\ cas \subseteq Blobs
    /\ ac \in [Actions -> ActionResult \cup {Nothing}]
    /\ disk \in [Cwds -> [Paths -> Node]]
    /\ executed \in [Runs -> Execution \cup {Nothing}]
    /\ published \subseteq (Actions \X ActionResult)

-----------------------------------------------------------------------------
(* Whatever the ActionCache refers to is in the CAS, as are the Action and *)
(* the Command it is filed under, save for what the CAS dropped itself:    *)
(* run_cached records a result only after every blob of it is stored,      *)
(* though it asks what is missing and stores it in two calls, interleaved  *)
(* with those of other invocations (run.rs:137-195, client.rs:171-179).    *)
ReferentialIntegrity ==
    \A r \in Runs :
      ac[ActionOf(r)] # Nothing =>
        (Refs(ac[ActionOf(r)]) \cup KeyBlobs(r)) \ EvictableBlobs \subseteq cas

(* The blobs an invocation owes for what it has built, captured or looked  *)
(* up so far are stored, or are part of the upload in progress: no `?` and *)
(* no early exit of the capture loops leaves one behind.                   *)
OwedOrPending ==
    \A r \in Runs :
      pc[r] \notin {"start", "failed"} =>
        (Refs(result[r]) \cup KeyBlobs(r)) \ EvictableBlobs
          \subseteq cas \cup Pending(r)

(* What a hit replays can be downloaded: an invocation that found an entry *)
(* never meets a missing blob that the CAS did not drop.                   *)
HitsResolve ==
    \A r \in Runs :
      pc[r] \in Replaying => Wanted(r) \ EvictableBlobs \subseteq cas

-----------------------------------------------------------------------------
(* Invocations that share a directory run one after the other.             *)
Separate ==
    \A q, r \in Runs :
      (q # r /\ Opts[q].cwd = Opts[r].cwd) => q \in After[r] \/ r \in After[q]

(* The result a child's execution amounts to, taken at its end.            *)

Captured(o, e) ==
    [code |-> e.code, stdout |-> e.stdout, stderr |-> e.stderr,
     files |-> [i \in 1..Len(o.files) |->
                  [path |-> o.files[i], data |-> e.left[o.files[i]].data,
                   exec |-> e.left[o.files[i]].exec]],
     dirs  |-> [i \in 1..Len(o.dirs) |->
                  [path |-> o.dirs[i], tree |-> e.left[o.dirs[i]].entries]]]

(* Every declared output was left behind, as what it was declared to be.   *)
Complete(o, e) ==
    /\ \A i \in DOMAIN o.files : e.left[o.files[i]].kind = "file"
    /\ \A i \in DOMAIN o.dirs : e.left[o.dirs[i]].kind = "dir"

SameWork(o, p) == /\ o.argv = p.argv /\ o.root = p.root
                  /\ Seqs(o.files) \cup Seqs(o.dirs) = Seqs(p.files) \cup Seqs(p.dirs)
                  /\ ~o.noCache /\ ~p.noCache

(* An ActionCache entry is, exit code, streams and outputs together, what  *)
(* one single execution of that very command over those very inputs left   *)
(* behind, and never a mix of two, for all the steps between the child's   *)
(* end and UpdateActionResult.  It needs invocations that share a          *)
(* directory to run one after the other.                                   *)
OneExecution ==
    \A r \in Runs :
      ac[ActionOf(r)] # Nothing =>
        \E q \in Runs :
          /\ executed[q] # Nothing
          /\ SameWork(Opts[q], Opts[r])
          /\ Complete(Opts[q], executed[q])
          /\ ac[ActionOf(r)] = Captured(Opts[q], executed[q])

(* When a hit ends well, the caller finds every recorded file, with its    *)
(* executable bit, and every entry of every recorded directory in its own  *)
(* directory, and has seen the recorded streams (replay, run.rs:197-233);  *)
(* only a server that leaves a stream out of its answers makes it miss it. *)
SameFile(node, f) == node.data = f.data /\ node.exec = f.exec
InPlace(r, d) ==
    /\ \A i \in DOMAIN result[r].files :
         LET f == result[r].files[i]
         IN  d[f.path].kind \in {"file", "link"} /\ SameFile(d[f.path], f)
    /\ \A i \in DOMAIN result[r].dirs :
         LET t == result[r].dirs[i].tree
             n == d[result[r].dirs[i].path]
         IN  /\ n.kind = "dir"
             /\ \A e \in DOMAIN t : e \in DOMAIN n.entries /\ SameFile(n.entries[e], t[e])
MayShow(r, recorded) == {recorded} \cup (IF r \in Omitting THEN {Nothing} ELSE {})
HitLooksExecuted ==
    [][\A r \in Runs :
         (pc[r] \in Replaying /\ pc'[r] = "done") =>
           /\ shown'[r].stdout \in MayShow(r, result[r].stdout)
           /\ shown'[r].stderr \in MayShow(r, result[r].stderr)
           /\ InPlace(r, disk'[Opts[r].cwd])]_vars

(* What a hit is about to restore is not in its own way: no content twice  *)
(* among the files, no path twice among the directories or among both.     *)
Restores(res) ==
    /\ \A i, j \in DOMAIN res.files :
         res.files[i].data = res.files[j].data => i = j
    /\ \A i, j \in DOMAIN res.dirs :
         res.dirs[i].path = res.dirs[j].path => i = j
    /\ \A i \in DOMAIN res.files : \A j \in DOMAIN res.dirs :
         res.files[i].path # res.dirs[j].path

(* Nor is what lies in the directory: a file is written over anything but  *)
(* a directory, a tree into a directory without the names of its links.    *)
Welcomes(node, t) ==
    \/ node.kind = "absent"
    \/ node.kind = "dir" /\ LinksOf(t) \cap DOMAIN node.entries = {}
Clear(d, res) ==
    /\ \A i \in DOMAIN res.files : d[res.files[i].path].kind # "dir"
    /\ \A i \in DOMAIN res.dirs : Welcomes(d[res.dirs[i].path], res.dirs[i].tree)

(* A hit that finds nothing in the way of its outputs when it begins, and  *)
(* whose blobs the CAS keeps, does not fail: neither the leftovers that it *)
(* overwrites nor what it has just restored itself is an obstacle (replay, *)
(* download_tree).  It needs, too, invocations that share a directory to   *)
(* run one after the other.                                                *)
ClearHit(r) ==
    /\ pc[r] = "stdout"
    /\ Restores(result[r])
    /\ Clear(At(r), result[r])
    /\ Refs(result[r]) \cap EvictableBlobs = {}
ClearHitsSucceed ==
    \A r \in Runs \ (Unreliable \cup Omitting) :
      [](ClearHit(r) => [](pc[r] # "failed"))

(* Once a result is recorded, an invocation of the same action that starts *)
(* later never executes the command again (with no eviction of entries).   *)
Memoized ==
    \A r \in Runs :
      []((pc[r] = "start" /\ ac[ActionOf(r)] # Nothing)
           => [](executed[r] = Nothing))

-----------------------------------------------------------------------------
(* What the documentation says and the code does not do; each is violated. *)

(* An output is "captured and cached, restored verbatim on a cache hit"    *)
(* (main.rs:73-75): with no fault and no eviction, a hit succeeds.         *)
HitSucceeds ==
    \A r \in Runs :
      (pc[r] = "failed" /\ r \notin Unreliable) => executed[r] # Nothing

(* --output-file and --output-dir "must match exactly to compute the same  *)
(* digest" (main.rs:91-93): a hit has the outputs asked for, each of the   *)
(* kind asked for.                                                         *)
HitHasDeclaredOutputs ==
    \A r \in Runs :
      pc[r] \in Replaying =>
        /\ Seqs(Files(r)) = {result[r].files[i].path : i \in DOMAIN result[r].files}
        /\ Seqs(Dirs(r)) = {result[r].dirs[i].path : i \in DOMAIN result[r].dirs}

-----------------------------------------------------------------------------
(* The refinement of Memo: the servers and the disk are hidden.            *)

Own == [r \in Runs |->
          IF executed[r] = Nothing THEN Nothing
          ELSE IF Complete(Opts[r], executed[r])
               THEN Captured(Opts[r], executed[r])
               ELSE Unusable]
Answer == [r \in Runs |-> CASE pc[r] = "done"   -> result[r]
                            [] pc[r] = "failed" -> Failed
                            [] OTHER            -> Nothing]

Abstract ==
    INSTANCE Memo WITH
      Key <- [r \in Runs |-> ActionOf(r)],
      Cacheable <- {r \in Runs : ~Opts[r].noCache},
      Results <- ActionResult, None <- Nothing,
      own <- Own, memo <- published, answer <- Answer

(* Every answer is one whole result: the invocation's own, or one recorded *)
(* for the same action by an invocation that executed it; --no-cache       *)
(* neither recalls nor records.                                            *)
ImplementsMemo == Abstract!Safe

(* The same, and every invocation ends.                                    *)
ImplementsMemoLive == Abstract!Spec
=============================================================================
