------------------------------ MODULE MCMemoRun ------------------------------
(***************************************************************************)
(* Small instances of MemoRun.  Each scenario gives the invocations, what  *)
(* their command may do, and which faults may happen.                      *)
(***************************************************************************)
EXTENDS MemoRunProperties, TLC

CONSTANTS r1, r2, r3, text1, text2, name1, name2, file1, file2, dir1, w1, w2, root, gen, clean

File(c, exe)  == [kind |-> "file", data |-> c, exec |-> exe]
Link(c)       == [kind |-> "link", data |-> c, exec |-> FALSE]
Dir(t)        == [kind |-> "dir", entries |-> t]
Option(w, nc) == [cwd |-> w, root |-> root, argv |-> gen,
                  files |-> <<file1>>, dirs |-> <<dir1>>, noCache |-> nc]

NoOrder == [r \in Runs |-> {}]
NoNodes == {Absent}

(* The command may succeed or fail, with outputs of either content; the    *)
(* second outcome leaves one entry less in the output directory.           *)
Good == [code |-> 0, stdout |-> text1, stderr |-> text2,
         writes |-> (file1 :> File(text1, TRUE)) @@ (dir1 :> Dir((name1 :> File(text1, FALSE)) @@ (name2 :> File(text2, TRUE))))]
Flaky == [code |-> 1, stdout |-> text2, stderr |-> text2,
          writes |-> (file1 :> File(text2, FALSE)) @@ (dir1 :> Dir(name1 :> File(text2, TRUE)))]
Empty == [code |-> 1, stdout |-> text2, stderr |-> text1, writes |-> <<>>]
Linked == [code |-> 0, stdout |-> text1, stderr |-> text1,
           writes |-> (file1 :> File(text1, TRUE)) @@ (dir1 :> Dir((name1 :> File(text1, FALSE)) @@ (name2 :> Link(text2))))]

(* Two invocations race in one directory that a third one cleans; one may  *)
(* fail anywhere, and the servers drop entries and one of the contents.    *)
Clean == [cwd |-> w1, root |-> root, argv |-> clean,
          files |-> <<>>, dirs |-> <<>>, noCache |-> TRUE]
Removed == [code |-> 0, stdout |-> text1, stderr |-> text1,
            writes |-> (file1 :> Absent) @@ (dir1 :> Absent)]
SharedOpts       == (r1 :> Option(w1, FALSE)) @@ (r2 :> Option(w1, FALSE))
                    @@ (r3 :> Clean)
SharedBehaviours == (gen :> {Linked, Flaky}) @@ (clean :> {Removed})
SharedBlobs      == {Data(text2)}
SharedActions    == Actions

(* Two invocations race in directories of their own; a third comes after   *)
(* the one that may fail, in its directory.                                *)
SeparateOpts       == (r1 :> Option(w1, FALSE)) @@ (r2 :> Option(w2, FALSE))
                      @@ (r3 :> Option(w1, FALSE))
SeparateOrder      == (r1 :> {}) @@ (r2 :> {}) @@ (r3 :> {r1})
SeparateBehaviours == gen :> {Good, Flaky}

(* A script runs the command twice in one directory; a third invocation    *)
(* runs it elsewhere at the same time with --no-cache.                     *)
SequenceOpts       == (r1 :> Option(w1, FALSE)) @@ (r2 :> Option(w1, FALSE))
                      @@ (r3 :> Option(w2, TRUE))
SequenceOrder      == (r1 :> {}) @@ (r2 :> {r1}) @@ (r3 :> {})
SequenceBehaviours == gen :> {Good, Flaky, Empty, Linked}
SequenceNodes      == {Absent, File(text2, FALSE)}

-----------------------------------------------------------------------------
(* Scenarios in which the code departs from what it documents.             *)

TwoFiles           == [r \in Runs |-> [Option(w1, FALSE) EXCEPT !.files = <<file1, file2>>]]
RunTwice           == (r1 :> {}) @@ (r2 :> {r1})
TwinBehaviours     == gen :> {[code |-> 0, stdout |-> text1, stderr |-> text1,
                               writes |-> (file1 :> File(text1, FALSE)) @@ (file2 :> File(text1, FALSE))
                                          @@ (dir1 :> Dir(<<>>))]}
FileAndDirOpts     == (r1 :> [Option(w1, FALSE) EXCEPT !.dirs = <<>>])
                      @@ (r2 :> [Option(w2, FALSE) EXCEPT !.files = <<>>, !.dirs = <<file1>>])
FileBehaviours     == gen :> {[Good EXCEPT !.writes = file1 :> File(text1, FALSE)]}
=============================================================================
