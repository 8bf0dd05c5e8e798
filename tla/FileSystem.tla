------------------------------ MODULE FileSystem ------------------------------
(***************************************************************************)
(* A POSIX file system, as far as src/ sees it (external): a function from *)
(* the paths of what exists to nodes.  Paths are sequences of components   *)
(* from "/" on; a path handed to a system call may have the components     *)
(* "." and ".." in it, and one with a trailing slash is written with a     *)
(* last component ".".                                                     *)
(***************************************************************************)
EXTENDS Naturals, Sequences, FiniteSets, SequencesExt

CONSTANT MaxSteps   \* bound: components looked up before ELOOP

ASSUME MaxStepsAssumption == MaxSteps \in Nat

Modes          == SUBSET {"owner", "others"}                         \* who may execute a file
Dir            == [kind |-> "dir"]
File(c, modes) == [kind |-> "file", content |-> c, modes |-> modes]
Link(abs, to)  == [kind |-> "link", absolute |-> abs, target |-> to]
Other          == [kind |-> "other"]                                 \* a pipe or a socket

Under(p, q)      == IsPrefix(q, p)
RelativeTo(p, q) == SubSeq(p, Len(q) + 1, Len(p))

(* Where a path leads that leads nowhere (nothing at the top is so called).*)
Gone == <<"gone">>

IsNode(node, names) ==
    \/ node \in {Dir, Other}
    \/ node.kind = "file" /\ node = File(node.content, node.modes) /\ node.modes \in Modes
    \/ /\ node.kind = "link" /\ node = Link(node.absolute, node.target)
       /\ node.absolute \in BOOLEAN /\ node.target \in Seq(names \cup {".", ".."})

(* What is above a path that exists is a directory.                        *)
IsFileSystem(fs, names) ==
    /\ DOMAIN fs \subseteq Seq(names) /\ IsFiniteSet(DOMAIN fs) /\ Gone \notin DOMAIN fs
    /\ <<>> \in DOMAIN fs /\ fs[<<>>] = Dir
    /\ \A p \in DOMAIN fs :
         /\ IsNode(fs[p], names)
         /\ \A n \in 0 .. Len(p) - 1 : SubSeq(p, 1, n) \in DOMAIN fs /\ fs[SubSeq(p, 1, n)] = Dir

(* Looking up a component in what is at a path.                            *)
Parent(at) == IF at = <<>> THEN at ELSE Front(at)
Entered(fs, at, name) ==
    IF fs[at].kind # "dir" THEN Gone
    ELSE CASE name = "."  -> at
           [] name = ".." -> Parent(at)
           [] OTHER       -> IF Append(at, name) \in DOMAIN fs THEN Append(at, name) ELSE Gone

(* A state of a walk: where it is, and what is left to look up.  A link is *)
(* followed from the directory it is in.                                   *)
Advance(fs, s) ==
    LET next == Entered(fs, s.at, Head(s.rest))
        left == Tail(s.rest)
    IN IF s.rest = <<>> \/ s.at = Gone THEN s
       ELSE IF next \in DOMAIN fs /\ fs[next].kind = "link"
       THEN [at |-> IF fs[next].absolute THEN <<>> ELSE s.at, rest |-> fs[next].target \o left]
       ELSE [at |-> next, rest |-> left]

Lookup(fs, at, path) ==
    LET upTo[n \in 0 .. MaxSteps] ==
          IF n = 0 THEN [at |-> at, rest |-> path] ELSE Advance(fs, upTo[n - 1])
    IN upTo

(* Where a path leads from directory at, every link followed.              *)
Canonicalize(fs, at, path) ==
    LET end == Lookup(fs, at, path)[MaxSteps] IN IF end.rest = <<>> THEN end.at ELSE Gone

(* lstat: where the path leads without following a link at its end.        *)
NoFollow(fs, at, path) ==
    IF path = <<>> \/ Last(path) \in {".", ".."} THEN Canonicalize(fs, at, path)
    ELSE LET parent == Canonicalize(fs, at, Front(path))
         IN IF parent # Gone /\ fs[parent].kind = "dir" /\ Append(parent, Last(path)) \in DOMAIN fs
            THEN Append(parent, Last(path)) ELSE Gone

(* What lies below a directory.                                            *)
Below(fs, at) == {p \in DOMAIN fs : Under(p, at) /\ p # at}
=============================================================================
