----------------------------- MODULE TreeTransfer -----------------------------
(***************************************************************************)
(* `re-memoize upload` and `re-memoize download`: a directory becomes      *)
(* REAPI messages (build_directory, tree.rs), the messages and files go to *)
(* the CAS (upload_directory, upload.rs), and another invocation rebuilds  *)
(* the directory from the digest of its root, level by level               *)
(* (download_from_root, download.rs), or from that of its Tree message     *)
(* (download_tree).                                                        *)
(*                                                                         *)
(* A directory is a function from paths to nodes.  A digest is the value   *)
(* it digests, as in MemoRun, where the same calls are part of a run and   *)
(* directories are flat; here they are nested and what matters is shape.   *)
(***************************************************************************)
EXTENDS Naturals, Sequences

CONSTANTS
    Names,        \* file names
    Directories,  \* directories that may be uploaded, as functions of paths
    Evictable     \* blobs the CAS may drop

Dir == [kind |-> "dir"]

(* Permission bits, as the code looks at them: executable for the owner    *)
(* (0o100), for others only (0o011), for nobody.                           *)
Modes == {"owner", "others", "nobody"}

IsNode(x) ==
    \/ x = Dir
    \/ x.kind = "link" /\ DOMAIN x = {"kind", "target"}
    \/ x.kind = "file" /\ DOMAIN x = {"kind", "data", "mode"} /\ x.mode \in Modes

Parent(p) == SubSeq(p, 1, Len(p) - 1)
Name(p)   == p[Len(p)]
IsDirectory(d) ==
    /\ DOMAIN d \subseteq Seq(Names)
    /\ <<>> \in DOMAIN d /\ d[<<>>] = Dir
    /\ \A p \in DOMAIN d : IsNode(d[p]) /\ (p # <<>> => Parent(p) \in DOMAIN d /\ d[Parent(p)] = Dir)
IsDeepest(d, p) == \A q \in DOMAIN d : Len(q) <= Len(p)

ASSUME DirectoriesAssumption ==
    \A d \in Directories : IsDirectory(d) /\ \E p \in DOMAIN d : IsDeepest(d, p)

Dirs(d) == {p \in DOMAIN d : d[p] = Dir}

-----------------------------------------------------------------------------
(* build_directory: the message of a directory, bottom-up.  `message` is   *)
(* what the recursive calls have returned for the directories below.       *)

FileNode(x) == [kind |-> "file", digest |-> x.data, exec |-> x.mode = "owner"]

NamesIn(d, p) == {n \in Names : Append(p, n) \in DOMAIN d}
NodeOf(d, p, message) ==
    IF d[p] = Dir THEN [kind |-> "dir", digest |-> message[p]]
    ELSE IF d[p].kind = "file" THEN FileNode(d[p])
    ELSE d[p]
MessageOf(d, p, message) == [n \in NamesIn(d, p) |-> NodeOf(d, Append(p, n), message)]
Message(d, p) ==
    LET message[q \in Dirs(d)] == MessageOf(d, q, message) IN message[p]

Root(d)        == Message(d, <<>>)
Descendants(d) == {Message(d, p) : p \in Dirs(d) \ {<<>>}}
Files(d)       == {d[p].data : p \in {q \in DOMAIN d : d[q].kind = "file"}}

DirBlob(m)      == <<"directory", m>>
TreeBlob(m, ds) == <<"tree", m, ds>>
DataBlob(c)     == <<"data", c>>

(* What upload_directory sends.  (Mutation: the descendants only travel    *)
(* within the Tree.)                                                       *)
BlobsOfTree(d) == {TreeBlob(Root(d), Descendants(d)), DirBlob(Root(d))}
                  \cup {DataBlob(c) : c \in Files(d)}
Blobs(d) == {TreeBlob(Root(d), Descendants(d)), DirBlob(Root(d))}
            \cup {DirBlob(m) : m \in Descendants(d)}
            \cup {DataBlob(c) : c \in Files(d)}

-----------------------------------------------------------------------------
VARIABLES
    source,    \* the directory uploaded
    cas,
    missing,   \* the answer of FindMissingBlobs
    pc,
    by,        \* which digest the download starts from
    frontier,  \* directories of the next level: their paths and digests
    targets,   \* files to be written
    out        \* the directory rebuilt so far
vars == <<source, cas, missing, pc, by, frontier, targets, out>>

Init ==
    /\ source \in Directories /\ by \in {"root", "tree"}
    /\ cas \in {{}, {DataBlob(c) : c \in Files(source)}}
    /\ missing = {} /\ pc = "upload"
    /\ frontier = {} /\ targets = {} /\ out = [p \in {} |-> Dir]

FindMissing ==
    /\ pc = "upload"
    /\ missing' = Blobs(source) \ cas /\ pc' = "push"
    /\ UNCHANGED <<source, cas, by, frontier, targets, out>>

Push ==
    /\ pc = "push"
    /\ cas' = cas \cup missing /\ pc' = "fetch"
    /\ frontier' = {<<<<>>, Root(source)>>}
    /\ UNCHANGED <<source, missing, by, targets, out>>

PushPartly ==
    /\ pc = "push"
    /\ \E some \in SUBSET missing : some # missing /\ cas' = cas \cup some
    /\ pc' = "upload failed"
    /\ UNCHANGED <<source, missing, by, frontier, targets, out>>

(* What one directory message adds to the output and to the next level.    *)
(* (Mutation: a directory is only made for what it holds.)                 *)
Below(p, m, kind)  == {Append(p, n) : n \in {k \in DOMAIN m : m[k].kind = kind}}
LinksAt(p, m)      == [q \in Below(p, m, "link") |-> m[Name(q)]]
TargetsAt(p, m)    == {<<q, m[Name(q)].digest, m[Name(q)].exec>> : q \in Below(p, m, "file")}
DirsAt(p, m)       == {<<q, m[Name(q)].digest>> : q \in Below(p, m, "dir")}
Over(f, g)         == [x \in DOMAIN f \cup DOMAIN g |-> IF x \in DOMAIN g THEN g[x] ELSE f[x]]
WithLinksOnly(level, o) ==
    LET links == UNION {Below(e[1], e[2], "link") : e \in level}
        at(q) == (CHOOSE e \in level : e[1] = Parent(q))[2][Name(q)]
    IN  Over(o, [q \in links |-> at(q)])
WithLevel(level, o) ==
    LET links == UNION {Below(e[1], e[2], "link") : e \in level}
        at(q) == (CHOOSE e \in level : e[1] = Parent(q))[2][Name(q)]
    IN  Over(o, Over([p \in {e[1] : e \in level} |-> Dir], [q \in links |-> at(q)]))

(* One turn of the loop of download_from_root: a whole level.              *)
FetchLevel ==
    /\ pc = "fetch" /\ by = "root" /\ frontier # {}
    /\ \A e \in frontier : DirBlob(e[2]) \in cas
    /\ out' = WithLevel(frontier, out)
    /\ frontier' = UNION {DirsAt(e[1], e[2]) : e \in frontier}
    /\ targets' = targets \cup UNION {TargetsAt(e[1], e[2]) : e \in frontier}
    /\ UNCHANGED <<source, cas, missing, pc, by>>

(* materialize: the tree below the root, every child looked up among the   *)
(* Tree's children.  It goes depth first; nothing is awaited meanwhile, so *)
(* the order does not show, and here it goes level by level.               *)
Depth(d) == Len(CHOOSE p \in DOMAIN d : IsDeepest(d, p))
Reached(d) ==
    LET children == Descendants(d)
        level[n \in 0 .. Depth(d)] ==
          IF n = 0 THEN {<<<<>>, Root(d)>>}
          ELSE {c \in UNION {DirsAt(e[1], e[2]) : e \in level[n - 1]} : c[2] \in children}
    IN UNION {level[n] : n \in 0 .. Depth(d)}

FetchTree ==
    /\ pc = "fetch" /\ by = "tree" /\ frontier # {}
    /\ LET all == Reached(source) IN
       /\ TreeBlob(Root(source), Descendants(source)) \in cas
       /\ \A e \in all : \A c \in DirsAt(e[1], e[2]) : c[2] \in Descendants(source)
       /\ out' = WithLevel(all, out)
       /\ targets' = UNION {TargetsAt(e[1], e[2]) : e \in all}
    /\ frontier' = {}
    /\ UNCHANGED <<source, cas, missing, pc, by>>

(* What the download needs next from the CAS.                              *)
Wanted == IF frontier = {} THEN {DataBlob(t[2]) : t \in targets}
          ELSE IF by = "root" THEN {DirBlob(e[2]) : e \in frontier}
          ELSE {TreeBlob(Root(source), Descendants(source))}

BlobGone ==
    /\ pc = "fetch" /\ ~(Wanted \subseteq cas)
    /\ pc' = "download failed" /\ missing' = Wanted \ cas
    /\ UNCHANGED <<source, cas, by, frontier, targets, out>>

(* 0o755 or 0o644.  (Mutation: the mode is left to the umask.)             *)
RestoredPlain(t) == [kind |-> "file", data |-> t[2], mode |-> "nobody"]
Restored(t) == [kind |-> "file", data |-> t[2], mode |-> IF t[3] THEN "owner" ELSE "nobody"]

WriteFiles ==
    /\ pc = "fetch" /\ frontier = {} /\ Wanted \subseteq cas
    /\ out' = Over(out, [q \in {t[1] : t \in targets} |->
                           Restored(CHOOSE t \in targets : t[1] = q)])
    /\ pc' = "done"
    /\ UNCHANGED <<source, cas, missing, by, frontier, targets>>

(* External: the CAS drops a blob.                                         *)
Evict ==
    /\ pc \in {"push", "fetch"}
    /\ \E b \in cas \cap Evictable : cas' = cas \ {b}
    /\ UNCHANGED <<source, missing, pc, by, frontier, targets, out>>

Next == FindMissing \/ Push \/ PushPartly \/ FetchLevel \/ FetchTree \/ BlobGone
        \/ WriteFiles \/ Evict

Spec == Init /\ [][Next]_vars

-----------------------------------------------------------------------------
(* Every variable keeps its type; what is rebuilt is always a directory.   *)
TypeOK ==
    /\ source \in Directories /\ by \in {"root", "tree"}
    /\ pc \in {"upload", "push", "fetch", "done", "upload failed", "download failed"}
    /\ out = [p \in {} |-> Dir] \/ IsDirectory(out)
    /\ \A t \in targets : t[3] \in BOOLEAN

(* A download that ends well leaves the directory that was uploaded:       *)
(* uploading it again would give the same digest.  Equal directories in    *)
(* two places, empty ones, links and executable files included.            *)
RoundTrip == pc = "done" => Root(out) = Root(source) /\ DOMAIN out = DOMAIN source

(* A download only fails for a blob that the CAS has dropped by itself.    *)
FailsOnlyIfForgotten == pc = "download failed" => missing \subseteq Evictable
=============================================================================
