------------------------------ MODULE LocalInput ------------------------------
(***************************************************************************)
(* What stands before and after PathTrie when the paths come from a file   *)
(* system: build_filtered_directory (src/cmd/re_memoize/src/tree.rs), which *)
(* resolves each --filter and reads what it names, and `re-dispatch        *)
(* serialize` (src/cmd/re_dispatch/src/serialize.rs), which walks a        *)
(* directory and lets no symbolic link out of it.  The file system stays   *)
(* as it is meanwhile, as both ask for.                                    *)
(*                                                                         *)
(* A tree is a function from paths below its root to nodes, which is what  *)
(* the digest of a Directory tells apart.                                  *)
(***************************************************************************)
EXTENDS PathTrie, FileSystem

CONSTANTS
    Digests,     \* calls of digest: [fs, cwd, root, filters]
    Walks        \* calls of serialize: [fs, root]

(* --root of serialize was resolved and is a directory; the directory that *)
(* digest runs in is one.                                                  *)
Typed == Seq(Names \cup {".", ".."})
ASSUME CallsAssumption ==
    /\ {".", ".."} \subseteq Odd
    /\ \A c \in Digests :
         /\ IsFileSystem(c.fs, Names) /\ c.cwd \in DOMAIN c.fs /\ c.fs[c.cwd] = Dir
         /\ c.root \in Typed /\ c.filters \in Seq(Typed)
    /\ \A c \in Walks :
         IsFileSystem(c.fs, Names) /\ c.root \in DOMAIN c.fs /\ c.fs[c.root] = Dir

VARIABLE call    \* the call, when the list comes from a file system
None == [fs |-> <<>>, root |-> Gone]

vars == <<trieVars, call>>

-----------------------------------------------------------------------------
(* Trees of the two tools, which take a file for executable if its owner,  *)
(* or if anyone, may execute it.                                           *)
ExecutableForOwner  == {m \in Modes : "owner" \in m}
ExecutableForAnyone == Modes \ {{}}

TreeNode(node, executable) ==
    CASE node.kind = "file" -> [kind |-> "file", content |-> node.content,
                                executable |-> node.modes \in executable]
      [] OTHER -> node

(* build_directory: everything below a directory, links as they are.  What *)
(* is neither directory nor link is read like a file; of a pipe or a       *)
(* socket that fails, or waits for good, so that no tree is made of it.    *)
Readable(tree) == \A p \in DOMAIN tree : tree[p] # Other
DirectoryAt(fs, at) ==
    [p \in {RelativeTo(q, at) : q \in Below(fs, at)} |->
        TreeNode(fs[at \o p], ExecutableForOwner)]

-----------------------------------------------------------------------------
(* digest --filter.                                                        *)
(* What a filter is, by symlink_metadata; a link only if the filter does   *)
(* not end in a slash.                                                     *)
FilterNode(c, filter) == NoFollow(c.fs, c.cwd, filter)
LeafKind(node) == CASE node.kind = "dir" -> "tree" [] node.kind = "link" -> "link"
                    [] OTHER -> "file"

(* Where it lands: its name in its parent directory, which is resolved.    *)
(* (Mutation: the name is resolved too.)                                   *)
LandsResolved(c, filter) == Canonicalize(c.fs, c.cwd, filter)
Lands(c, filter) ==
    LET names  == {n \in DOMAIN filter : filter[n] # "."}
        last   == CHOOSE n \in names : \A m \in names : m <= n
        parent == Canonicalize(c.fs, c.cwd, SubSeq(filter, 1, last - 1))
    IN IF names = {} \/ filter[last] = ".." \/ parent = Gone THEN Gone
       ELSE Append(parent, filter[last])

(* The list that insert_filter goes through; an entry without components   *)
(* stands for a filter that names nothing, or nothing inside the root.     *)
(* (Mutation: whatever it names, it is inserted.)                          *)
FilterEntry(c, filter) ==
    LET at   == Lands(c, filter)
        root == Canonicalize(c.fs, c.cwd, c.root)
    IN IF FilterNode(c, filter) # Gone /\ at # Gone /\ Under(at, root)
       THEN [path |-> RelativeTo(at, root), kind |-> LeafKind(c.fs[FilterNode(c, filter)])]
       ELSE [path |-> <<>>, kind |-> "file"]
FilterEntries(c) == [n \in DOMAIN c.filters |-> FilterEntry(c, c.filters[n])]

(* build_group: a leaf is read through the filter as it was typed.         *)
FilteredAt(c, p) ==
    LET on(n) == Under(p, given[n].path)
    IN IF \E n \in DOMAIN given : on(n)
       THEN LET n  == CHOOSE n \in DOMAIN given : on(n)
                at == FilterNode(c, c.filters[n])
            IN TreeNode(c.fs[at \o RelativeTo(p, given[n].path)], ExecutableForOwner)
       ELSE Dir

FilteredPaths(c) ==
    groups \cup UNION {LET at == FilterNode(c, c.filters[n])
                       IN {given[n].path \o RelativeTo(q, at) : q \in Below(c.fs, at) \cup {at}}
                       : n \in DOMAIN given}

Filtered(c) == [p \in FilteredPaths(c) |-> FilteredAt(c, p)]

-----------------------------------------------------------------------------
(* serialize.                                                              *)

(* The target of a link, if it may stay: relative, with something at its   *)
(* end that lies inside the root.  (Mutation: resolved by its text.)       *)
TextAt(at, name) == IF name = ".." THEN IF at = <<>> THEN at ELSE Front(at)
                    ELSE IF name = "." THEN at ELSE Append(at, name)
ResolvedByText(c, link) ==
    LET target == c.fs[link].target
        at[n \in 0 .. Len(target)] == IF n = 0 THEN Front(link) ELSE TextAt(at[n - 1], target[n])
    IN at[Len(target)]
Resolved(c, link) == Canonicalize(c.fs, Front(link), c.fs[link].target)

WithoutDots(path)   == Selected(path, (Names \cup Odd) \ {"."})
KeptTarget(c, link) == WithoutDots(c.fs[link].target)
MayStay(c, link) ==
    /\ ~c.fs[link].absolute
    /\ Resolved(c, link) # Gone /\ Under(Resolved(c, link), c.root)
    /\ KeptTarget(c, link) # <<>>

(* WalkDir goes depth first, into a directory when it has yielded it.  (It *)
(* takes siblings by name; which comes first decides only which of several *)
(* errors is met.)                                                         *)
WalkOrders(c) ==
    {w \in SetToSeqs(Below(c.fs, c.root)) : \A l, m, n \in DOMAIN w :
       /\ l < m => ~Under(w[l], w[m])
       /\ l < m /\ m < n /\ Under(w[n], w[l]) => Under(w[m], w[l])}

(* An entry without components stands for what run() refuses: a link that  *)
(* may not stay, or neither file, directory nor link.                      *)
WalkEntry(c, at) ==
    LET node == c.fs[at]
        path == RelativeTo(at, c.root)
    IN CASE node.kind = "dir"                     -> [path |-> path, kind |-> "dir"]
         [] node.kind = "file"                    -> [path |-> path, kind |-> "file"]
         [] node.kind = "link" /\ MayStay(c, at)  -> [path |-> path, kind |-> "link"]
         [] OTHER                                 -> [path |-> <<>>, kind |-> "link"]

WalkEntries(c, w) == [n \in DOMAIN w |-> WalkEntry(c, w[n])]

Serialized(c) ==
    [p \in groups \cup Occupied |->
       LET node == c.fs[c.root \o p] IN
       IF node.kind = "link" THEN Link(FALSE, KeptTarget(c, c.root \o p))
                             ELSE TreeNode(node, ExecutableForAnyone)]

-----------------------------------------------------------------------------
LocalInit ==
    \/ Init /\ call = None
    \/ \E c \in Digests : call = c /\ Begin("filter", FilterEntries(c))
    \/ \E c \in Walks   : call = c /\ \E w \in WalkOrders(c) : Begin("serializer", WalkEntries(c, w))

Next == Build /\ UNCHANGED call

LocalSpec == LocalInit /\ [][Next]_vars

-----------------------------------------------------------------------------
Digested == tool = "filter" /\ call # None /\ verdict = "accepted"
Walked   == tool = "serializer" /\ verdict = "accepted"

(* A filter whose last component is a link that it follows all the same,   *)
(* because of a trailing slash.                                            *)
Follows(c, n) ==
    LET at == Lands(c, c.filters[n]) IN c.fs[at].kind = "link" /\ given[n].kind # "link"

(* The filtered tree is the part of the whole tree that was selected: at   *)
(* every position it has what build_directory finds there, directories     *)
(* complete and links kept as links, however the filters were spelled,     *)
(* through whatever links.  The exception is a filter with a slash behind  *)
(* a link.  (tree.rs:196-199, :215-221, :296-299.)                         *)
FiltersSelect ==
    Digested /\ (\A n \in DOMAIN given : ~Follows(call, n)) /\ Readable(Filtered(call)) =>
      LET whole == DirectoryAt(call.fs, Canonicalize(call.fs, call.cwd, call.root))
          tree  == Filtered(call)
          selected == {p \in DOMAIN whole : \E n \in DOMAIN given :
                         Under(p, given[n].path) \/ Under(given[n].path, p)}
      IN tree = [p \in selected |-> whole[p]]

(* A target that leaves the root on its way, be it to come back into it,   *)
(* which validate_symlink_target does not see.                             *)
Leaves(c, link) ==
    LET way == Lookup(c.fs, Front(link), c.fs[link].target)
    IN \E n \in DOMAIN way : ~Under(way[n].at, c.root)

(* The serialized tree where a worker puts it: in a directory of its own.  *)
Elsewhere == <<"worker", "build">>
Materialized(tree) ==
    [p \in {<<>>, <<"worker">>, Elsewhere} \cup {Elsewhere \o q : q \in DOMAIN tree} |->
       IF Under(p, Elsewhere) /\ p # Elsewhere THEN tree[RelativeTo(p, Elsewhere)] ELSE Dir]

(* A serialized tree is hermetic: put anywhere else, each of its links     *)
(* leads to the same place inside the tree as in the original, unless it   *)
(* leaves the root and comes back by the root's name.  (Nothing leaves "/".)*)
SerializedIsHermetic ==
    Walked /\ call.root # <<>> =>
      LET tree  == Serialized(call)
          links == {p \in DOMAIN tree : tree[p].kind = "link"}
      IN \A p \in links :
           \/ Leaves(call, call.root \o p)
           \/ Canonicalize(Materialized(tree), Elsewhere \o Front(p), tree[p].target)
                = Elsewhere \o RelativeTo(Resolved(call, call.root \o p), call.root)

(* The two tools agree: a directory whose files are executable for their   *)
(* owner or for nobody, and whose links have no "." in them, has the same  *)
(* tree, and so the same root digest, in both.                             *)
ToolsAgree ==
    Walked =>
      LET whole == DirectoryAt(call.fs, call.root)
          plain(node) == CASE node.kind = "file" -> node.modes # {"others"}
                           [] node.kind = "link" -> \A n \in DOMAIN node.target : node.target[n] # "."
                           [] OTHER -> TRUE
      IN (\A p \in DOMAIN whole : plain(call.fs[call.root \o p])) => Serialized(call) = whole
=============================================================================
