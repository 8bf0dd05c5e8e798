------------------------------- MODULE PathTrie -------------------------------
(***************************************************************************)
(* Three places build a directory by inserting one path after another into *)
(* nested maps: the --filter arguments of `re-memoize digest`              *)
(* (insert_filter, src/cmd/re_memoize/src/tree.rs), the inputs and input   *)
(* trees of a re-dispatch spec (DirectoryComposer,                         *)
(* src/cmd/re_dispatch/src/execute.rs) and the walk of `re-dispatch        *)
(* serialize` (DirectoryBuilder, src/cmd/re_dispatch/src/serialize.rs).    *)
(* All give up at the first path that collides.                            *)
(*                                                                         *)
(* The nested maps are two sets of paths: those with an entry, and the     *)
(* groups, which are there for what lies below them.                       *)
(***************************************************************************)
EXTENDS Naturals, Sequences, ListOps

CONSTANTS
    Names,   \* path components
    Odd,     \* components that a spec may not use: "", "." and ".."
    Dot,     \* the component "."
    Lists    \* what may be given: lists of [path, kind]

ASSUME NamesAssumption == Dot \in Odd /\ Names \cap Odd = {}

Kinds   == {"file", "tree", "link", "dir"}
Entries == [path : Seq(Names \cup Odd), kind : Kinds]
ASSUME ListsAssumption == Lists \subseteq Seq([path : Seq(Names \cup Odd), kind : {"file", "tree"}])

VARIABLES
    tool,     \* which of the three
    given,    \* the list
    todo,     \* what is still to be inserted
    entries,  \* what was inserted
    groups,   \* the paths of the groups
    verdict

trieVars == <<tool, given, todo, entries, groups, verdict>>

(* A composer takes the inputs before the trees; a serializer reads the    *)
(* files when its walk is over.                                            *)
Of(kinds) == {e \in Entries : e.kind \in kinds}
Order(t, list) ==
    LET files  == Selected(list, Of({"file"}))
        others == Selected(list, Of(Kinds \ {"file"}))
    IN  CASE t = "filter"     -> list
          [] t = "composer"   -> files \o others
          [] t = "serializer" -> others \o files

Begin(t, list) ==
    /\ tool = t /\ given = list /\ todo = Order(t, list)
    /\ entries = {} /\ groups = {} /\ verdict = "building"

(* Filters come as positions below --root, without odd components.         *)
IsPositions(list) == \A i \in DOMAIN list : list[i].path \in Seq(Names)

Init == \E list \in Lists :
          Begin("composer", list) \/ (IsPositions(list) /\ Begin("filter", list))

Above(p) == {SubSeq(p, 1, n) : n \in 1 .. Len(p) - 1}
Occupied == {e.path : e \in entries}

(* An input tree at "." is the whole root: it must be alone.               *)
IsRoot(e) == tool = "composer" /\ e = [path |-> <<Dot>>, kind |-> "tree"]
MountsRoot == Len(todo) = 1 /\ entries = {} /\ IsRoot(todo[1])

(* A path must have components, and usable ones.                           *)
Usable(e) == e.path # <<>> /\ \A i \in DOMAIN e.path : e.path[i] \notin Odd

(* An entry on the way down, or anything where the path ends.  A           *)
(* serializer does not look on the way down.  (Mutation: nobody does.)     *)
CollidesIgnoringEntriesAbove(p) == p \in Occupied \/ p \in groups
Collides(p) ==
    \/ tool # "serializer" /\ Above(p) \cap Occupied # {}
    \/ p \in Occupied \/ p \in groups

MountRoot ==
    /\ verdict = "building" /\ MountsRoot
    /\ entries' = {todo[1]} /\ todo' = <<>>
    /\ UNCHANGED <<tool, given, groups, verdict>>

(* (Mutation: only the parent is made a group.)                            *)
GroupsOfParent(p) == IF Len(p) > 1 THEN {SubSeq(p, 1, Len(p) - 1)} ELSE {}
GroupsFor(p) == Above(p)

Insert ==
    /\ verdict = "building" /\ todo # <<>> /\ ~MountsRoot
    /\ Usable(Head(todo)) /\ Head(todo).kind # "dir" /\ ~Collides(Head(todo).path)
    /\ entries' = entries \cup {Head(todo)}
    /\ groups' = groups \cup GroupsFor(Head(todo).path)
    /\ todo' = Tail(todo)
    /\ UNCHANGED <<tool, given, verdict>>

(* ensure_dir.  (Mutation: a directory is only made for what is in it.)    *)
EnsuredNone(p) == {}
Ensured(p) == {p}
EnsureDir ==
    /\ verdict = "building" /\ todo # <<>> /\ Head(todo).kind = "dir"
    /\ groups' = groups \cup Above(Head(todo).path) \cup Ensured(Head(todo).path)
    /\ todo' = Tail(todo)
    /\ UNCHANGED <<tool, given, entries, verdict>>

(* The error drops what was built.                                         *)
Reject ==
    /\ verdict = "building" /\ todo # <<>> /\ ~MountsRoot /\ Head(todo).kind # "dir"
    /\ ~Usable(Head(todo)) \/ Collides(Head(todo).path)
    /\ verdict' = "rejected"
    /\ UNCHANGED <<tool, given, todo, entries, groups>>

Accept ==
    /\ verdict = "building" /\ todo = <<>>
    /\ verdict' = "accepted"
    /\ UNCHANGED <<tool, given, todo, entries, groups>>

Build == MountRoot \/ Insert \/ EnsureDir \/ Reject \/ Accept

Spec == Init /\ [][Build]_trieVars

-----------------------------------------------------------------------------
IsPrefixOf(p, q) == Len(p) <= Len(q) /\ \A i \in DOMAIN p : p[i] = q[i]

(* The position of an entry in the tree: the root, or its path.            *)
Position(e) == IF IsRoot(e) THEN <<>> ELSE e.path

Disjoint(list) ==
    \A i, j \in DOMAIN list :
      i # j => ~IsPrefixOf(Position(list[i]), Position(list[j]))
AllUsable(list) == \A i \in DOMAIN list : IsRoot(list[i]) \/ Usable(list[i])

(* What the tools are given.  Filters and specs name no bare directories.  *)
(* A walk names every path once, and only a directory is above another     *)
(* path; what it refuses has no components.                                *)
IsWalk(list) ==
    /\ \A i \in DOMAIN list : list[i].kind = "dir" => Usable(list[i])
    /\ \A i, j \in DOMAIN list :
         (i # j /\ Usable(list[i]) /\ Usable(list[j])) =>
           /\ list[i].path # list[j].path
           /\ list[i].path \in Above(list[j].path) => list[i].kind = "dir"
Suits(t, list) ==
    /\ t \in {"filter", "composer", "serializer"}
    /\ list \in Seq(Entries)
    /\ IF t = "serializer" THEN IsWalk(list)
                           ELSE \A i \in DOMAIN list : list[i].kind # "dir"

(* A list is accepted exactly when no path lies below, or is, another one, *)
(* in whatever order they are given: no overlap is missed and no list is   *)
(* refused for its order.  A walk, whose paths do lie below each other, is *)
(* never refused for them.  (tree.rs:327-331, execute.rs:336, :348,        *)
(* serialize.rs:149, :178.)                                                *)
AcceptedIffDisjoint ==
    verdict # "building" =>
      (verdict = "accepted" <=> AllUsable(given) /\ (tool = "serializer" \/ Disjoint(given)))

(* No name stands for two things at any time, and the tree that is built   *)
(* holds what was given and the directories above it, and nothing else.    *)
HoldsWhatWasGiven ==
    /\ groups \cap Occupied = {}
    /\ verdict = "accepted" =>
         LET list == {given[i] : i \in DOMAIN given} IN
         /\ entries = {e \in list : e.kind # "dir"}
         /\ groups = (UNION {Above(e.path) : e \in list}) \cup {e.path : e \in list \ entries}
=============================================================================
