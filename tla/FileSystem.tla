----------------------------- MODULE FileSystem ----------------------------
(***************************************************************************)
(* src/filesystem.c, as built for Linux: the directory walk, an iterator   *)
(* with a queue of directories and one open directory stream, and the      *)
(* functions that change the tree between two steps of a walk.             *)
(*                                                                         *)
(* A path is the sequence of its names below the directory that is walked. *)
(* The tree itself, the streams and the calls of the system are external.  *)
(***************************************************************************)
EXTENDS Integers, Sequences

CONSTANTS
    FileNames,      \* names of files and directories
    Depth,          \* bound: length of a path
    Trees,          \* trees a walk begins with
    WalkModes,      \* sets of "dirs", "files", "recursive"
    MaxChanges      \* bound: changes of the tree

Root == <<>>
Paths == UNION {[1 .. n -> FileNames] : n \in 1 .. Depth}

Parent(p) == SubSeq(p, 1, Len(p) - 1)

\* A tree: what is not in the directory itself is in a directory of the tree.
IsTree(t) ==
    /\ DOMAIN t \subseteq Paths
    /\ \A p \in DOMAIN t :
          /\ t[p] \in {"dir", "file", "other"}
          /\ Len(p) > 1 => Parent(p) \in DOMAIN t /\ t[Parent(p)] = "dir"

ASSUME FsAssumption ==
    /\ Depth \in Nat /\ MaxChanges \in Nat
    /\ \A t \in Trees : IsTree(t)

VARIABLES
    tree,       \* the paths that exist, with their kinds
    walk,       \* the FSWalkIterator and the call of fs_walk in progress
    changes     \* how often the tree was changed

fsVars == <<tree, walk, changes>>

IsDirectory(p) == p = Root \/ (p \in DOMAIN tree /\ tree[p] = "dir")
Children(p) == {q \in DOMAIN tree : Parent(q) = p}
Below(p, q) == Len(p) >= Len(q) /\ SubSeq(p, 1, Len(q)) = q

\* What readdir may give: the entries of the directory, and its dots.
Dot == <<<<".">>, "dot">>
Stream(p) == {<<q, tree[q]>> : q \in Children(p)} \cup {Dot}

Closed == [path |-> Root, open |-> FALSE, rest |-> {}]

NoWalk == [stage |-> "none", first |-> TRUE, queue |-> <<>>, dir |-> Closed,
           mode |-> {}, entry |-> Dot, yielded |-> <<>>, exact |-> TRUE]

FsInit == tree \in Trees /\ walk = NoWalk /\ changes = 0

(***************************************************************************)
(* Changing the tree.                                                      *)
(***************************************************************************)

\* fs_path_exists; and fs_is_dir and fs_is_file, whose tests are exchanged:
\* the first is true of files, the second of directories.
PathExists(p) == p \in DOMAIN tree /\ tree[p] \in {"dir", "file"}
FsIsDir(p) == PathExists(p) /\ tree[p] = "file"
FsIsFile(p) == PathExists(p) /\ tree[p] = "dir"

Changed(new) ==
    /\ changes < MaxChanges /\ changes' = changes + 1
    /\ tree' = new
    /\ walk' = [walk EXCEPT !.exact = @ /\ walk.stage = "none"]

\* fs_makedirs makes one directory.
FsMakedirs(p) ==
    /\ ~PathExists(p)
    /\ p \notin DOMAIN tree /\ IsDirectory(Parent(p))
    /\ Changed([q \in DOMAIN tree \cup {p} |-> IF q = p THEN "dir" ELSE tree[q]])

\* fs_remove: nftw for what fs_is_dir takes for a directory, remove for the
\* rest, which takes a directory only when it is empty.
FsRemove(p) ==
    /\ p \in DOMAIN tree
    /\ LET gone == IF FsIsDir(p) THEN {q \in DOMAIN tree : Below(q, p)}
                   ELSE IF Children(p) = {} THEN {p} ELSE {}
       IN  gone # {} /\ Changed([q \in DOMAIN tree \ gone |-> tree[q]])

\* fs_move: rename.
FsMove(p, q) ==
    LET To(r) == q \o SubSeq(r, Len(p) + 1, Len(r))
        moved == {r \in DOMAIN tree : Below(r, p)}
        kept == {r \in DOMAIN tree : ~Below(r, p) /\ r # q}
    IN  /\ p \in DOMAIN tree /\ IsDirectory(Parent(q)) /\ ~Below(q, p)
        /\ q \in DOMAIN tree =>
              Children(q) = {} /\ (tree[p] = "dir") = (tree[q] = "dir")
        /\ {To(r) : r \in moved} \subseteq Paths
        /\ Changed([r \in kept \cup {To(s) : s \in moved} |->
              IF r \in kept THEN tree[r]
              ELSE tree[CHOOSE s \in moved : To(s) = r]])

(***************************************************************************)
(* The walk.                                                               *)
(***************************************************************************)

\* fs_walk_iterator_new
WalkNew ==
    /\ walk.stage = "none"
    /\ walk' = [NoWalk EXCEPT !.stage = "idle"]
    /\ UNCHANGED <<tree, changes>>

\* fs_walk is called; the first call puts the path into the queue.
WalkCall(mode) ==
    /\ walk.stage = "idle"
    /\ walk.first \/ walk.mode = mode
    /\ walk' = [walk EXCEPT !.stage = "seek", !.first = FALSE, !.mode = mode,
                   !.queue = IF walk.first THEN Append(@, Root) ELSE @]
    /\ UNCHANGED <<tree, changes>>

\* The first loop, without a stream: the next directory of the queue.  One
\* that cannot be opened ends the call, and its path is lost.  A stream that
\* was just opened has an entry.
WalkOpen ==
    LET p == Head(walk.queue)
        popped == [walk EXCEPT !.queue = Tail(@)]
    IN  /\ walk.stage = "seek" /\ ~walk.dir.open
        /\ IF walk.queue = <<>> THEN walk' = [walk EXCEPT !.stage = "ended"]
           ELSE IF ~IsDirectory(p)
           THEN walk' = [popped EXCEPT !.stage = "idle"]
           ELSE \E e \in Stream(p) :
                  walk' = [popped EXCEPT !.stage = "entry", !.entry = e,
                      !.dir = [path |-> p, open |-> TRUE, rest |-> Stream(p) \ {e}]]
        /\ UNCHANGED <<tree, changes>>

\* The first loop, with a stream.
WalkRead ==
    /\ walk.stage = "seek" /\ walk.dir.open
    /\ \/ walk.dir.rest = {} /\ walk' = [walk EXCEPT !.dir = Closed]
       \/ \E e \in walk.dir.rest :
            walk' = [walk EXCEPT !.stage = "entry", !.entry = e, !.dir.rest = @ \ {e}]
    /\ UNCHANGED <<tree, changes>>

\* readdir fails: what is left of the directory is lost.
WalkError ==
    /\ walk.stage = "seek" /\ walk.dir.open /\ walk.dir.rest # {}
    /\ walk' = [walk EXCEPT !.stage = "idle", !.dir = Closed, !.exact = FALSE]
    /\ UNCHANGED <<tree, changes>>

\* walk_should_skip_entry
ShouldSkip(mode, kind) ==
    CASE kind = "file" -> "files" \notin mode
      [] kind = "dir" -> "dirs" \notin mode
      [] OTHER -> TRUE

\* The second loop passes over an entry; behind the last one the call
\* returns false, whatever is left in the queue.
WalkSkip ==
    /\ walk.stage = "entry" /\ ShouldSkip(walk.mode, walk.entry[2])
    /\ \/ walk.dir.rest = {} /\ walk' = [walk EXCEPT !.stage = "idle"]
       \/ \E e \in walk.dir.rest :
            walk' = [walk EXCEPT !.entry = e, !.dir.rest = @ \ {e}]
    /\ UNCHANGED <<tree, changes>>

\* Mutant: a directory is returned and not queued.
WalkYieldFlat ==
    LET p == Append(walk.dir.path, walk.entry[1][Len(walk.entry[1])])
    IN  /\ walk.stage = "entry" /\ ~ShouldSkip(walk.mode, walk.entry[2])
        /\ walk' = [walk EXCEPT !.stage = "idle", !.yielded = Append(@, p)]
        /\ UNCHANGED <<tree, changes>>

\* The second loop returns an entry, and queues it when it is a directory.
\* The path is made of the directory's path and the name of the entry.
WalkYield ==
    LET p == Append(walk.dir.path, walk.entry[1][Len(walk.entry[1])])
    IN  /\ walk.stage = "entry" /\ ~ShouldSkip(walk.mode, walk.entry[2])
        /\ walk' = [walk EXCEPT !.stage = "idle", !.yielded = Append(@, p),
                       !.queue = IF walk.entry[2] = "dir" /\ "recursive" \in walk.mode
                                 THEN Append(@, p) ELSE @]
        /\ UNCHANGED <<tree, changes>>

\* fs_walk_iterator_free, at any time between two calls.
WalkFree ==
    /\ walk.stage \in {"idle", "ended"}
    /\ walk' = [NoWalk EXCEPT !.stage = "freed"]
    /\ UNCHANGED <<tree, changes>>

FsNext ==
    \/ \E p \in Paths : FsMakedirs(p) \/ FsRemove(p)
    \/ \E p, q \in Paths : FsMove(p, q)
    \/ WalkNew
    \/ \E mode \in WalkModes : WalkCall(mode)
    \/ WalkOpen \/ WalkRead \/ WalkError \/ WalkSkip \/ WalkYield
    \/ WalkFree

FsSpec == FsInit /\ [][FsNext]_fsVars

(***************************************************************************)
(* Properties.                                                             *)
(***************************************************************************)

\* The entries a walk of a mode is after: those of the directory, and below
\* the ones that are returned, as only these are queued.
Wanted(mode) ==
    {p \in DOMAIN tree :
        /\ ~ShouldSkip(mode, tree[p])
        /\ Len(p) = 1 \/ {"recursive", "dirs"} \subseteq mode}

\* fs_walk never returns an entry twice, whatever happens to the tree between
\* two steps; and for a caller that goes on until the queue and the stream
\* are empty (a call may return false on the way), over a tree that nobody
\* changed meanwhile, it returned every wanted entry, in any order of readdir.
WalkComplete ==
    /\ \A i, j \in 1 .. Len(walk.yielded) :
          walk.yielded[i] = walk.yielded[j] => i = j
    /\ walk.stage = "ended" /\ walk.exact =>
          {walk.yielded[i] : i \in 1 .. Len(walk.yielded)} = Wanted(walk.mode)

=============================================================================
