------------------------------ MODULE TreeTest ------------------------------
(***************************************************************************)
(* The directory-tree tests of src/test-snfs run against the server:       *)
(* tfunc_tree_mkdir creates, in pre-order, the first max_dirs directories  *)
(* of the tree of the given degree and depth (16filesystem02), and          *)
(* tfunc_tree_inspect lists every directory of it and checks the names it  *)
(* must hold; when the tree takes every inode, one more my_mkdir("/z")     *)
(* must fail (19filesystem05).  The tree's shape is chosen in the initial  *)
(* state, among all the small ones.                                        *)
(*                                                                         *)
(* A path is the sequence of its components; the component tfunc names    *)
(* "%c%d" from depth and i is <<depth, i>> (the letter is 'a'+depth-1 for *)
(* depths below 26).  The myfs library (myfs.h, body not in the           *)
(* repository) is taken to resolve the directory of a call by a lookup of *)
(* its path, except the root, which it knows as inode 1: my_mkdir(path)   *)
(* is that resolution of the parent and a mkdir in it, my_listdir(path)   *)
(* that resolution and a readdir.                                         *)
(***************************************************************************)
EXTENDS FSLookup

CONSTANTS
    LAST,          \* the name "z"
    DEGREES,       \* the degrees a test may ask for
    DEPTHS,        \* the depths a test may ask for
    DIR_COUNTS     \* the max_dirs a test may ask for

ASSUME LAST \in Names /\ DEGREES \cup DEPTHS \cup DIR_COUNTS \subseteq Nat

\* the name snprintf gives the i-th subdirectory at depth max_depth
DirName(max_depth, i) == <<max_depth, i>>

AsPath(s) == [abs |-> TRUE, comps |-> s]

VARIABLES
    degree, depth, dirs,  \* the test's arguments
    pc,                   \* the step the test is at
    k,                    \* the index of the current my_mkdir or my_listdir
    dirid                 \* the directory id the current call resolved

tvars == <<degree, depth, dirs, pc, k, dirid>>
allvars == <<vars, tvars>>

(***************************************************************************)
(* tfunc_tree_traverse: the paths func is called on, in order, and the    *)
(* max_dirs it returns.  TraverseFrom is its for loop from i on.          *)
(***************************************************************************)
RECURSIVE Traverse(_, _, _), TraverseFrom(_, _, _, _)

\* mutant: the loop stops only once max_dirs is negative
TraverseFrom_neg(path, i, max_depth, max_dirs) ==
    IF i > degree THEN [calls |-> <<>>, left |-> max_dirs]
    ELSE IF max_dirs < 0 THEN [calls |-> <<>>, left |-> 0]
    ELSE LET d == Append(path, DirName(max_depth, i))
             sub == Traverse(d, max_depth - 1, max_dirs - 1)
             rest == TraverseFrom(path, i + 1, max_depth, sub.left)
         IN [calls |-> <<d>> \o sub.calls \o rest.calls, left |-> rest.left]

TraverseFrom(path, i, max_depth, max_dirs) ==
    IF i > degree THEN [calls |-> <<>>, left |-> max_dirs]
    ELSE IF max_dirs = 0 THEN [calls |-> <<>>, left |-> 0]
    ELSE LET d == Append(path, DirName(max_depth, i))
             sub == Traverse(d, max_depth - 1, max_dirs - 1)
             rest == TraverseFrom(path, i + 1, max_depth, sub.left)
         IN [calls |-> <<d>> \o sub.calls \o rest.calls, left |-> rest.left]

Traverse(path, max_depth, max_dirs) ==
    IF max_depth > 0 THEN TraverseFrom(path, 1, max_depth, max_dirs)
    ELSE [calls |-> <<>>, left |-> max_dirs]

(***************************************************************************)
(* tfunc_tree_inspect_r: the listings it makes, each with the names it    *)
(* then looks for in the list, and the max_dirs it returns.  Every name   *)
(* is checked against the one list fetched for the directory, so checking *)
(* them with the listing is the same test.                                *)
(***************************************************************************)
RECURSIVE Inspect(_, _, _), InspectFrom(_, _, _, _)

InspectFrom(path, i, max_depth, max_dirs) ==
    IF i > degree THEN [names |-> {}, lists |-> <<>>, left |-> max_dirs]
    ELSE IF max_dirs = 0 THEN [names |-> {}, lists |-> <<>>, left |-> 0]
    ELSE LET n == DirName(max_depth, i)
             sub == Inspect(Append(path, n), max_depth - 1, max_dirs - 1)
             rest == InspectFrom(path, i + 1, max_depth, sub.left)
         IN [names |-> {n} \cup rest.names, lists |-> sub.lists \o rest.lists,
             left |-> rest.left]

Inspect(path, max_depth, max_dirs) ==
    IF max_depth > 0
    THEN LET r == InspectFrom(path, 1, max_depth, max_dirs)
         IN [lists |-> <<[path |-> path, names |-> r.names]>> \o r.lists,
             left |-> r.left]
    ELSE [lists |-> <<>>, left |-> max_dirs]

Mkdirs == Traverse(<<>>, depth, dirs).calls
Lists == Inspect(<<>>, depth, dirs).lists

\* 19filesystem05's last step: the tree took every inode but 0 and the root
FillsTable == Len(Mkdirs) = ITAB_SIZE - 2

\* the directory of a call: the root is inode 1, any other path is looked up
Resolve(path, next) ==
    IF path = <<>>
    THEN pc' = next /\ dirid' = 1
    ELSE \E r \in snfs_lookup(AsPath(path)) :
            IF r.status = "ok" THEN pc' = next /\ dirid' = r.file
            ELSE pc' = "failed" /\ UNCHANGED dirid

(***************************************************************************)
(* tfunc_tree_mkdir: my_mkdir on each path in turn; tfunc_dir_make exits   *)
(* the test when one fails.                                               *)
(***************************************************************************)
MkdirResolve ==
    /\ pc = "mkdir_resolve"
    /\ IF k > Len(Mkdirs)
       THEN pc' = "list_resolve" /\ k' = 1 /\ UNCHANGED dirid
       ELSE Resolve(Front(Mkdirs[k]), "mkdir") /\ UNCHANGED k
    /\ UNCHANGED <<vars, degree, depth, dirs>>

Mkdir ==
    LET name == Last(Mkdirs[k])
    IN /\ pc = "mkdir"
       /\ \/ fs_mkdir(dirid, name) /\ pc' = "mkdir_resolve" /\ k' = k + 1
          \/ ~AddEntryOK(dirid, name) /\ pc' = "failed" /\ UNCHANGED <<vars, k>>
       /\ UNCHANGED <<degree, depth, dirs, dirid>>

(***************************************************************************)
(* tfunc_tree_inspect: my_listdir on each directory of the tree; a failed *)
(* listing, more entries than the degree or a name missing exits it.      *)
(***************************************************************************)
ListResolve ==
    /\ pc = "list_resolve"
    /\ IF k > Len(Lists)
       THEN /\ pc' = IF FillsTable THEN "last_mkdir" ELSE "passed"
            /\ UNCHANGED <<k, dirid>>
       ELSE Resolve(Lists[k].path, "list_read") /\ UNCHANGED k
    /\ UNCHANGED <<vars, degree, depth, dirs>>

ListRead ==
    LET r == fs_readdir(dirid, CAPACITY)
    IN /\ pc = "list_read"
       /\ IF r.ret # 0 \/ Len(r.entries) > degree
             \/ ~(Lists[k].names \subseteq Listed(dirid))
          THEN pc' = "failed" /\ UNCHANGED k
          ELSE pc' = "list_resolve" /\ k' = k + 1
       /\ UNCHANGED <<vars, degree, depth, dirs, dirid>>

\* my_mkdir("/z") once the table is full: succeeding fails the test
LastMkdir ==
    /\ pc = "last_mkdir"
    /\ IF AddEntryOK(1, LAST) THEN fs_mkdir(1, LAST) /\ pc' = "failed"
       ELSE pc' = "passed" /\ UNCHANGED vars
    /\ UNCHANGED <<degree, depth, dirs, k, dirid>>

TreeInit ==
    /\ Init
    /\ degree \in DEGREES /\ depth \in DEPTHS /\ dirs \in DIR_COUNTS
    /\ pc = "mkdir_resolve" /\ k = 1 /\ dirid = 1

TreeNext == MkdirResolve \/ Mkdir \/ ListResolve \/ ListRead \/ LastMkdir

\* one test process, which runs until it exits
TreeSpec == TreeInit /\ [][TreeNext]_allvars /\ WF_allvars(TreeNext)

-----------------------------------------------------------------------------
(***************************************************************************)
(* tfunc_tree_traverse calls func on the first max_dirs directories of    *)
(* the tree in pre-order: the directories are the paths of 1..depth        *)
(* components whose j-th component is named for depth-j+1, ordered by     *)
(* their index sequences (a parent before its children, child i before    *)
(* child i+1), and the calls are the first max_dirs of them in that order. *)
(***************************************************************************)
Indexes(s) == [j \in DOMAIN s |-> s[j][2]]

RECURSIVE LexBefore(_, _)
LexBefore(s, t) ==
    /\ t # <<>>
    /\ \/ s = <<>>
       \/ Head(s) < Head(t)
       \/ Head(s) = Head(t) /\ LexBefore(Tail(s), Tail(t))

TreeDirs ==
    UNION {{[j \in 1 .. n |-> DirName(depth - j + 1, ix[j])] : ix \in [1 .. n -> 1 .. degree]}
           : n \in 1 .. depth}

TraversePreorder ==
    LET pre == {p \in TreeDirs :
                  Cardinality({q \in TreeDirs : LexBefore(Indexes(q), Indexes(p))}) < dirs}
    IN /\ ToSet(Mkdirs) = pre
       /\ \A i, j \in DOMAIN Mkdirs :
             i < j => LexBefore(Indexes(Mkdirs[i]), Indexes(Mkdirs[j]))

(***************************************************************************)
(* The tree tests pass exactly when the tree fits the inode table: every  *)
(* mkdir through a looked-up parent, every listing and, for a full table, *)
(* the refused mkdir of /z agree with what tfunc_tree_traverse asked for, *)
(* and a tree with more directories than free inodes ends the test failed.*)
(***************************************************************************)
TreeTestVerdict ==
    <>(pc = IF Len(Mkdirs) <= ITAB_SIZE - 2 THEN "passed" ELSE "failed")

=============================================================================
