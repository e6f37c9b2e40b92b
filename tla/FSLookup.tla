------------------------------ MODULE FSLookup ------------------------------
(***************************************************************************)
(* The read-only side of the SNFS engine and of its handlers, over the    *)
(* state of FS: fs_lookup (the path resolver), fs_get_attrs, fs_readdir   *)
(* and the handlers snfs_lookup and snfs_readdir that call them.  They    *)
(* change no state, so they are operators evaluated in the states of FS.  *)
(*                                                                         *)
(* A path is its leading character and its '/'-separated components: a   *)
(* record [abs, comps] where abs says the string starts with '/' and      *)
(* comps are the components after it, EMPTY standing for an empty one     *)
(* (so "//x" is [abs |-> TRUE, comps |-> <<EMPTY, x>>] and "/" has no     *)
(* components).  An inode id the program never set (a local variable read *)
(* before it is written) is UNSET; the value it holds is any inodeid_t,   *)
(* abstracted to the ids of the table and OUT_OF_RANGE.                   *)
(***************************************************************************)
EXTENDS FS, Sequences

CONSTANTS
    EMPTY,      \* an empty path component
    PATH_LEN    \* the longest component list a path has

ASSUME EMPTY \notin Names /\ PATH_LEN \in Nat

UNSET == -1
OUT_OF_RANGE == ITAB_SIZE

\* the paths with at most PATH_LEN components, absolute or not
Paths == [abs : BOOLEAN,
          comps : UNION {[1 .. k -> Names \cup {EMPTY}] : k \in 0 .. PATH_LEN}]

\* what strtok(line, "/") hands fs_lookup's loop: the non-empty components
Tokens(p) == SelectSeq(p.comps, LAMBDA c : c # EMPTY)

\* not a return value: the call ends the server with exit(-1)
SERVER_EXIT == -2

\* the values an uninitialised inodeid_t can hold
Garbage == Inodes \cup {OUT_OF_RANGE}

\* mutant: the walk searches every token in the root, never descending
RECURSIVE LookupWalk_no_descend(_, _, _)
LookupWalk_no_descend(dir, toks, fileid) ==
    IF toks = <<>> THEN [ret |-> 1, fileid |-> fileid]
    ELSE IF dir \notin inode_bmap \/ inode_tab[dir].type # FS_DIR
         THEN [ret |-> -1, fileid |-> fileid]
    ELSE IF ~fsi_dir_search(dir, Head(toks)) THEN [ret |-> 0, fileid |-> fileid]
    ELSE LookupWalk_no_descend(dir, Tail(toks), DirSearchId(dir, Head(toks)))

(***************************************************************************)
(* fs_lookup's loop from directory dir over the remaining tokens: dir must *)
(* be in use and a directory, a miss returns 0, a hit stores the id in    *)
(* *fileid and descends.  The loop ends with 1 and whatever *fileid holds. *)
(***************************************************************************)
RECURSIVE LookupWalk(_, _, _)
LookupWalk(dir, toks, fileid) ==
    IF toks = <<>> THEN [ret |-> 1, fileid |-> fileid]
    ELSE IF dir \notin inode_bmap \/ inode_tab[dir].type # FS_DIR
         THEN [ret |-> -1, fileid |-> fileid]
    ELSE IF ~fsi_dir_search(dir, Head(toks)) THEN [ret |-> 0, fileid |-> fileid]
    ELSE LookupWalk(DirSearchId(dir, Head(toks)), Tail(toks),
                    DirSearchId(dir, Head(toks)))

\* fs_lookup: a path not starting with '/' is malformed (-1); the walk
\* starts at the root (dir = 1 on the first token) with *fileid untouched
fs_lookup(p) ==
    IF ~p.abs THEN [ret |-> -1, fileid |-> UNSET]
    ELSE LookupWalk(1, Tokens(p), UNSET)

\* fs_get_attrs: -1 for an id out of the table or not in use; an in-use
\* inode of neither type makes it exit(-1) the server
fs_get_attrs(file) ==
    IF file \notin Inodes \/ file \notin inode_bmap THEN [ret |-> -1]
    ELSE CASE inode_tab[file].type = FS_DIR ->
                [ret |-> 0, type |-> FS_DIR, size |-> inode_tab[file].size,
                 num_entries |-> inode_tab[file].size]
           [] inode_tab[file].type = FS_FILE ->
                [ret |-> 0, type |-> FS_FILE, size |-> inode_tab[file].size,
                 num_entries |-> -1]
           [] OTHER -> [ret |-> SERVER_EXIT]

(***************************************************************************)
(* snfs_lookup: the set of responses it can send for path p.  RES_OK with *)
(* the id and size only when fs_lookup returns 1 and fs_get_attrs of the  *)
(* id succeeds; fileid is the handler's local, uninitialised unless the   *)
(* walk set it.  "exit" is the server ending in fs_get_attrs.             *)
(***************************************************************************)
snfs_lookup(p) ==
    LET r == fs_lookup(p)
        ids == IF r.fileid = UNSET THEN Garbage ELSE {r.fileid}
    IN IF r.ret # 1 THEN {[status |-> "error"]}
       ELSE {IF fs_get_attrs(id).ret = 0
               THEN [status |-> "ok", file |-> id, fsize |-> fs_get_attrs(id).size]
             ELSE IF fs_get_attrs(id).ret = SERVER_EXIT THEN [status |-> "exit"]
             ELSE [status |-> "error"] : id \in ids}

(***************************************************************************)
(* fs_readdir(dir, max) then snfs_readdir: the first MIN(size, max)       *)
(* entries, each with the type of inode_tab[inodeid].  The set of type    *)
(* tags the handler can see: an entry that is not a dentry (an            *)
(* uninitialised page fs_remove wrote) has an arbitrary inodeid, and      *)
(* inode_tab indexed out of range is an arbitrary tag.                    *)
(***************************************************************************)
EntryTypes(c) ==
    IF c \in Dentry THEN {inode_tab[c.inodeid].type}
    ELSE IF c = ZERO THEN {inode_tab[0].type}
    ELSE {inode_tab[i].type : i \in Inodes} \cup {FS_DIR, FS_FILE, FS_NOTYPE}

fs_readdir(dir, max) ==
    IF dir \notin Inodes \/ dir \notin inode_bmap \/ inode_tab[dir].type # FS_DIR
    THEN [ret |-> -1]
    ELSE [ret |-> 0,
          entries |-> [k \in 1 .. MinOf(inode_tab[dir].size, max) |->
                         CellAt(inode_tab, dir, k - 1)]]

\* mutant: tfunc_dir_search_file's loop stops one name short
Listed_short(d) ==
    {fs_readdir(d, CAPACITY).entries[j].name :
        j \in {j \in 1 .. Len(fs_readdir(d, CAPACITY).entries) - 1 :
                 fs_readdir(d, CAPACITY).entries[j] \in Dentry}}

\* the names tfunc_dir_search_file finds in a my_listdir reply of
\* directory d (tfuncs.c, used by the tree and file tests)
Listed(d) ==
    {fs_readdir(d, CAPACITY).entries[j].name :
        j \in {j \in DOMAIN fs_readdir(d, CAPACITY).entries :
                 fs_readdir(d, CAPACITY).entries[j] \in Dentry}}

\* snfs_readdir reaches its exit(-1) for an entry whose type is unknown
snfs_readdir_exits(dir, max) ==
    LET r == fs_readdir(dir, max)
    IN r.ret = 0 /\ \E k \in DOMAIN r.entries :
                       EntryTypes(r.entries[k]) \ {FS_DIR, FS_FILE} # {}

-----------------------------------------------------------------------------
\* the well-formed paths: absolute, no empty component
WellFormed == {p \in Paths : p.abs /\ \A k \in DOMAIN p.comps : p.comps[k] # EMPTY}

(***************************************************************************)
(* Path resolution is a bijection between the tree and the live inodes    *)
(* (spec 4.3): every in-use inode but 0 and the root is found by exactly  *)
(* one well-formed path, and snfs_lookup answers that path with its id    *)
(* and its current size.  Needs fs_create's entries, the recursive walk   *)
(* of fs_lookup and fs_get_attrs to agree.                                *)
(***************************************************************************)
LookupFindsEveryInode ==
    \A i \in inode_bmap \ {0, 1} :
        LET found == {p \in WellFormed : fs_lookup(p) = [ret |-> 1, fileid |-> i]}
        IN /\ Cardinality(found) = 1
           /\ \A p \in found :
                 snfs_lookup(p) = {[status |-> "ok", file |-> i,
                                    fsize |-> inode_tab[i].size]}

(***************************************************************************)
(* The resolution spec 4.3 defines, the reference fs_lookup is held to: a  *)
(* path that is not absolute or has an empty component is malformed (spec *)
(* 8, Scenario C); the walk from the root fails as malformed at an inode   *)
(* not in use or not a directory, as absent at a missing name, and is     *)
(* found with the inode it ends at, the root itself for "/".              *)
(***************************************************************************)
RECURSIVE SpecWalk(_, _)
SpecWalk(dir, comps) ==
    IF comps = <<>> THEN [outcome |-> "found", id |-> dir]
    ELSE IF dir \notin inode_bmap \/ inode_tab[dir].type # FS_DIR
         THEN [outcome |-> "malformed"]
    ELSE IF ~fsi_dir_search(dir, Head(comps)) THEN [outcome |-> "absent"]
    ELSE SpecWalk(DirSearchId(dir, Head(comps)), Tail(comps))

SpecLookup(p) ==
    IF p \notin WellFormed THEN [outcome |-> "malformed"] ELSE SpecWalk(1, p.comps)

(***************************************************************************)
(* fs_lookup keeps the spec's three outcomes on every path: -1 exactly for *)
(* a malformed one, 0 for an absent one, and 1 with *fileid set to the id  *)
(* the spec's walk finds.  The strtok loop is where this can go wrong:     *)
(* empty components are skipped, and "/" runs no iteration at all.        *)
(***************************************************************************)
LookupMeetsSpec ==
    \A p \in Paths :
        LET s == SpecLookup(p)
            r == fs_lookup(p)
        IN CASE s.outcome = "malformed" -> r.ret = -1
             [] s.outcome = "absent" -> r.ret = 0
             [] OTHER -> r = [ret |-> 1, fileid |-> s.id]

(***************************************************************************)
(* Listing a directory never takes the server down: for every in-use      *)
(* directory, no entry snfs_readdir is sent resolves to a type it cannot  *)
(* encode (its exit(-1) branch).                                          *)
(***************************************************************************)
ReaddirNeverExits ==
    \A d \in LiveDirs : ~snfs_readdir_exits(d, CAPACITY)

=============================================================================
