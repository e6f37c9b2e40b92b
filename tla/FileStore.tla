----------------------------- MODULE FileStore -----------------------------
(***************************************************************************)
(* What the SNFS engine promises its clients, without blocks or bitmaps    *)
(* (spec 3, 4.4 and 4.5): a set of objects named by ids, each a directory  *)
(* or a file; a directory holds a set of entries [name, inodeid], a file   *)
(* a sequence of bytes.                                                    *)
(*                                                                         *)
(*  - create/mkdir adds a fresh object, empty, under a name its directory  *)
(*    does not hold yet;                                                   *)
(*  - write clamps its offset to the size and overwrites or extends the    *)
(*    bytes contiguously, never past MAX_SIZE;                             *)
(*  - remove takes a name out of its directory and deletes the object it  *)
(*    names, a directory with its whole subtree;                          *)
(*  - a request that fails changes nothing the client can observe, so it  *)
(*    is a stuttering step here.                                           *)
(***************************************************************************)
EXTENDS Integers, Sequences

CONSTANTS
    Ids,           \* object ids a client can be handed
    ROOT,          \* the root directory's id
    Names,         \* entry names
    Data,          \* byte values
    COUNTS,        \* byte counts a write may carry
    MAX_SIZE       \* bytes a file can hold

ASSUME ROOT \in Ids /\ MAX_SIZE \in Nat /\ COUNTS \subseteq Nat

DIR == "dir"
FILE == "file"
NONE == "none"

VARIABLES
    inuse,     \* the ids of existing objects
    kind,      \* kind[i]: DIR, FILE, or NONE for an id not in use
    entries,   \* entries[d]: the entries of directory d
    data       \* data[f]: the bytes of file f

store == <<inuse, kind, entries, data>>

Init ==
    /\ inuse = {ROOT}
    /\ kind = [i \in Ids |-> IF i = ROOT THEN DIR ELSE NONE]
    /\ entries = [i \in Ids |-> {}]
    /\ data = [i \in Ids |-> <<>>]

\* the names directory d already holds
NamesIn(d) == {e.name : e \in entries[d]}

\* create(dir, name) or mkdir(dir, name): a fresh id, empty, of type t
Add(d, n, t) ==
    \E i \in Ids \ inuse :
       /\ inuse' = inuse \cup {i}
       /\ kind' = [kind EXCEPT ![i] = t]
       /\ kind[d] = DIR /\ n \notin NamesIn(d)
       /\ entries' = [entries EXCEPT ![d] = @ \cup {[name |-> n, inodeid |-> i]},
                                     ![i] = {}]
       /\ data' = [data EXCEPT ![i] = <<>>]

\* the bytes of s after writing cnt copies of v at offset off, clamped
Overwrite(s, off, cnt, v) ==
    LET o == IF off > Len(s) THEN Len(s) ELSE off
    IN [k \in 1 .. IF o + cnt > Len(s) THEN o + cnt ELSE Len(s) |->
          IF o < k /\ k <= o + cnt THEN v ELSE s[k]]

\* write(file, offset, count, data): the size law of spec 8; only the
\* bytes of f change
Write(f, off, cnt, v) ==
    LET new == Overwrite(data[f], off, cnt, v)
    IN /\ kind[f] = FILE
       /\ Len(new) <= MAX_SIZE
       /\ data' = [data EXCEPT ![f] = new]

\* the objects reachable from object i through directory entries, i included
RECURSIVE Subtree(_)
Subtree(i) == {i} \cup UNION {Subtree(e.inodeid) : e \in entries[i]}

\* remove(dir, name): the entry goes, and with it every object below it
Delete(d, n) ==
    \E e \in entries[d] :
       LET gone == Subtree(e.inodeid)
       IN /\ e.name = n
          /\ inuse' = inuse \ gone
          /\ kind' = [i \in Ids |-> IF i \in gone THEN NONE ELSE kind[i]]
          /\ entries' = [i \in Ids |-> CASE i \in gone -> {}
                                          [] i = d -> entries[d] \ {e}
                                          [] OTHER -> entries[i]]
          /\ data' = [i \in Ids |-> IF i \in gone THEN <<>> ELSE data[i]]

\* a write that leaves every byte as it was is a stuttering step
Next ==
    \/ \E d \in inuse, n \in Names, t \in {DIR, FILE} : Add(d, n, t)
    \/ \E d \in inuse, n \in Names : Delete(d, n)
    \/ /\ data' # data
       /\ UNCHANGED <<inuse, kind, entries>>
       /\ \E f \in inuse, c \in COUNTS, v \in Data :
             \E o \in 0 .. Len(data[f]) + 1 : Write(f, o, c, v)

Spec == Init /\ [][Next]_store

=============================================================================
