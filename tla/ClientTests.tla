---------------------------- MODULE ClientTests ----------------------------
(***************************************************************************)
(* The file and directory tests of src/test-snfs run against the server:   *)
(* each client process runs a program of calls on paths: tfunc_create_file, *)
(* tfunc_rewrite_file and tfunc_read_and_check_file of tfuncs.c, the       *)
(* my_open(O_CREATE) and my_close of 03myfs03 ("touch"), tfunc_dir_make    *)
(* ("mkdir") and a my_listdir whose names are then searched ("list"), the *)
(* my_open and my_close of 01myfs01 ("open"), the read loops of 02, 06 and *)
(* 08 ("scan"), the calls 18filesystem04 expects to be refused            *)
(* ("create_bad", "mkdir_bad"), and the my_remove of aval-myfs-snfs's      *)
(* remove1 ("remove") with its last my_open, which must fail ("open_bad"), *)
(* and the fork and wait of 14multiserver04 ("fork", "start", "wait").     *)
(* The program of each client is one of                                    *)
(* Tests, chosen in the initial state.                                     *)
(*                                                                         *)
(* The myfs library (myfs.h; its body is not in the repository) keeps a    *)
(* descriptor [fileId, read_offset, write_offset], both offsets 0 on       *)
(* my_open.  my_open is a lookup of the path and, with O_CREATE and the    *)
(* path absent, a resolution of the parent and a create in it; my_mkdir is *)
(* that resolution and a mkdir; my_listdir a resolution of the path and a  *)
(* readdir.  A resolution knows the root as inode 1 and looks any other    *)
(* path up.  my_write sends write requests of at most MAX_WRITE_DATA bytes *)
(* at write_offset until the buffer is sent or one fails; my_read sends    *)
(* one read request of at most MAX_READ_DATA bytes at read_offset.  Each   *)
(* request is one atomic step of the server.  Random test data is         *)
(* abstracted to one value per tfunc call, written to every byte: a check  *)
(* sees a byte of another file or of an earlier round as a different      *)
(* value.                                                                  *)
(***************************************************************************)
EXTENDS FSLookup

CONSTANTS
    Clients,         \* the test processes
    Tests,           \* the tests: t[c] is the program client c runs in t
    FILE_SIZE,       \* the size of the test data
    WRITE_CHUNK,     \* tfunc_rewrite_file's 117-byte chunks
    READ_BUF,        \* tfunc_read_and_check_file's 512-byte buffer
    MAX_WRITE_DATA,  \* the largest write request snfs_write accepts
    MAX_READ_DATA    \* the largest read request snfs_read accepts

Op == [op : {"create", "rewrite", "check"}, path : Seq(Names), val : Data]
      \cup [op : {"scan"}, path : Seq(Names), val : Data, sized : BOOLEAN]
      \cup [op : {"touch", "mkdir", "open", "create_bad", "mkdir_bad", "remove", "open_bad"},
             path : Seq(Names)]
      \cup [op : {"fork", "start", "wait"}]
      \cup [op : {"list"}, path : Seq(Names), names : SUBSET Names, exact : BOOLEAN]

ASSUME /\ \A t \in Tests : t \in [Clients -> Seq(Op)]
       /\ WRITE_CHUNK <= MAX_WRITE_DATA
       /\ {FILE_SIZE, WRITE_CHUNK, READ_BUF, MAX_WRITE_DATA, MAX_READ_DATA}
              \subseteq Nat \ {0}

VARIABLES
    program, \* the test being run
    pc,      \* the step each client is at
    ip,      \* the index of its current call in program[c]
    fd,      \* its open descriptor [id, roff, woff]
    done,    \* bytes written (create, rewrite) or read (check) in the call
    dirid    \* the directory its last resolution returned

cvars == <<program, pc, ip, fd, done, dirid>>
allvars == <<vars, cvars>>

CurOp(c) == program[c][ip[c]]
PathOf(path) == [abs |-> TRUE, comps |-> path]

\* snfs_write: the request is refused over MAX_WRITE_DATA bytes; RES_OK
\* when fs_write returns 0 (fs_get_attrs of a file fs_write took cannot fail)
snfs_write_ok(f, o, n) == n <= MAX_WRITE_DATA /\ fs_write_succeeds(f, o, n)

\* snfs_read: RES_OK when the count fits and fs_read validates the file;
\* nread is the number of bytes fs_read copied
snfs_read_ok(f, n) ==
    n <= MAX_READ_DATA /\ f \in Inodes /\ f \in inode_bmap
    /\ inode_tab[f].type = FS_FILE

Goto(c, l) == pc' = [pc EXCEPT ![c] = l]
\* printf and exit(-1): the test process ends, failed
Fail(c) == Goto(c, "failed")

\* my_close and the return of the tfunc: the next call of the program
NextCall(c) == /\ pc' = [pc EXCEPT ![c] = "call"]
               /\ ip' = [ip EXCEPT ![c] = @ + 1]

\* the calls 18filesystem04 makes expecting -1: it exits when they succeed;
\* remove1 prints PASSED only when its last my_open fails
Refused == {"create_bad", "mkdir_bad", "open_bad"}

\* a call returns -1: the test exits, unless it expected the error
CallFails(c) ==
    IF CurOp(c).op \in Refused THEN NextCall(c) ELSE Fail(c) /\ UNCHANGED ip

\* the first request of each kind of call
FirstStep == [create |-> "open_create", touch |-> "open_create", rewrite |-> "open",
              check |-> "open", scan |-> "open", open |-> "open", open_bad |-> "open",
              create_bad |-> "open_create", mkdir |-> "parent", mkdir_bad |-> "parent",
              remove |-> "parent", list |-> "list_resolve",
              fork |-> "fork", start |-> "start", wait |-> "wait"]

\* the next call, or the end of the program
Call(c) ==
    /\ pc[c] = "call"
    /\ Goto(c, IF ip[c] > Len(program[c]) THEN "passed" ELSE FirstStep[CurOp(c).op])
    /\ done' = [done EXCEPT ![c] = 0]
    /\ UNCHANGED <<vars, program, ip, fd, dirid>>

\* a resolution of a directory path: the root is inode 1, any other path
\* is looked up; an error fails the call
Resolve(c, path, next) ==
    IF path = <<>>
    THEN Goto(c, next) /\ dirid' = [dirid EXCEPT ![c] = 1] /\ UNCHANGED ip
    ELSE \E r \in snfs_lookup(PathOf(path)) :
            IF r.status = "ok"
            THEN Goto(c, next) /\ dirid' = [dirid EXCEPT ![c] = r.file] /\ UNCHANGED ip
            ELSE CallFails(c) /\ UNCHANGED dirid

\* an open descriptor: touch and open close it at once, check and scan
\* read, create and rewrite write; a create 18filesystem04 expected to
\* fail exits the test
Opened(c) ==
    CASE CurOp(c).op \in {"touch", "open"} -> NextCall(c)
      [] CurOp(c).op \in Refused -> Fail(c) /\ UNCHANGED ip
      [] CurOp(c).op \in {"check", "scan"} -> Goto(c, "read") /\ UNCHANGED ip
      [] OTHER -> Goto(c, "write") /\ UNCHANGED ip

\* a process whose parent has returned from fork
Forked(c) ==
    \E m \in Clients \ {c} : \E k \in 1 .. ip[m] - 1 : program[m][k].op = "fork"

(***************************************************************************)
(* 14multiserver04's processes: the parent forks (a child's program begins *)
(* with "start", which it passes once its parent has forked) and then      *)
(* waits until every child has exited.                                     *)
(***************************************************************************)
Process(c) ==
    /\ \/ pc[c] = "fork"
       \/ pc[c] = "start" /\ Forked(c)
       \/ pc[c] = "wait" /\ \A o \in Clients \ {c} : pc[o] \in {"passed", "failed"}
    /\ NextCall(c)
    /\ UNCHANGED <<vars, program, fd, done, dirid>>

(***************************************************************************)
(* my_open: the lookup of the path; absent, with O_CREATE, the resolution  *)
(* of its parent and the create in it.  A descriptor starts at offsets 0.  *)
(***************************************************************************)
OpenLookup(c) ==
    /\ pc[c] \in {"open", "open_create"}
    /\ \E r \in snfs_lookup(PathOf(CurOp(c).path)) :
          IF r.status = "ok"
          THEN /\ fd' = [fd EXCEPT ![c] = [id |-> r.file, roff |-> 0, woff |-> 0]]
               /\ Opened(c)
          ELSE /\ IF pc[c] = "open_create" THEN Goto(c, "parent") /\ UNCHANGED ip
                  ELSE CallFails(c)
               /\ UNCHANGED fd
    /\ UNCHANGED <<vars, program, done, dirid>>

\* the parent of the path of a create or a mkdir
OpenParent(c) ==
    /\ pc[c] = "parent"
    /\ Resolve(c, Front(CurOp(c).path),
               CASE CurOp(c).op \in {"mkdir", "mkdir_bad"} -> "mkdir"
                 [] CurOp(c).op = "remove" -> "remove"
                 [] OTHER -> "create")
    /\ UNCHANGED <<vars, program, fd, done>>

OpenCreate(c) ==
    /\ pc[c] = "create"
    /\ \/ /\ fs_create(dirid[c], Last(CurOp(c).path))
          /\ fd' = [fd EXCEPT ![c] = [id |-> fsi_bmap_find_free(inode_bmap, ITAB_SIZE),
                                      roff |-> 0, woff |-> 0]]
          /\ Opened(c)
       \/ /\ ~AddEntryOK(dirid[c], Last(CurOp(c).path))
          /\ CallFails(c)
          /\ UNCHANGED <<vars, fd>>
    /\ UNCHANGED <<program, done, dirid>>

\* tfunc_dir_make: the mkdir in the resolved parent; a failure exits, and
\* so does a success 18filesystem04 expected to fail
Mkdir(c) ==
    /\ pc[c] = "mkdir"
    /\ \/ /\ fs_mkdir(dirid[c], Last(CurOp(c).path))
          /\ IF CurOp(c).op \in Refused THEN Fail(c) /\ UNCHANGED ip ELSE NextCall(c)
       \/ ~AddEntryOK(dirid[c], Last(CurOp(c).path)) /\ CallFails(c) /\ UNCHANGED vars
    /\ UNCHANGED <<program, fd, done, dirid>>

\* my_remove: snfs_remove of the name in the resolved parent; RES_ERROR
\* when fs_remove returns -1, and the test then exits
MyRemove(c) ==
    /\ pc[c] = "remove"
    /\ IF fs_remove_accepts(dirid[c], Last(CurOp(c).path))
       THEN fs_remove(dirid[c], Last(CurOp(c).path)) /\ NextCall(c)
       ELSE CallFails(c) /\ UNCHANGED vars
    /\ UNCHANGED <<program, fd, done, dirid>>

(***************************************************************************)
(* my_listdir and the checks on its reply: a failed listing, a count that  *)
(* differs where the test compares it (15filesystem01), or a name          *)
(* tfunc_dir_search_file does not find exits the test.                     *)
(***************************************************************************)
ListResolve(c) ==
    /\ pc[c] = "list_resolve"
    /\ Resolve(c, CurOp(c).path, "list_read")
    /\ UNCHANGED <<vars, program, fd, done>>

ListRead(c) ==
    LET r == fs_readdir(dirid[c], CAPACITY)
        op == CurOp(c)
    IN /\ pc[c] = "list_read"
       /\ IF \/ r.ret # 0
             \/ op.exact /\ Len(r.entries) # Cardinality(op.names)
             \/ ~(op.names \subseteq Listed(dirid[c]))
          THEN Fail(c) /\ UNCHANGED ip
          ELSE NextCall(c)
       /\ UNCHANGED <<vars, program, fd, done, dirid>>

\* mutant: tfunc_rewrite_file's last chunk is one byte longer than what is left
RewriteChunk_over(left) == MinOf(left + 1, WRITE_CHUNK)

\* tfunc_rewrite_file sends towrite = MIN(left, 117) bytes per my_write
RewriteChunk(left) == MinOf(left, WRITE_CHUNK)

\* the bytes of the next write request: tfunc_create_file's single my_write
\* of the whole buffer goes out in MAX_WRITE_DATA pieces
WriteLen(c) ==
    IF CurOp(c).op = "create" THEN MinOf(FILE_SIZE - done[c], MAX_WRITE_DATA)
    ELSE RewriteChunk(FILE_SIZE - done[c])

\* mutant: the write loop ends only once more than the file size is sent
WriteDone_gt(total) == total > FILE_SIZE

\* the write loop ends when the whole buffer has been sent
WriteDone(total) == total >= FILE_SIZE

(***************************************************************************)
(* One write request at write_offset.  A refused request ends my_write     *)
(* short, and the tfunc exits the test.  When the data is all written the  *)
(* file is closed.                                                         *)
(***************************************************************************)
Write(c) ==
    LET f == fd[c].id
        n == WriteLen(c)
    IN /\ pc[c] = "write"
       /\ \/ /\ snfs_write_ok(f, fd[c].woff, n)
             /\ fs_write(f, fd[c].woff, n, CurOp(c).val)
             /\ fd' = [fd EXCEPT ![c].woff = @ + n]
             /\ done' = [done EXCEPT ![c] = @ + n]
             /\ IF WriteDone(done[c] + n) THEN NextCall(c)
                ELSE UNCHANGED <<pc, ip>>
          \/ /\ ~snfs_write_ok(f, fd[c].woff, n)
             /\ IF n <= MAX_WRITE_DATA /\ fs_write_accepts(f, fd[c].woff, n)
                THEN fs_write(f, fd[c].woff, n, CurOp(c).val)
                ELSE UNCHANGED vars
             /\ Fail(c)
             /\ UNCHANGED <<ip, fd, done>>
       /\ UNCHANGED <<program, dirid>>

(***************************************************************************)
(* One my_read at read_offset and the checks of the read loop.             *)
(* tfunc_read_and_check_file exits on an error, on 0 bytes before the     *)
(* whole size, on more bytes than the size and on bytes that differ from   *)
(* the data; 0 bytes after all of them ends it.  The loops of 02 and 06    *)
(* end at the first 0 without looking at the size ("scan", not sized); 08  *)
(* ends there too and then compares the total with the size (sized).  A    *)
(* scan that reads past the data compares memory past its buffer: the     *)
(* outcome is either.                                                      *)
(***************************************************************************)
Read(c) ==
    LET f == fd[c].id
        n == MinOf(READ_BUF, MAX_READ_DATA)
        got == fs_read(f, fd[c].roff, n)
        num == Len(got)
        op == CurOp(c)
        sized == op.op = "check" \/ op.sized
        advance == /\ fd' = [fd EXCEPT ![c].roff = @ + num]
                   /\ done' = [done EXCEPT ![c] = @ + num]
                   /\ UNCHANGED <<pc, ip>>
        fail == Fail(c) /\ UNCHANGED <<ip, fd, done>>
    IN /\ pc[c] = "read"
       /\ CASE ~snfs_read_ok(f, n) -> fail
             [] num = 0 -> IF ~sized \/ done[c] = FILE_SIZE
                           THEN NextCall(c) /\ UNCHANGED <<fd, done>>
                           ELSE fail
             [] done[c] + num > FILE_SIZE -> IF op.op = "check" THEN fail ELSE fail \/ advance
             [] \E k \in 1 .. num : got[k] # op.val -> fail
             [] OTHER -> advance
       /\ UNCHANGED <<vars, program, dirid>>

ClientInit ==
    /\ Init
    /\ program \in Tests
    /\ pc = [c \in Clients |-> "call"]
    /\ ip = [c \in Clients |-> 1]
    /\ fd = [c \in Clients |-> [id |-> 0, roff |-> 0, woff |-> 0]]
    /\ done = [c \in Clients |-> 0]
    /\ dirid = [c \in Clients |-> 1]

ClientStep(c) ==
    \/ Call(c) \/ OpenLookup(c) \/ OpenParent(c) \/ OpenCreate(c)
    \/ Write(c) \/ Read(c) \/ Mkdir(c) \/ MyRemove(c) \/ ListResolve(c) \/ ListRead(c) \/ Process(c)

ClientNext == \E c \in Clients : ClientStep(c)

\* every test process runs until it exits, and the server answers each
\* request: weak fairness of each client
ClientSpec ==
    ClientInit /\ [][ClientNext]_allvars /\ \A c \in Clients : WF_allvars(ClientStep(c))

-----------------------------------------------------------------------------
\* the server has no free inode or no free block left
OutOfSpace == inode_bmap = Inodes \/ Blocks \subseteq blk_bmap

NoClientFails == \A c \in Clients : pc[c] # "failed"

(***************************************************************************)
(* Every test passes: each client eventually finishes its program.         *)
(***************************************************************************)
AllClientsPass == <>(\A c \in Clients : pc[c] = "passed")

(***************************************************************************)
(* What the tests do to the server implements FileStore, removal included: *)
(* every request of every interleaving of the programs, remove1's         *)
(* my_remove among them, is a step of the abstract store or leaves every  *)
(* name, kind and byte a client can observe unchanged.                    *)
(***************************************************************************)
ClientsRefineFileStore == Store!Spec

=============================================================================
