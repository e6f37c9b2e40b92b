----------------------------- MODULE ParityTest -----------------------------
(***************************************************************************)
(* The even/odd test, src/test-snfs/20filesystem06.c, run against the      *)
(* server: a main process makes BASE_DIR, counts its entries and forks two *)
(* clients; client p lists BASE_DIR and, when the number of entries has    *)
(* parity p, creates the file named <<p, count>> in it, until it has       *)
(* created MAX_ITERATIONS files; main waits for both and checks that       *)
(* 2 * MAX_ITERATIONS files were added.                                    *)
(*                                                                         *)
(* The myfs client library (myfs.h; its body is not in the repository)     *)
(* turns each call into requests: my_listdir is a lookup of the path and a *)
(* readdir of the id it names, my_open(O_CREATE) a lookup of the path and, *)
(* when it is absent, a lookup of the parent and a create in it, my_mkdir  *)
(* of a name in the root a mkdir in inode 1.  Each request is one step of  *)
(* the server (the request loop is not in the repository; it is taken to  *)
(* serve one request at a time), and the processes interleave between     *)
(* requests.  my_close and the sleep between rounds send nothing.         *)
(***************************************************************************)
EXTENDS FSLookup

CONSTANTS
    BASE_DIR,        \* the name "dir"
    MAX_ITERATIONS,  \* files each client creates
    LISTDIR_MAX      \* entries a readdir request returns at most

ASSUME MAX_ITERATIONS \in Nat \ {0} /\ LISTDIR_MAX \in Nat

EVEN == 0
ODD == 1
MAIN == 2   \* the parent process
Procs == {MAIN, EVEN, ODD}

\* the name of the file client p creates when it counts n entries
FileName(p, n) == <<p, n>>

DirPath == [abs |-> TRUE, comps |-> <<BASE_DIR>>]
FilePath(p, n) == [abs |-> TRUE, comps |-> <<BASE_DIR, FileName(p, n)>>]

VARIABLES
    pc,        \* the statement each process is at
    count,     \* numberOfFiles of each client; before and after for main
    iter,      \* i of each client
    dirid,     \* the id the last lookup of a client returned
    after      \* numberOfFilesAfter of main

tvars == <<pc, count, iter, dirid, after>>
allvars == <<vars, tvars>>

(***************************************************************************)
(* The two requests of my_listdir(BASE_DIR): the lookup of the path, then  *)
(* the readdir of the id it returned; the count is the number of entries   *)
(* the response carries.  Either request failing fails the call.           *)
(***************************************************************************)
ListLookup(p, next) ==
    /\ \E r \in snfs_lookup(DirPath) :
          IF r.status = "ok" THEN /\ pc' = [pc EXCEPT ![p] = next]
                                  /\ dirid' = [dirid EXCEPT ![p] = r.file]
          ELSE /\ pc' = [pc EXCEPT ![p] = "failed"]
               /\ UNCHANGED dirid
    /\ UNCHANGED <<vars, count, iter, after>>

\* the number of entries my_listdir reports, -1 when readdir fails
ListCount(d) ==
    IF fs_readdir(d, LISTDIR_MAX).ret = 0 THEN Len(fs_readdir(d, LISTDIR_MAX).entries)
    ELSE -1

(***************************************************************************)
(* main: my_mkdir(BASE_DIR), my_listdir for numberOfFilesBefore, two       *)
(* forks, two waits, my_listdir for numberOfFilesAfter and the check.      *)
(***************************************************************************)
MainMkdir ==
    /\ pc[MAIN] = "mkdir"
    /\ \/ /\ fs_mkdir(1, BASE_DIR)
          /\ pc' = [pc EXCEPT ![MAIN] = "before_lookup"]
       \/ /\ ~AddEntryOK(1, BASE_DIR)
          /\ pc' = [pc EXCEPT ![MAIN] = "failed"]
          /\ UNCHANGED vars
    /\ UNCHANGED <<count, iter, dirid, after>>

MainBeforeLookup == pc[MAIN] = "before_lookup" /\ ListLookup(MAIN, "before_read")

MainBeforeRead ==
    /\ pc[MAIN] = "before_read"
    /\ count' = [count EXCEPT ![MAIN] = ListCount(dirid[MAIN])]
    /\ pc' = [pc EXCEPT ![MAIN] = IF ListCount(dirid[MAIN]) < 0 THEN "failed"
                                  ELSE "fork"]
    /\ UNCHANGED <<vars, iter, dirid, after>>

MainFork ==
    /\ pc[MAIN] = "fork"
    /\ pc' = [pc EXCEPT ![MAIN] = "wait", ![EVEN] = "list", ![ODD] = "list"]
    /\ UNCHANGED <<vars, count, iter, dirid, after>>

\* both waits: a child that exited with a non-zero status fails the test
MainWait ==
    /\ pc[MAIN] = "wait"
    /\ pc[EVEN] \in {"done", "failed"} /\ pc[ODD] \in {"done", "failed"}
    /\ pc' = [pc EXCEPT ![MAIN] = IF "failed" \in {pc[EVEN], pc[ODD]} THEN "failed"
                                  ELSE "after_lookup"]
    /\ UNCHANGED <<vars, count, iter, dirid, after>>

MainAfterLookup == pc[MAIN] = "after_lookup" /\ ListLookup(MAIN, "after_read")

MainAfterRead ==
    LET n == ListCount(dirid[MAIN])
    IN /\ pc[MAIN] = "after_read"
       /\ after' = n
       /\ pc' = [pc EXCEPT ![MAIN] =
                   IF n >= 0 /\ n - count[MAIN] = 2 * MAX_ITERATIONS THEN "passed"
                   ELSE "failed"]
       /\ UNCHANGED <<vars, count, iter, dirid>>

(***************************************************************************)
(* parity_client(p): the do-while loop.  After the listing, a count of     *)
(* parity p sends the my_open requests; any other count goes round again.  *)
(***************************************************************************)
ClientListLookup(p) == pc[p] = "list" /\ ListLookup(p, "list_read")

\* mutant: the client takes its turn whatever the parity of the count
MyTurn_any(n, p) == TRUE

\* the test's turn rule: numberOfFiles % 2 == parity
MyTurn(n, p) == n % 2 = p

ClientListRead(p) ==
    LET n == ListCount(dirid[p])
    IN /\ pc[p] = "list_read"
       /\ count' = [count EXCEPT ![p] = n]
       /\ pc' = [pc EXCEPT ![p] = IF n < 0 THEN "failed"
                                  ELSE IF MyTurn(n, p) THEN "open_lookup"
                                  ELSE "list"]
       /\ UNCHANGED <<vars, iter, dirid, after>>

\* my_open(filename, O_CREATE): the lookup of the file; found, it is opened
ClientOpenLookup(p) ==
    /\ pc[p] = "open_lookup"
    /\ \E r \in snfs_lookup(FilePath(p, count[p])) :
          pc' = [pc EXCEPT ![p] = IF r.status = "ok" THEN "close" ELSE "open_parent"]
    /\ UNCHANGED <<vars, count, iter, dirid, after>>

\* the lookup of the parent directory
ClientOpenParent(p) == pc[p] = "open_parent" /\ ListLookup(p, "open_create")

\* the create in the parent; its failure makes my_open return -1
ClientOpenCreate(p) ==
    /\ pc[p] = "open_create"
    /\ \/ /\ fs_create(dirid[p], FileName(p, count[p]))
          /\ pc' = [pc EXCEPT ![p] = "close"]
       \/ /\ ~AddEntryOK(dirid[p], FileName(p, count[p]))
          /\ pc' = [pc EXCEPT ![p] = "failed"]
          /\ UNCHANGED vars
    /\ UNCHANGED <<count, iter, dirid, after>>

\* mutant: the loop runs while i <= MAX_ITERATIONS
LoopTest_le(i) == i <= MAX_ITERATIONS

\* the do-while condition i < MAX_ITERATIONS
LoopTest(i) == i < MAX_ITERATIONS

\* my_close, i++, the sleep and the loop test
ClientClose(p) ==
    /\ pc[p] = "close"
    /\ iter' = [iter EXCEPT ![p] = @ + 1]
    /\ pc' = [pc EXCEPT ![p] = IF LoopTest(iter[p] + 1) THEN "list" ELSE "done"]
    /\ UNCHANGED <<vars, count, dirid, after>>

TestInit ==
    /\ Init
    /\ pc = [q \in Procs |-> IF q = MAIN THEN "mkdir" ELSE "idle"]
    /\ count = [q \in Procs |-> -1]
    /\ iter = [q \in Procs |-> 0]
    /\ dirid = [q \in Procs |-> 0]
    /\ after = -1

MainStep ==
    \/ MainMkdir \/ MainBeforeLookup \/ MainBeforeRead \/ MainFork
    \/ MainWait \/ MainAfterLookup \/ MainAfterRead

ClientStep(p) ==
    \/ ClientListLookup(p) \/ ClientListRead(p) \/ ClientOpenLookup(p)
    \/ ClientOpenParent(p) \/ ClientOpenCreate(p) \/ ClientClose(p)

TestNext == MainStep \/ \E p \in {EVEN, ODD} : ClientStep(p)

\* each process is an OS process that keeps running until it exits: the
\* sleeps are finite and the server answers every request
TestSpec ==
    /\ TestInit
    /\ [][TestNext]_allvars
    /\ WF_allvars(MainStep)
    /\ \A p \in {EVEN, ODD} : WF_allvars(ClientStep(p))

-----------------------------------------------------------------------------
(***************************************************************************)
(* The turn protocol keeps the directory in order: while the clients run,  *)
(* the entry at position k of BASE_DIR, for every k past the entries main  *)
(* counted, is the file <<k % 2, k>>: each count is acted on by one client *)
(* once, although the count a client acts on was read one or more requests *)
(* before its create.                                                      *)
(***************************************************************************)
EntriesInTurnOrder ==
    pc[MAIN] \in {"wait", "after_lookup", "after_read", "passed"} =>
        LET d == DirSearchId(1, BASE_DIR)
        IN \A k \in count[MAIN] .. inode_tab[d].size - 1 :
              CellAt(inode_tab, d, k) \in Dentry
              /\ CellAt(inode_tab, d, k).name = FileName(k % 2, k)

(***************************************************************************)
(* The test passes: main always ends with "[test] passed", both clients    *)
(* having created their files and neither having failed.                   *)
(***************************************************************************)
ParityTestPasses == <>(pc[MAIN] = "passed")

=============================================================================
