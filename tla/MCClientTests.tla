---------------------------- MODULE MCClientTests ----------------------------
(***************************************************************************)
(* ClientTests instantiated for TLC.  Test data of FILE_SIZE = 3 cells     *)
(* over blocks of 2, sent in chunks of 2: a file spans a full and a        *)
(* partial block and every write and read loop takes two rounds.  Each     *)
(* tfunc call writes its own value, so stale or foreign bytes are seen.    *)
(* Loop counts are scaled down: 03's 5 files, 15's 10 directories and the  *)
(* 20 rounds of 11 and 12 become 3, 3 and 2; 17's tree keeps its shape     *)
(* (a name reused in a subdirectory, a file opened twice) on three names;  *)
(* 14 forks two readers of its 4 and checks 2 of its 50 rounds; 18 keeps  *)
(* only its absolute paths.                                                *)
(***************************************************************************)
EXTENDS ClientTests, TLC

CONSTANTS t1, t2, t3, A1, B1, A2, B2, A3, B3, w1, w2, w3

MCNames == {t1, t2, t3}
MCData == {A1, B1, A2, B2, A3, B3}

Create(p, v) == [op |-> "create", path |-> p, val |-> v]
Rewrite(p, v) == [op |-> "rewrite", path |-> p, val |-> v]
Check(p, v) == [op |-> "check", path |-> p, val |-> v]
Touch(p) == [op |-> "touch", path |-> p]
MkDir(p) == [op |-> "mkdir", path |-> p]
List(p, ns, exact) == [op |-> "list", path |-> p, names |-> ns, exact |-> exact]
Open(p) == [op |-> "open", path |-> p]
Scan(p, v, sized) == [op |-> "scan", path |-> p, val |-> v, sized |-> sized]
CreateBad(p) == [op |-> "create_bad", path |-> p]
MkDirBad(p) == [op |-> "mkdir_bad", path |-> p]
RemoveCall(p) == [op |-> "remove", path |-> p]
OpenBad(p) == [op |-> "open_bad", path |-> p]

\* tfunc_gen_and_check_file_zbin: create the file with fresh data, check it
GenAndCheck(p, v) == <<Create(p, v), Check(p, v)>>

\* the test processes; a test of fewer processes leaves the others idle
Writers == {w1, w2}
Writers3 == {w1, w2, w3}
Solo(prog) == [c \in Writers3 |-> IF c = w1 THEN prog ELSE <<>>]

\* 01myfs01: create the empty file, then open it again without O_CREATE
Program01 == Solo(<<Touch(<<t1>>), Open(<<t1>>)>>)

\* 02myfs02 (and 06myfs06, the same with binary data): write the file in
\* one my_write, then read it back until a read returns 0
Program02 == Solo(<<Create(<<t1>>, A1), Scan(<<t1>>, A1, FALSE)>>)

\* 08myfs08: the same, reading in 16-byte pieces and then comparing the
\* total with the size
Program08 == Solo(<<Create(<<t1>>, A1), Scan(<<t1>>, A1, TRUE)>>)

\* 03myfs03: create each file empty and find it in the listing of "/"
Program03 == Solo(<<Touch(<<t1>>), List(<<>>, {t1}, FALSE),
                    Touch(<<t2>>), List(<<>>, {t2}, FALSE),
                    Touch(<<t3>>), List(<<>>, {t3}, FALSE)>>)

\* 11multiserver01: create, then rounds of rewrite and check, fresh data each
Program11 == Solo(<<Create(<<t1>>, A1), Rewrite(<<t1>>, B1), Check(<<t1>>, B1),
                    Rewrite(<<t1>>, A2), Check(<<t1>>, A2)>>)

\* 12multiserver02: create, then check the same data in rounds
Program12 == Solo(<<Create(<<t1>>, A1), Check(<<t1>>, A1), Check(<<t1>>, A1)>>)

\* 13multiserver03: each client creates its own file, rewrites it and
\* checks it, all in parallel; the file and the two data values of each
\* writer (its pid and its gen_data_rand_zbin buffers)
WFile == (w1 :> t1) @@ (w2 :> t2) @@ (w3 :> t3)
WFirst == (w1 :> A1) @@ (w2 :> A2) @@ (w3 :> A3)
WSecond == (w1 :> B1) @@ (w2 :> B2) @@ (w3 :> B3)
Program13(S) == [c \in Writers3 |->
    IF c \in S
    THEN << Create(<<WFile[c]>>, WFirst[c]), Rewrite(<<WFile[c]>>, WSecond[c]),
            Check(<<WFile[c]>>, WSecond[c]) >>
    ELSE <<>>]

\* 14multiserver04: the parent creates the file, forks the readers and
\* waits for them; each reader checks the file in rounds
Fork == [op |-> "fork"]
Start == [op |-> "start"]
Wait == [op |-> "wait"]
Program14 == (w1 :> <<Create(<<t1>>, A1), Fork, Wait>>)
             @@ [c \in {w2, w3} |-> <<Start, Check(<<t1>>, A1), Check(<<t1>>, A1)>>]

\* 15filesystem01: make directories in the root, then list "/": exactly
\* those names
Program15 == Solo(<<MkDir(<<t1>>), MkDir(<<t2>>), MkDir(<<t3>>),
                    List(<<>>, {t1, t2, t3}, TRUE)>>)

\* 17filesystem03: a directory tree, then files in it, one of them twice
Program17 == Solo(<<MkDir(<<t1>>), MkDir(<<t1, t1>>), MkDir(<<t2>>)>>
                  \o GenAndCheck(<<t3>>, A1) \o GenAndCheck(<<t1, t3>>, A2)
                  \o GenAndCheck(<<t1, t1, t2>>, A3) \o GenAndCheck(<<t1, t1, t2>>, B3))

\* 18filesystem04: /t1 a file, /t2 a directory; then the calls that must be
\* refused: create in the absent /t3 and under the file /t1; mkdir in the
\* absent /t3, of the existing /t2 and /t1, and under /t1; then "/" holds
\* exactly t1 and t2.  (Its relative and "//" paths are left out: what is
\* sent for them depends on how the library splits a path.)
Program18 == Solo(GenAndCheck(<<t1>>, A1) \o
                  <<MkDir(<<t2>>), CreateBad(<<t3, t3>>), CreateBad(<<t1, t3>>),
                    MkDirBad(<<t3, t3>>), MkDirBad(<<t2>>), MkDirBad(<<t1>>),
                    MkDirBad(<<t1, t3>>), List(<<>>, {t1, t2}, TRUE)>>)

\* aval-myfs-snfs/remove1: create and write a file, reopen it, remove it;
\* then opening it must fail
ProgramRemove1 == Solo(<<Create(<<t1>>, A1), Open(<<t1>>), RemoveCall(<<t1>>), OpenBad(<<t1>>)>>)

FileTests == {ProgramRemove1, Program01, Program02, Program03, Program08, Program11, Program12,
              Program13(Writers), Program14, Program15, Program17, Program18}

\* 13multiserver03 with three clients, for a server with too few inodes
\* and blocks
DiskFullTests == {Program13(Writers3)}
=============================================================================
