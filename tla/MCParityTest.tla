---------------------------- MODULE MCParityTest ----------------------------
(***************************************************************************)
(* The even/odd test with its own MAX_ITERATIONS of 10 and fs.c's         *)
(* INODE_NUM_BLKS of 10: BASE_DIR then holds 20 entries over 10 blocks of  *)
(* 2, so the turns cross every block boundary up to the full block table,  *)
(* and the table has an inode for the root, BASE_DIR and every file.  The  *)
(* names are BASE_DIR and the pairs <<parity, count>>.                     *)
(***************************************************************************)
EXTENDS ParityTest, TLC

CONSTANTS dir, A

MCNames == {dir} \cup ({EVEN, ODD} \X (0 .. 2 * MAX_ITERATIONS - 1))
MCData == {A}
=============================================================================
