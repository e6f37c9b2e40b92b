-------------------------------- MODULE MCFS --------------------------------
(***************************************************************************)
(* FS instantiated for TLC.  fs.c's layout is 512-byte blocks, 32 entries  *)
(* a block, 10 direct blocks, 64 inodes and 10 metadata blocks; here a     *)
(* block is 2 cells, an inode has 2 direct blocks, there are 5 inodes (3   *)
(* usable) and 1 metadata block.  The scaling keeps fs.c's proportions     *)
(* where they matter: a directory's block table (4 entries) is larger than *)
(* the number of usable inodes, as 320 > 62 in fs.c, and the disk is small *)
(* enough for allocation to fail.                                          *)
(***************************************************************************)
EXTENDS FS, TLC

CONSTANTS a, b, A, B

MCNames == {a, b}
MCData == {A, B}

\* one byte value, for runs about structure rather than contents
MCData1 == {A}

Symmetry == Permutations(MCNames) \cup Permutations(MCData)
=============================================================================
