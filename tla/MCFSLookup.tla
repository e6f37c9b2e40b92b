------------------------------ MODULE MCFSLookup ------------------------------
(***************************************************************************)
(* FSLookup instantiated for TLC, with the scaled layout of MCFS: paths of *)
(* up to three components over two names and the empty component, so that *)
(* every inode of a three-deep tree has a path, and "//a", "/a//b" and "/" *)
(* are among the inputs.                                                   *)
(***************************************************************************)
EXTENDS FSLookup, TLC

CONSTANTS a, b, A, B

MCNames == {a, b}
MCData == {A, B}
MCData1 == {A}

Symmetry == Permutations(MCNames) \cup Permutations(MCData)
=============================================================================
