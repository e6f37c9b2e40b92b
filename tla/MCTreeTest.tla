------------------------------ MODULE MCTreeTest ------------------------------
(***************************************************************************)
(* TreeTest instantiated for TLC: every tree of degree and depth 1..3 and  *)
(* up to five directories on a server with four free inodes, so that some  *)
(* trees fit, some fill the table (the case of 19filesystem05) and some    *)
(* overflow it; blocks are plentiful, so inodes are the limit.             *)
(***************************************************************************)
EXTENDS TreeTest, TLC

CONSTANTS z, A

TreeNames == {DirName(d, i) : d \in 1 .. 3, i \in 1 .. 3} \cup {z}
MCData == {A}
=============================================================================
