----------------------------- MODULE MCWriteCache -----------------------------
(* Instances of WriteCache for TLC: a piece of two blocks and one of one      *)
(* block, in groups of two blocks.                                            *)
EXTENDS WriteCache

CONSTANTS w1, w2

ShortLast == [p \in {0, 1} |-> IF p = 0 THEN {0, 1} ELSE {0}]
===============================================================================
