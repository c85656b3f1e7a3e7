---------------------------- MODULE MCBlockHashes ----------------------------
(* Two requests whose prompts hold up to two items.                          *)
EXTENDS BlockHashes, TLC

CONSTANTS r1, r2, a, b, c, t, x, y

\* a and b are of one length, c is longer and may lie across two blocks.
MCLengthOf == [i \in Items |-> IF i = c THEN 2 ELSE 1]

Symmetry == Permutations(Requests)
=============================================================================
