---------------------------- MODULE MCEngramHash ----------------------------
EXTENDS EngramHash

\* Tokens 1 and 2 have ids of their own, 9 is a part of an image.
MCTokenMap == (1 :> 1) @@ (2 :> 2) @@ (9 :> 3)

MCPrompts == {<<1, 9, 2>>, <<1, 9, 2, 1, 2>>}

MCRolling(layer, values) == FoldLeft(LAMBDA h, v : (h * 5 + v * layer) % 1009, 7, values)

Symmetry == Permutations(Requests)

MCLocalCopies == {[lo |-> 0, hi |-> 0], [lo |-> 0, hi |-> 20], [lo |-> 8, hi |-> 100]}

\* What EngramHashProofs takes as a hypothesis of EveryNgramFetched.
ASSUME LaidOutHere == LaidOut
=============================================================================
