------------------------------ MODULE FreeList ------------------------------
(***************************************************************************)
(* What the block pool expects of its free list: the free blocks in the    *)
(* order in which they are to be reused, none of them twice. The first     *)
(* ones are taken, one that is wanted again is taken out of the middle,    *)
(* and blocks come back, together, at either end.                          *)
(*                                                                         *)
(* FreeBlockQueue implements it by links between the blocks.               *)
(***************************************************************************)
EXTENDS Integers, Sequences

CONSTANTS Blocks

VARIABLES order

Distinct(s) == \A i, j \in 1..Len(s) : s[i] = s[j] => i = j

Init == order \in Seq(Blocks) /\ Distinct(order)

Take(n) == order' = [i \in 1 .. Len(order) - n |-> order[i + n]]

TakeOut(i) ==
    order' = [j \in 1 .. Len(order) - 1 |-> IF j < i THEN order[j] ELSE order[j + 1]]

\* What is there keeps its order, and what comes back is not there already.
Grown ==
    /\ order' \in Seq(Blocks)
    /\ Distinct(order')
    /\ Len(order) < Len(order')

PutBack ==
    /\ Grown
    /\ \A i \in 1..Len(order) : order'[i] = order[i]

PutInFront ==
    /\ Grown
    /\ \A i \in 1..Len(order) : order'[i + (Len(order') - Len(order))] = order[i]

Next ==
    \/ \E n \in 1..Len(order) : Take(n)
    \/ \E i \in 1..Len(order) : TakeOut(i)
    \/ PutBack
    \/ PutInFront

Spec == Init /\ [][Next]_order
=============================================================================
