----------------------------- MODULE MCPromoter -----------------------------
(* A small instance of Promoter: three images, of which two are pushed; the  *)
(* third is of another ref.                                                  *)
EXTENDS Promoter

CONSTANTS d1, d2, d3, b1, b2

MCLabels == [d \in Digests |-> IF d = d3 THEN b2 ELSE b1]
=============================================================================
