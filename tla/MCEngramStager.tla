--------------------------- MODULE MCEngramStager ---------------------------
(* Two layers, three steps of one token or two.                              *)
EXTENDS EngramStager
=============================================================================
