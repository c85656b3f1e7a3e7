----------------------------- MODULE MCSmokeJob -----------------------------
(* A good image, a bad one and one that hangs, in up to MaxJobs smoke tests. *)
EXTENDS SmokeJob

CONSTANTS good, bad, hung
=============================================================================
