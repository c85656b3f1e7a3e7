--------------------------- MODULE Exl3Constants ---------------------------
(* What Exl3Engine and Exl3Server, the server around it, are parameters of.  *)
EXTENDS Naturals

CONSTANTS
    Callers,       \* requests that generate
    Streaming,     \* those that call stream(), the others call generate()
    MaxChunks,     \* bound: the results a job produces before it ends
    RequireModel,  \* EXL3_REQUIRE_MODEL=1
    MayAbandon,    \* consumers may close a stream before its end
    MayFail,       \* loading, encoding and iterating may raise
    NoCaller

ASSUME CallersAssumption == NoCaller \notin Callers
ASSUME StreamingAssumption == Streaming \subseteq Callers
ASSUME ChunksAssumption == MaxChunks \in Nat \ {0}
ASSUME FlagsAssumption == {RequireModel, MayAbandon, MayFail} \subseteq BOOLEAN
=============================================================================
