--------------------------- MODULE PromotionLedger ---------------------------
(***************************************************************************)
(* What the promoter promises to whoever pulls its tags, without any of    *)
(* the process that keeps the promise: the tags move only to images that   *)
(* were attested and passed the GPU smoke, every image is settled at most  *)
(* once, and the revision an image was settled with is never moved.        *)
(*                                                                         *)
(* Promoter implements it (PromoterProofs), through crashes, failed        *)
(* retags and torn state files.                                            *)
(***************************************************************************)
EXTENDS Naturals

CONSTANTS Digests, Revisions, LabelOf, Records, NoDigest, NoRecord

VARIABLES
    attested,    \* digests whose provenance CI attested
    smoked,      \* digests that passed the smoke test
    stable,      \* the digest of the tag "stable"
    revision,    \* the digest of each revision tag
    ledger       \* the final verdict on each digest

vars == <<attested, smoked, stable, revision, ledger>>

Vetted(d) == d \in attested \cap smoked

Promoted(d) == ledger[d] # NoRecord /\ ledger[d].verdict = "promoted"

Init ==
    /\ attested = {}
    /\ smoked = {}
    /\ stable = NoDigest
    /\ revision = [r \in {} |-> NoDigest]
    /\ ledger = [d \in Digests |-> NoRecord]

Attest(d) ==
    /\ attested' = attested \cup {d}
    /\ UNCHANGED <<smoked, stable, revision, ledger>>

Smoke(d) ==
    /\ d \in attested
    /\ smoked' = smoked \cup {d}
    /\ UNCHANGED <<attested, stable, revision, ledger>>

MoveStable(d) ==
    /\ Vetted(d)
    /\ ledger[d] = NoRecord
    /\ stable' = d
    /\ UNCHANGED <<attested, smoked, revision, ledger>>

\* A revision tag may move from an image that was never settled as promoted
\* (its promotion failed or crashed half way), never from one that was.
MoveRevision(d) ==
    /\ Vetted(d)
    /\ ledger[d] = NoRecord
    /\ \E r \in DOMAIN revision' \cap Revisions :
          /\ LabelOf[d] = r[1]
          /\ \A e \in Digests : Promoted(e) => ledger[e].tag # r
          /\ revision' = [s \in DOMAIN revision \cup {r} |-> IF s = r THEN d ELSE revision[s]]
    /\ UNCHANGED <<attested, smoked, stable, ledger>>

Settle(d) ==
    /\ ledger[d] = NoRecord
    /\ ledger'[d] \in Records
    /\ ledger'[d].verdict = "promoted" =>
           ledger'[d].tag \in DOMAIN revision /\ revision[ledger'[d].tag] = d
    /\ \A e \in Digests \ {d} : ledger'[e] = ledger[e]
    /\ UNCHANGED <<attested, smoked, stable, revision>>

Next ==
    \E d \in Digests :
        \/ Attest(d)
        \/ Smoke(d)
        \/ MoveStable(d)
        \/ MoveRevision(d)
        \/ Settle(d)

Spec == Init /\ [][Next]_vars
==============================================================================
