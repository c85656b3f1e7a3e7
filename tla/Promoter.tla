------------------------------ MODULE Promoter ------------------------------
(***************************************************************************)
(* The image promoter: one oneshot process, started again and again by a   *)
(* systemd timer, that takes the candidate images CI pushed, verifies      *)
(* their provenance, smoke-tests them on a GPU host and moves the tags a   *)
(* consumer pulls.                                                         *)
(*                                                                         *)
(* src/internal/promoter/{promote,provenance,registry,smoke,state}.go,     *)
(* src/cmd/promoter/main.go, the systemd units that start it and the CI    *)
(* workflow that feeds it.                                                 *)
(*                                                                         *)
(* Three stores interact: the registry (tags and attestations, written by  *)
(* CI and by the promoter), the state file on the promoter's disk, and the *)
(* memory of the running process, which a crash erases between any two     *)
(* steps.                                                                  *)
(***************************************************************************)
EXTENDS Naturals, FiniteSets

CONSTANTS
    Digests,     \* image digests
    Refs,        \* upstream llama.cpp refs, the values of the ref label
    Tags,        \* the candidate-<sha> tags: their order is the sort order
    LabelOf,     \* the ref label of each image, NoRef where it is missing
    Works,       \* the images that do pass the smoke test on the GPU
    MaxImages,   \* bound on the images CI pushes
    MaxFaults,   \* bound on crashes and on failures that abort a run
    NoDigest, NoRef, NoTag, NoRecord, Absent, Torn

ASSUME DigestsAssumption == IsFiniteSet(Digests) /\ NoDigest \notin Digests
ASSUME RefsAssumption    == NoRef \notin Refs
ASSUME TagsAssumption    == Tags \subseteq Nat /\ IsFiniteSet(Tags)
ASSUME LabelAssumption   == LabelOf \in [Digests -> Refs \cup {NoRef}]
ASSUME WorksAssumption   == Works \subseteq Digests
ASSUME FaultsAssumption  == MaxFaults \in Nat
ASSUME ImagesAssumption  == MaxImages \in Nat

Revisions == Refs \X (Nat \ {0})         \* <<ref, n>> is the tag <ref>-llmkube<n>

ASSUME NoTagAssumption   == NoTag \notin Revisions

Verdicts  == {"failed-provenance", "failed-label", "failed-smoke",
              "failed-retag", "promoted"}
Records   == [verdict : Verdicts, tag : Revisions \cup {NoTag}]
States    == [Digests -> Records \cup {NoRecord}]   \* State.Processed

ASSUME RecordAssumption ==
    NoRecord \notin Records /\ Absent \notin States /\ Torn \notin States /\ Absent # Torn

VARIABLES
    pushed,      \* registry: the digests CI has pushed
    candidate,   \* registry: the digest each candidate tag points at
    attested,    \* registry: the digests that carry a provenance attestation
    stable,      \* registry: the digest of the tag "stable"
    revision,    \* registry: the digest of each revision tag ever pushed
    file,        \* the state file: Absent, Torn (truncated) or a State
    pc,          \* where the run is, "idle" when no process exists
    mem,         \* the State in the memory of the running process
    unresolved,  \* tags ListCandidates has listed and not yet resolved
    found,       \* the candidates of this run still to process: tag -> digest
    cur,         \* the digest process() is at work on
    ref,         \* its label
    rev,         \* the revision tag it is being promoted to
    saved,       \* history: the State the last completed save wrote
    smoked,      \* history: digests a GPU smoke run has passed
    faults       \* crashes and aborting failures so far, bounded by MaxFaults

registry == <<pushed, candidate, attested, stable, revision>>
run      == <<pc, mem, unresolved, found, cur, ref, rev>>
history  == <<saved, smoked>>
vars     == <<registry, file, run, history, faults>>
-----------------------------------------------------------------------------
(* The state file's content as operators: state.go *)

Empty == [d \in Digests |-> NoRecord]

Seen(state, d) == state[d] # NoRecord

Record(state, d, verdict, tag) ==
    [state EXCEPT ![d] = [verdict |-> verdict, tag |-> tag]]

\* The numbers N of the tags <r>-llmkube<N> recorded in state.
UsedRevisions(state, r) ==
    {state[d].tag[2] : d \in {e \in Digests : /\ Seen(state, e)
                                              /\ state[e].tag # NoTag
                                              /\ state[e].tag[1] = r}}

\* Mutant: the prefix is not compared, so every ref counts.
LastRevisionOfAnyRef(state, r) ==
    LET used == UNION {UsedRevisions(state, s) : s \in Refs}
    IN  IF used = {} THEN 0 ELSE CHOOSE n \in used : \A k \in used : k <= n

\* Mutant: every record of the state counts as a revision.
LastRevisionByCount(state, r) == Cardinality({d \in Digests : Seen(state, d)})

LastRevision(state, r) ==
    IF UsedRevisions(state, r) = {} THEN 0
    ELSE CHOOSE n \in UsedRevisions(state, r) :
            \A k \in UsedRevisions(state, r) : k <= n

-----------------------------------------------------------------------------
NoneFound == [t \in Tags |-> NoDigest]

TypeOK ==
    /\ pushed \subseteq Digests
    /\ candidate \in [Tags -> Digests \cup {NoDigest}]
    /\ attested \subseteq Digests
    /\ stable \in Digests \cup {NoDigest}
    /\ DOMAIN revision \subseteq Revisions
    /\ revision \in [DOMAIN revision -> Digests]
    /\ file \in States \cup {Absent, Torn}
    /\ pc \in {"idle", "load", "list", "resolve", "next", "verify", "label",
              "smoke", "stable", "revision", "save", "write"}
    /\ mem \in States
    /\ unresolved \subseteq Tags
    /\ found \in [Tags -> Digests \cup {NoDigest}]
    /\ cur \in Digests \cup {NoDigest}
    /\ ref \in Refs \cup {NoRef}
    /\ rev \in Revisions \cup {NoTag}
    /\ saved \in States
    /\ smoked \subseteq Digests
    /\ faults \in 0..MaxFaults

\* What a process that does not exist remembers.
Forgotten ==
    /\ mem' = Empty
    /\ unresolved' = {}
    /\ found' = NoneFound
    /\ cur' = NoDigest
    /\ ref' = NoRef
    /\ rev' = NoTag

Init ==
    /\ pushed = {}
    /\ candidate = NoneFound
    /\ attested = {}
    /\ stable = NoDigest
    /\ revision = [r \in {} |-> NoDigest]
    /\ file = Absent
    /\ pc = "idle"
    /\ mem = Empty
    /\ unresolved = {}
    /\ found = NoneFound
    /\ cur = NoDigest
    /\ ref = NoRef
    /\ rev = NoTag
    /\ saved = Empty
    /\ smoked = {}
    /\ faults = 0

-----------------------------------------------------------------------------
(* CI: a build job pushes the candidate tag, and only in a later step       *)
(* attests the digest it pushed; a newer push of the branch may cancel the  *)
(* job in between, so the attestation need not follow. A rebuild of the     *)
(* same commit moves its candidate tag.                                     *)

CIPush(t, d) ==
    /\ candidate[t] # d
    /\ Cardinality(pushed \cup {d}) <= MaxImages
    /\ candidate' = [candidate EXCEPT ![t] = d]
    /\ pushed' = pushed \cup {d}
    /\ UNCHANGED <<attested, stable, revision, file, run, history, faults>>

CIAttest(d) ==
    /\ d \in pushed \ attested
    /\ attested' = attested \cup {d}
    /\ UNCHANGED <<pushed, candidate, stable, revision, file, run, history, faults>>

-----------------------------------------------------------------------------
(* The run: RunOnce -> Pipeline.Run *)

\* The timer starts the oneshot unit; it never runs twice at once.
TimerFires ==
    /\ pc = "idle"
    /\ pc' = "load"
    /\ UNCHANGED <<registry, file, mem, unresolved, found, cur, ref, rev, history, faults>>

\* The process is over: it returned (or was killed) and its memory is gone.
Exit ==
    /\ pc' = "idle"
    /\ Forgotten
\* Mutant: an unreadable state file is taken for a missing one.
LoadStateHeals ==
    /\ pc = "load"
    /\ mem' = IF file \in States THEN file ELSE Empty
    /\ pc' = "list"
    /\ UNCHANGED <<registry, file, unresolved, found, cur, ref, rev, history, faults>>

LoadState ==
    /\ pc = "load"
    /\ \/ /\ file \in {Absent} \cup States
          /\ mem' = IF file = Absent THEN Empty ELSE file
          /\ pc' = "list"
          /\ UNCHANGED <<unresolved, found, cur, ref, rev>>
       \/ file = Torn /\ Exit               \* "load state: ..."
    /\ UNCHANGED <<registry, file, history, faults>>

\* crane.ListTags, filtered on the prefix candidate-.
ListTags ==
    /\ pc = "list"
    /\ unresolved' = {t \in Tags : candidate[t] # NoDigest}
    /\ pc' = "resolve"
    /\ UNCHANGED <<registry, file, mem, found, cur, ref, rev, history, faults>>

\* crane.Digest of one listed tag: CI may move tags between two of them.
ResolveTag(t) ==
    /\ pc = "resolve"
    /\ t \in unresolved
    /\ found' = [found EXCEPT ![t] = candidate[t]]
    /\ unresolved' = unresolved \ {t}
    /\ UNCHANGED <<registry, file, pc, mem, cur, ref, rev, history, faults>>

ListedAll ==
    /\ pc = "resolve"
    /\ unresolved = {}
    /\ pc' = "next"
    /\ UNCHANGED <<registry, file, mem, unresolved, found, cur, ref, rev, history, faults>>

\* The registry does not answer a listing or a digest lookup: the run aborts.
ListError ==
    /\ pc = "list" \/ (pc = "resolve" /\ unresolved # {})
    /\ faults < MaxFaults
    /\ faults' = faults + 1
    /\ Exit                                  \* "list candidates: ..."
    /\ UNCHANGED <<registry, file, history>>

\* The candidates are processed in the order of their tags.
IsNext(t) ==
    /\ found[t] # NoDigest
    /\ \A u \in Tags : found[u] # NoDigest => t <= u

Skip(t) ==
    /\ pc = "next"
    /\ IsNext(t)
    /\ Seen(mem, found[t])
    /\ found' = [found EXCEPT ![t] = NoDigest]
    /\ UNCHANGED <<registry, file, pc, mem, unresolved, cur, ref, rev, history, faults>>
\* Mutant: the run does not ask whether the state has seen the digest.
TakeUnseen(t) ==
    /\ pc = "next"
    /\ IsNext(t)
    /\ cur' = found[t]
    /\ found' = [found EXCEPT ![t] = NoDigest]
    /\ pc' = "verify"
    /\ UNCHANGED <<registry, file, mem, unresolved, ref, rev, history, faults>>

Take(t) ==
    /\ pc = "next"
    /\ IsNext(t)
    /\ ~Seen(mem, found[t])
    /\ cur' = found[t]
    /\ found' = [found EXCEPT ![t] = NoDigest]
    /\ pc' = "verify"
    /\ UNCHANGED <<registry, file, mem, unresolved, ref, rev, history, faults>>

RunDone ==
    /\ pc = "next"
    /\ found = NoneFound
    /\ Exit
    /\ UNCHANGED <<registry, file, history, faults>>

-----------------------------------------------------------------------------
(* process: verify -> label -> smoke -> retag, one verdict recorded *)

Verdict(verdict, tag) ==
    /\ mem' = Record(mem, cur, verdict, tag)
    /\ pc' = "save"
\* Mutant: verification fails open.
VerifyOpen ==
    /\ pc = "verify"
    /\ pc' = "label"
    /\ UNCHANGED <<registry, file, mem, unresolved, found, cur, ref, rev, history, faults>>

VerifyOK ==
    /\ pc = "verify"
    /\ cur \in attested
    /\ pc' = "label"
    /\ UNCHANGED <<registry, file, mem, unresolved, found, cur, ref, rev, history, faults>>
\* Mutant: a candidate that does not verify aborts the whole run.
VerifyAborts ==
    /\ pc = "verify"
    /\ Exit
    /\ UNCHANGED <<registry, file, history, faults>>

\* cosign finds no attestation, or cannot reach the registry or Sigstore.
VerifyError ==
    /\ pc = "verify"
    /\ Verdict("failed-provenance", NoTag)
    /\ UNCHANGED <<registry, file, unresolved, found, cur, ref, rev, history, faults>>

LabelRefOK ==
    /\ pc = "label"
    /\ LabelOf[cur] # NoRef
    /\ ref' = LabelOf[cur]
    /\ pc' = "smoke"
    /\ UNCHANGED <<registry, file, mem, unresolved, found, cur, rev, history, faults>>

\* The config cannot be read, or the image has no such label.
LabelRefError ==
    /\ pc = "label"
    /\ Verdict("failed-label", NoTag)
    /\ UNCHANGED <<registry, file, unresolved, found, cur, ref, rev, history, faults>>

\* RunFor returned true: the Job ran to completion, so every check passed.
SmokePass ==
    /\ pc = "smoke"
    /\ cur \in Works
    /\ smoked' = smoked \cup {cur}
    /\ rev' = <<ref, LastRevision(mem, ref) + 1>>
    /\ pc' = "stable"
    /\ UNCHANGED <<registry, file, mem, unresolved, found, cur, ref, saved, faults>>

\* The image fails a check, or the Job cannot be created, scheduled or read.
SmokeFail ==
    /\ pc = "smoke"
    /\ Verdict("failed-smoke", NoTag)
    /\ UNCHANGED <<registry, file, unresolved, found, cur, ref, rev, history, faults>>

RevisionMoved(r, d) ==
    [s \in DOMAIN revision \cup {r} |-> IF s = r THEN d ELSE revision[s]]

RetagStable ==
    /\ pc = "stable"
    /\ stable' = cur
    /\ pc' = "revision"
    /\ UNCHANGED <<pushed, candidate, attested, revision, file, mem, unresolved,
                   found, cur, ref, rev, history, faults>>

\* A retag that fails: the registry may or may not have applied it.
RetagStableError ==
    /\ pc = "stable"
    /\ stable' \in {stable, cur}
    /\ Verdict("failed-retag", NoTag)
    /\ UNCHANGED <<pushed, candidate, attested, revision, file, unresolved,
                   found, cur, ref, rev, history, faults>>

RetagRevision ==
    /\ pc = "revision"
    /\ revision' = RevisionMoved(rev, cur)
    /\ Verdict("promoted", rev)
    /\ UNCHANGED <<pushed, candidate, attested, stable, file, unresolved,
                   found, cur, ref, rev, history, faults>>
\* Mutant: the error of the second retag is only logged.
RetagRevisionLogged ==
    /\ pc = "revision"
    /\ revision' \in {revision, RevisionMoved(rev, cur)}
    /\ Verdict("promoted", rev)
    /\ UNCHANGED <<pushed, candidate, attested, stable, file, unresolved,
                   found, cur, ref, rev, history, faults>>

RetagRevisionError ==
    /\ pc = "revision"
    /\ revision' \in {revision, RevisionMoved(rev, cur)}
    /\ Verdict("failed-retag", NoTag)
    /\ UNCHANGED <<pushed, candidate, attested, stable, file, unresolved,
                   found, cur, ref, rev, history, faults>>

-----------------------------------------------------------------------------
(* State.Save: os.WriteFile truncates the file, then writes it *)

Truncate ==
    /\ pc = "save"
    /\ file' = Torn
    /\ pc' = "write"
    /\ UNCHANGED <<registry, mem, unresolved, found, cur, ref, rev, history, faults>>

Write ==
    /\ pc = "write"
    /\ file' = mem
    /\ saved' = mem
    /\ pc' = "next"
    /\ cur' = NoDigest
    /\ ref' = NoRef
    /\ rev' = NoTag
    /\ UNCHANGED <<registry, mem, unresolved, found, smoked, faults>>

\* MkdirAll or the open fails (nothing changed), or the write does (torn).
SaveError ==
    /\ pc \in {"save", "write"}
    /\ faults < MaxFaults
    /\ faults' = faults + 1
    /\ Exit                                  \* "save state: ..."
    /\ UNCHANGED <<registry, file, history>>

\* The process is killed, or its host goes down, between two steps.
Crash ==
    /\ pc # "idle"
    /\ faults < MaxFaults
    /\ faults' = faults + 1
    /\ Exit
    /\ UNCHANGED <<registry, file, history>>

-----------------------------------------------------------------------------
CI == \/ \E t \in Tags, d \in Digests : CIPush(t, d)
      \/ \E d \in Digests : CIAttest(d)

Candidates ==
    \/ ListTags
    \/ \E t \in Tags : ResolveTag(t)
    \/ ListedAll
    \/ \E t \in Tags : Skip(t) \/ Take(t)
    \/ RunDone

process ==
    \/ VerifyOK     \/ VerifyError
    \/ LabelRefOK   \/ LabelRefError
    \/ SmokePass    \/ SmokeFail
    \/ RetagStable  \/ RetagStableError
    \/ RetagRevision \/ RetagRevisionError

Save == Truncate \/ Write

Next ==
    \/ CI
    \/ TimerFires \/ LoadState
    \/ Candidates \/ ListError
    \/ process
    \/ Save \/ SaveError
    \/ Crash

Spec == Init /\ [][Next]_vars

(* The timer keeps firing and a process that is not killed runs on. Which    *)
(* verdict a candidate gets, and what CI does, is not constrained; crashes   *)
(* and failures that abort a run stop eventually, by their bound MaxFaults.  *)
Fairness ==
    /\ WF_vars(TimerFires \/ LoadState)
    /\ WF_vars(Candidates)
    /\ WF_vars(process)
    /\ WF_vars(Save)

FairSpec == Spec /\ Fairness
-----------------------------------------------------------------------------
(* Properties *)

\* A tag a consumer pulls only ever points at a digest whose provenance was
\* verified and that passed the GPU smoke, and a revision tag names the
\* digest's own ref: whatever fails or crashes, in whatever order candidates
\* come, promote.go never publishes an unvetted image.
Gated ==
    /\ stable # NoDigest => stable \in attested \cap smoked
    /\ \A r \in DOMAIN revision :
          /\ revision[r] \in attested \cap smoked
          /\ LabelOf[revision[r]] = r[1]

\* The revision recorded for a promoted digest is that digest's for good: no
\* later run, after any crash or failure, hands its number to another image.
\* This is what LastRevision over the state file is for.
RecordedRevisionKept ==
    \A d \in Digests :
        (Seen(saved, d) /\ saved[d].verdict = "promoted") =>
            /\ saved[d].tag \in DOMAIN revision
            /\ revision[saved[d].tag] = d

\* The revisions recorded for a ref are numbered from 1 without a gap,
\* whatever was promoted for other refs and whatever failed in between.
RevisionsConsecutive ==
    \A r \in Refs : UsedRevisions(saved, r) = 1..Cardinality(UsedRevisions(saved, r))

\* A digest with a durable verdict is never processed again: not by a later
\* run, and not under a second candidate tag of the same digest in this run.
NeverReprocessed ==
    cur # NoDigest => ~Seen(saved, cur)

\* A verdict, once durable, is never changed or lost by a later save,
\* whatever runs were aborted or killed in between.
VerdictsFinal ==
    [][\A d \in Digests : Seen(saved, d) => saved'[d] = saved[d]]_vars

Settled(d) == file \in States /\ Seen(file, d)

\* Halt-and-continue: a candidate that stays listed gets its verdict, whatever
\* becomes of the other candidates, unless a crash tore the state file.
CandidatesSettle ==
    \A d \in Digests :
        <>[](\E t \in Tags : candidate[t] = d) => <>(Settled(d) \/ file = Torn)

\* The run implements the ledger: verdicts are settled by completed saves.
Ledger == INSTANCE PromotionLedger WITH ledger <- saved
KeepsLedger == Ledger!Spec

-----------------------------------------------------------------------------
(* What the documents say *)

\* README.md:378 calls the revision tags immutable.
RevisionTagsImmutable ==
    [][\A r \in DOMAIN revision : revision'[r] = revision[r]]_vars
=============================================================================
