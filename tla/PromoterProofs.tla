--------------------------- MODULE PromoterProofs ---------------------------
(* Theorems about Promoter, for every set of images, refs and tags, and      *)
(* about SmokeJob, the smoke test it has made of an image, for any images,   *)
(* times and number of Jobs.                                                 *)
EXTENDS Promoter, SmokeState, FiniteSetTheorems, SequenceTheorems, TLAPS

(***************************************************************************)
(* LastRevision is a maximum: the facts below say that it exists.          *)
(***************************************************************************)

\* Every finite set of numbers with a member has a greatest one.
LEMMA MaxExists ==
    ASSUME NEW S \in SUBSET Nat, IsFiniteSet(S), S # {}
    PROVE  \E n \in S : \A k \in S : k <= n
<1> DEFINE HasMax(T) == \E n \in T : \A k \in T : k <= n
           Bad       == {T \in FiniteSubsetsOf(Nat) : T # {} /\ ~HasMax(T)}
<1> SUFFICES ASSUME Bad # {} PROVE FALSE
    BY DEF FiniteSubsetsOf
<1>1. PICK T \in Bad : \A U \in Bad : <<U, T>> \notin StrictSubsetOrdering(Nat)
    <2>1. Bad \subseteq FiniteSubsetsOf(Nat)
        OBVIOUS
    <2> HIDE DEF Bad
    <2> QED BY <2>1, WFMin, FS_StrictSubsetOrderingWellFounded
<1>2. PICK x \in T : TRUE
    OBVIOUS
<1> DEFINE U == T \ {x}
<1>3. /\ IsFiniteSet(U)
      /\ U \subseteq Nat
      /\ <<U, T>> \in StrictSubsetOrdering(Nat)
    BY FS_RemoveElement DEF FiniteSubsetsOf, StrictSubsetOrdering
<1>4. U \notin Bad
    BY <1>1, <1>3
<1>5. x \in Nat
    BY DEF FiniteSubsetsOf
<1>6. CASE U = {}
    BY <1>2, <1>5, <1>6
<1>7. CASE HasMax(U)
    <2>1. PICK n \in U : \A k \in U : k <= n
        BY <1>7
    <2>2. n \in Nat /\ \A k \in T : k = x \/ k \in U
        BY <1>3, <2>1
    <2>3. HasMax(T)
        <3>1. CASE n <= x
            BY <1>2, <1>3, <1>5, <2>1, <2>2, <3>1
        <3>2. CASE ~(n <= x)
            BY <1>2, <1>3, <1>5, <2>1, <2>2, <3>2
        <3> QED BY <3>1, <3>2
    <2> QED BY <2>3
<1> QED BY <1>3, <1>4, <1>6, <1>7 DEF FiniteSubsetsOf

\* LastRevision is an upper bound of the revisions a state records for a ref.
LEMMA LastRevisionBound ==
    ASSUME NEW state \in States, NEW r \in Refs
    PROVE  /\ LastRevision(state, r) \in Nat
           /\ \A d \in Digests :
                (Seen(state, d) /\ state[d].tag # NoTag /\ state[d].tag[1] = r)
                    => state[d].tag[2] <= LastRevision(state, r)
<1> DEFINE Tagged == {e \in Digests : /\ Seen(state, e)
                                      /\ state[e].tag # NoTag
                                      /\ state[e].tag[1] = r}
           Used == UsedRevisions(state, r)
           f == [d \in Tagged |-> state[d].tag[2]]
<1>1. \A d \in Tagged : state[d].tag[2] \in Nat
    BY DEF Seen, States, Records, Revisions
<1>2. Used = {state[d].tag[2] : d \in Tagged}
    BY DEF UsedRevisions
<1>3. f \in Surjection(Tagged, Used)
    BY <1>2 DEF Surjection
<1>4. IsFiniteSet(Used) /\ Used \in SUBSET Nat
    <2>1. IsFiniteSet(Tagged)
        BY FS_Subset, DigestsAssumption
    <2> HIDE DEF Tagged, Used, f
    <2> QED BY <1>1, <1>2, <1>3, <2>1, FS_Surjection
<1>5. CASE Used = {}
    BY <1>2, <1>5 DEF LastRevision
<1>6. CASE Used # {}
    <2>1. \E n \in Used : \A k \in Used : k <= n
        BY <1>4, <1>6, MaxExists
    <2>2. /\ LastRevision(state, r) \in Used
          /\ \A k \in Used : k <= LastRevision(state, r)
        BY <1>6, <2>1 DEF LastRevision
    <2> QED BY <1>2, <1>4, <2>2
<1> QED BY <1>5, <1>6

-----------------------------------------------------------------------------
(***************************************************************************)
(* Types                                                                   *)
(***************************************************************************)

LEMMA InitialTypes == Empty \in States /\ NoneFound \in [Tags -> Digests \cup {NoDigest}]
BY DEF Empty, States, NoneFound

LEMMA RecordType ==
    ASSUME NEW state \in States, NEW d \in Digests, NEW verdict \in Verdicts,
           NEW tag \in Revisions \cup {NoTag}
    PROVE  Record(state, d, verdict, tag) \in States
BY DEF Record, States, Records

LEMMA RevisionMovedType ==
    ASSUME TypeOK, NEW r \in Revisions, NEW d \in Digests
    PROVE  LET moved == RevisionMoved(r, d)
           IN  /\ DOMAIN moved = DOMAIN revision \cup {r}
               /\ DOMAIN moved \subseteq Revisions
               /\ moved \in [DOMAIN moved -> Digests]
               /\ moved[r] = d
               /\ \A s \in DOMAIN revision : s # r => moved[s] = revision[s]
BY DEF RevisionMoved, TypeOK

\* Where the run is at work on a digest, there is one, and with it its label.
Working ==
    /\ pc \in {"verify", "label", "smoke", "stable", "revision", "save", "write"}
          => cur \in Digests
    /\ pc \in {"smoke", "stable", "revision"} => ref \in Refs /\ ref = LabelOf[cur]
    /\ pc \in {"stable", "revision"} => rev = <<ref, LastRevision(mem, ref) + 1>>

LEMMA RevisionType ==
    ASSUME TypeOK, Working, pc = "revision"
    PROVE  rev \in Revisions /\ cur \in Digests
BY LastRevisionBound DEF TypeOK, Working, Revisions

LEMMA InitTypes == Init => TypeOK /\ Working
BY InitialTypes, FaultsAssumption DEF Init, TypeOK, Working, Revisions

LEMMA NextTypes == TypeOK /\ Working /\ [Next]_vars => TypeOK' /\ Working'
<1> SUFFICES ASSUME TypeOK, Working, [Next]_vars
             PROVE  TypeOK' /\ Working'
    OBVIOUS
<1> USE DEF TypeOK, Working, registry, run, history
<1>1. ASSUME NEW t \in Tags, NEW d \in Digests, CIPush(t, d) PROVE TypeOK' /\ Working'
    BY <1>1 DEF CIPush
<1>2. ASSUME NEW d \in Digests, CIAttest(d) PROVE TypeOK' /\ Working'
    BY <1>2 DEF CIAttest
<1>3. CASE TimerFires
    BY <1>3 DEF TimerFires
<1>4. CASE LoadState
    BY <1>4, InitialTypes, FaultsAssumption DEF LoadState, Exit, Forgotten
<1>5. CASE ListTags
    BY <1>5 DEF ListTags
<1>6. ASSUME NEW t \in Tags, ResolveTag(t) PROVE TypeOK' /\ Working'
    BY <1>6 DEF ResolveTag
<1>7. CASE ListedAll
    BY <1>7 DEF ListedAll
<1>8. ASSUME NEW t \in Tags, Skip(t) PROVE TypeOK' /\ Working'
    BY <1>8 DEF Skip, IsNext
<1>9. ASSUME NEW t \in Tags, Take(t) PROVE TypeOK' /\ Working'
    BY <1>9 DEF Take, IsNext
<1>10. CASE RunDone
    BY <1>10, InitialTypes, FaultsAssumption DEF RunDone, Exit, Forgotten
<1>11. CASE ListError
    BY <1>11, InitialTypes, FaultsAssumption DEF ListError, Exit, Forgotten
<1>12. CASE VerifyOK
    BY <1>12 DEF VerifyOK
<1>13. CASE VerifyError
    BY <1>13, RecordType DEF VerifyError, Verdict, Verdicts
<1>14. CASE LabelRefOK
    BY <1>14, LabelAssumption DEF LabelRefOK
<1>15. CASE LabelRefError
    BY <1>15, RecordType DEF LabelRefError, Verdict, Verdicts
<1>16. CASE SmokePass
    BY <1>16, LastRevisionBound DEF SmokePass, Revisions
<1>17. CASE SmokeFail
    BY <1>17, RecordType DEF SmokeFail, Verdict, Verdicts
<1>18. CASE RetagStable
    BY <1>18 DEF RetagStable
<1>19. CASE RetagStableError
    BY <1>19, RecordType DEF RetagStableError, Verdict, Verdicts
<1>20. CASE RetagRevision
    <2>1. pc = "revision"
        BY <1>20 DEF RetagRevision
    <2>2. rev \in Revisions /\ cur \in Digests
        BY <2>1, RevisionType
    <2>3. /\ DOMAIN revision' \subseteq Revisions
          /\ revision' \in [DOMAIN revision' -> Digests]
        BY <1>20, <2>2, RevisionMovedType DEF RetagRevision
    <2>4. mem' \in States
        BY <1>20, <2>2, RecordType DEF RetagRevision, Verdict, Verdicts
    <2> QED
        BY <1>20, <2>2, <2>3, <2>4 DEF RetagRevision, Verdict
<1>21. CASE RetagRevisionError
    <2>1. pc = "revision"
        BY <1>21 DEF RetagRevisionError
    <2>2. rev \in Revisions /\ cur \in Digests
        BY <2>1, RevisionType
    <2>3. /\ DOMAIN revision' \subseteq Revisions
          /\ revision' \in [DOMAIN revision' -> Digests]
        <3>1. CASE revision' = revision
            BY <3>1
        <3>2. CASE revision' = RevisionMoved(rev, cur)
            BY <2>2, <3>2, RevisionMovedType
        <3> QED BY <1>21, <3>1, <3>2 DEF RetagRevisionError
    <2>4. mem' \in States
        BY <1>21, <2>2, RecordType DEF RetagRevisionError, Verdict, Verdicts
    <2> QED
        BY <1>21, <2>2, <2>3, <2>4 DEF RetagRevisionError, Verdict
<1>22. CASE Truncate
    BY <1>22 DEF Truncate
<1>23. CASE Write
    BY <1>23 DEF Write
<1>24. CASE SaveError
    BY <1>24, InitialTypes, FaultsAssumption DEF SaveError, Exit, Forgotten
<1>25. CASE Crash
    BY <1>25, InitialTypes, FaultsAssumption DEF Crash, Exit, Forgotten
<1>26. CASE UNCHANGED vars
    BY <1>26 DEF vars
<1> QED
    BY <1>1, <1>2, <1>3, <1>4, <1>5, <1>6, <1>7, <1>8, <1>9, <1>10, <1>11, <1>12, <1>13, <1>14, <1>15, <1>16, <1>17, <1>18, <1>19, <1>20, <1>21, <1>22, <1>23, <1>24, <1>25, <1>26 DEF Next, CI, Candidates, process, Save

\* The type invariant holds in every instance.
THEOREM TypeCorrect == Spec => []TypeOK
<1>1. Init => TypeOK /\ Working
    BY InitTypes
<1>2. TypeOK /\ Working /\ [Next]_vars => TypeOK' /\ Working'
    BY NextTypes
<1> QED BY <1>1, <1>2, PTL DEF Spec
-----------------------------------------------------------------------------
(***************************************************************************)
(* Safety. Gated and RecordedRevisionKept are not inductive: they hold      *)
(* because of what the process has established of the digest it is at work *)
(* on (Vetted), and because its memory extends the last completed save     *)
(* (Recorded), so that LastRevision over the memory is beyond every        *)
(* revision any completed save has recorded.                               *)
(***************************************************************************)

Vetted ==
    /\ pc \in {"label", "smoke", "stable", "revision"} => cur \in attested
    /\ pc \in {"stable", "revision"} => cur \in smoked

Kept(state) ==
    \A d \in Digests :
        (Seen(state, d) /\ state[d].verdict = "promoted") =>
            /\ state[d].tag \in DOMAIN revision
            /\ revision[state[d].tag] = d

Recorded ==
    /\ file \in States => file = saved
    /\ file = Absent => saved = Empty
    /\ pc \notin {"idle", "load"} => \A d \in Digests : Seen(saved, d) => mem[d] = saved[d]

IInv == TypeOK /\ Working /\ Vetted /\ Gated /\ Recorded
            /\ Kept(mem) /\ Kept(saved) /\ NeverReprocessed

LEMMA InitIInv == Init => IInv
<1> SUFFICES ASSUME Init PROVE IInv
    OBVIOUS
<1>1. TypeOK /\ Working
    BY InitTypes
<1>2. Vetted /\ Gated /\ Recorded /\ Kept(mem) /\ Kept(saved) /\ NeverReprocessed
    BY RecordAssumption, InitialTypes
    DEF Init, Vetted, Gated, Recorded, Kept, NeverReprocessed, Seen, Empty
<1> QED BY <1>1, <1>2 DEF IInv

\* The revision a digest is being promoted to is recorded for no other one.
LEMMA FreshRevision ==
    ASSUME TypeOK, Working, Kept(mem), pc = "revision",
           NEW d \in Digests, Seen(mem, d), mem[d].verdict = "promoted"
    PROVE  mem[d].tag # rev
<1>1. mem[d].tag \in Revisions
    BY DEF TypeOK, Kept
<1>2. /\ rev = <<ref, LastRevision(mem, ref) + 1>>
      /\ ref \in Refs
      /\ mem \in States
    BY DEF TypeOK, Working
<1>3. mem[d].tag[1] = ref => mem[d].tag[2] <= LastRevision(mem, ref)
    BY <1>1, <1>2, LastRevisionBound, NoTagAssumption
<1>4. LastRevision(mem, ref) \in Nat
    BY <1>2, LastRevisionBound
<1> QED BY <1>1, <1>2, <1>3, <1>4 DEF Revisions

LEMMA RecordOther ==
    ASSUME NEW state \in States, NEW d \in Digests, NEW verdict, NEW tag
    PROVE  \A e \in Digests : e # d => Record(state, d, verdict, tag)[e] = state[e]
BY DEF Record, States

LEMMA RecordFacts ==
    ASSUME NEW state \in States, NEW d \in Digests, NEW verdict \in Verdicts,
           NEW tag \in Revisions \cup {NoTag}
    PROVE  LET after == Record(state, d, verdict, tag)
           IN  /\ after[d] = [verdict |-> verdict, tag |-> tag]
               /\ Seen(after, d)
               /\ \A e \in Digests : e # d => after[e] = state[e]
<1>1. [verdict |-> verdict, tag |-> tag] \in Records
    BY DEF Records
<1> QED BY <1>1, RecordAssumption DEF Record, States, Seen

\* What a step may do to each piece of state, and which action does it.
LEMMA StepEffects ==
    ASSUME [Next]_vars
    PROVE  /\ attested \subseteq attested' /\ smoked \subseteq smoked'
           /\ stable' = stable \/ RetagStable \/ RetagStableError
           /\ revision' = revision \/ RetagRevision \/ RetagRevisionError
           /\ UNCHANGED <<file, saved>> \/ Truncate \/ Write
           /\ \/ UNCHANGED cur
              \/ cur' = NoDigest /\ pc' \in {"idle", "next"}
              \/ \E t \in Tags : Take(t)
           /\ \/ UNCHANGED mem /\ (pc' \in {"idle", "load"} \/ pc \notin {"idle", "load"})
              \/ LoadState
              \/ mem' = Empty /\ pc' = "idle"
              \/ /\ pc \in {"verify", "label", "smoke", "stable"} /\ pc' = "save"
                 /\ \E verdict \in Verdicts \ {"promoted"} :
                        mem' = Record(mem, cur, verdict, NoTag)
              \/ RetagRevision \/ RetagRevisionError
BY DEF Next, CI, Candidates, process, Save, Verdict, Verdicts, Exit, Forgotten,
        vars, registry, run, history,
        CIPush, CIAttest, TimerFires, LoadState, ListTags, ResolveTag, ListedAll, Skip, Take, RunDone, ListError,
        VerifyOK, VerifyError, LabelRefOK, LabelRefError, SmokePass, SmokeFail, RetagStable, RetagStableError,
        RetagRevision, RetagRevisionError, Truncate, Write, SaveError, Crash

LEMMA NextGated == IInv /\ [Next]_vars => Gated'
<1> SUFFICES ASSUME IInv, [Next]_vars PROVE Gated'
    OBVIOUS
<1> USE DEF IInv, TypeOK, Working, Vetted
<1>1. stable' # NoDigest => stable' \in attested' \cap smoked'
    BY StepEffects DEF Gated, RetagStable, RetagStableError
<1>2. \A r \in DOMAIN revision' : /\ revision'[r] \in attested' \cap smoked'
                                  /\ LabelOf[revision'[r]] = r[1]
    <2>1. CASE revision' = revision
        BY <2>1, StepEffects DEF Gated
    <2>2. CASE pc = "revision" /\ revision' = RevisionMoved(rev, cur)
        <3>1. rev \in Revisions /\ cur \in Digests
            BY <2>2, RevisionType
        <3>2. /\ DOMAIN revision' = DOMAIN revision \cup {rev}
              /\ revision'[rev] = cur
              /\ \A r \in DOMAIN revision : r # rev => revision'[r] = revision[r]
            BY <2>2, <3>1, RevisionMovedType
        <3>3. /\ cur \in attested' \cap smoked'
              /\ LabelOf[cur] = rev[1]
            BY <2>2, StepEffects
        <3> QED BY <3>2, <3>3, StepEffects DEF Gated
    <2> QED BY <2>1, <2>2, StepEffects DEF RetagRevision, RetagRevisionError
<1> QED BY <1>1, <1>2 DEF Gated

LEMMA NextVetted == IInv /\ [Next]_vars => Vetted'
<1> SUFFICES ASSUME IInv, [Next]_vars PROVE Vetted'
    OBVIOUS
<1>1. pc' \in {"label", "smoke", "stable", "revision"} =>
          \/ UNCHANGED <<pc, cur>>
          \/ VerifyOK \/ LabelRefOK \/ SmokePass \/ RetagStable
    BY DEF Next, CI, Candidates, process, Save, Verdict, Exit, vars, registry, run, history,
        CIPush, CIAttest, TimerFires, LoadState, ListTags, ResolveTag, ListedAll, Skip, Take, RunDone, ListError,
        VerifyOK, VerifyError, LabelRefOK, LabelRefError, SmokePass, SmokeFail, RetagStable, RetagStableError,
        RetagRevision, RetagRevisionError, Truncate, Write, SaveError, Crash
<1> QED BY <1>1, StepEffects DEF IInv, Vetted, VerifyOK, LabelRefOK, SmokePass, RetagStable

\* Every verdict but a promotion leaves what the memory has already recorded.
LEMMA NextMemory ==
    ASSUME IInv, [Next]_vars
    PROVE  \/ UNCHANGED mem /\ (pc' \in {"idle", "load"} \/ pc \notin {"idle", "load"})
           \/ mem' = saved /\ UNCHANGED <<revision, saved>>
           \/ mem' = Empty /\ pc' = "idle"
           \/ /\ pc \notin {"idle", "load"}
              /\ UNCHANGED <<saved, file>>
              /\ cur \in Digests /\ cur # NoDigest
              /\ \A d \in Digests : d # cur => mem'[d] = mem[d]
              /\ mem'[cur].verdict = "promoted" => mem'[cur].tag = rev /\ RetagRevision
<1> USE DEF IInv, TypeOK, Working
<1>1. CASE LoadState
    BY <1>1, RecordAssumption DEF LoadState, Recorded, registry, run, history, Exit, Forgotten
<1>2. ASSUME pc \in {"verify", "label", "smoke", "stable"}, pc' = "save",
             NEW verdict \in Verdicts \ {"promoted"}, mem' = Record(mem, cur, verdict, NoTag)
      PROVE  /\ pc \notin {"idle", "load"}
             /\ UNCHANGED <<saved, file>>
             /\ cur \in Digests /\ cur # NoDigest
             /\ \A d \in Digests : d # cur => mem'[d] = mem[d]
             /\ mem'[cur].verdict # "promoted"
    <2>1. cur \in Digests /\ cur # NoDigest /\ mem \in States
        BY <1>2, DigestsAssumption
    <2>2. UNCHANGED <<saved, file>>
        BY <1>2, StepEffects DEF Truncate, Write
    <2>3. /\ mem'[cur] = [verdict |-> verdict, tag |-> NoTag]
          /\ \A d \in Digests : d # cur => mem'[d] = mem[d]
        BY <1>2, <2>1, RecordFacts
    <2> QED BY <1>2, <2>1, <2>2, <2>3
<1>3. CASE RetagRevision \/ RetagRevisionError
    <2>1. /\ pc = "revision"
          /\ UNCHANGED <<saved, file>>
          /\ \/ RetagRevision /\ mem' = Record(mem, cur, "promoted", rev)
             \/ mem' = Record(mem, cur, "failed-retag", NoTag)
        BY <1>3 DEF RetagRevision, RetagRevisionError, Verdict, history
    <2>2. cur \in Digests /\ cur # NoDigest /\ mem \in States /\ rev \in Revisions
        BY <2>1, RevisionType, DigestsAssumption
    <2>3. /\ \A d \in Digests : d # cur => mem'[d] = mem[d]
          /\ mem'[cur].verdict = "promoted" => mem'[cur].tag = rev /\ RetagRevision
        <3>1. CASE RetagRevision /\ mem' = Record(mem, cur, "promoted", rev)
            <4>1. mem'[cur] = [verdict |-> "promoted", tag |-> rev]
                BY <2>2, <3>1, RecordFacts DEF Verdicts
            <4>2. \A d \in Digests : d # cur => mem'[d] = mem[d]
                BY <2>2, <3>1, RecordOther
            <4> QED BY <3>1, <4>1, <4>2
        <3>2. CASE mem' = Record(mem, cur, "failed-retag", NoTag)
            <4>1. mem'[cur] = [verdict |-> "failed-retag", tag |-> NoTag]
                BY <2>2, <3>2, RecordFacts DEF Verdicts
            <4>2. \A d \in Digests : d # cur => mem'[d] = mem[d]
                BY <2>2, <3>2, RecordOther
            <4> QED BY <3>2, <4>1, <4>2
        <3> QED BY <2>1, <3>1, <3>2
    <2> QED BY <2>1, <2>2, <2>3
<1> QED BY <1>1, <1>2, <1>3, StepEffects

LEMMA NextRecorded == IInv /\ [Next]_vars => Recorded'
<1> SUFFICES ASSUME IInv, [Next]_vars PROVE Recorded'
    OBVIOUS
<1> USE DEF IInv, TypeOK, Recorded
<1>1. (file' \in States => file' = saved') /\ (file' = Absent => saved' = Empty)
    BY StepEffects, RecordAssumption DEF Truncate, Write
<1>2. ASSUME pc' \notin {"idle", "load"}, NEW d \in Digests, Seen(saved', d)
      PROVE  mem'[d] = saved'[d]
    <2>1. CASE Write
        BY <2>1 DEF Write
    <2>2. CASE UNCHANGED saved
        BY <1>2, <2>2, NextMemory, RecordAssumption DEF NeverReprocessed, Seen
    <2> QED BY <2>1, <2>2, StepEffects DEF Truncate, history
<1> QED BY <1>1, <1>2

LEMMA NextNeverReprocessed == IInv /\ [Next]_vars => NeverReprocessed'
<1> SUFFICES ASSUME IInv, [Next]_vars PROVE NeverReprocessed'
    OBVIOUS
<1> USE DEF IInv, TypeOK, NeverReprocessed
<1>1. CASE \E t \in Tags : Take(t)
    BY <1>1 DEF Take, Recorded, Seen, history
<1>2. CASE UNCHANGED cur
    BY <1>2, StepEffects DEF Truncate, Write, history
<1> QED BY <1>1, <1>2, StepEffects

\* A step that moves a revision tag does not move one recorded as promoted.
LEMMA RevisionStays ==
    ASSUME IInv, [Next]_vars, NEW state, state = mem \/ state = saved,
           NEW d \in Digests, Seen(state, d), state[d].verdict = "promoted"
    PROVE  state[d].tag \in DOMAIN revision' /\ revision'[state[d].tag] = d
<1>1. state[d].tag \in DOMAIN revision /\ revision[state[d].tag] = d
    BY DEF IInv, Kept
<1>2. CASE revision' = revision
    BY <1>1, <1>2
<1>3. CASE pc = "revision" /\ revision' = RevisionMoved(rev, cur)
    <2>1. mem[d] = state[d] /\ Seen(mem, d)
        BY <1>3 DEF IInv, Recorded, Seen
    <2>2. state[d].tag # rev
        BY <1>3, <2>1, FreshRevision DEF IInv
    <2>3. rev \in Revisions /\ cur \in Digests
        BY <1>3, RevisionType DEF IInv
    <2>4. \A r \in DOMAIN revision : r # rev => r \in DOMAIN revision' /\ revision'[r] = revision[r]
        BY <1>3, <2>3, RevisionMovedType DEF IInv
    <2> QED BY <1>1, <2>2, <2>4
<1> QED BY <1>2, <1>3, StepEffects DEF RetagRevision, RetagRevisionError

LEMMA NextKept == IInv /\ [Next]_vars => Kept(mem)' /\ Kept(saved)'
<1> SUFFICES ASSUME IInv, [Next]_vars PROVE Kept(mem)' /\ Kept(saved)'
    OBVIOUS
<1>1. ASSUME NEW d \in Digests, Seen(mem', d), mem'[d].verdict = "promoted"
      PROVE  mem'[d].tag \in DOMAIN revision' /\ revision'[mem'[d].tag] = d
    <2>1. CASE mem' = mem \/ mem' = saved
        BY <1>1, <2>1, RevisionStays
    <2>2. CASE mem' = Empty
        BY <1>1, <2>2 DEF Empty, Seen
    <2>3. CASE mem'[d] = mem[d]
        BY <1>1, <2>3, RevisionStays DEF Seen
    <2>4. CASE d = cur /\ mem'[cur].tag = rev /\ RetagRevision
        <3>1. pc = "revision" /\ revision' = RevisionMoved(rev, cur)
            BY <2>4 DEF RetagRevision
        <3>2. rev \in Revisions /\ cur \in Digests
            BY <3>1, RevisionType DEF IInv
        <3>3. rev \in DOMAIN revision' /\ revision'[rev] = cur
            BY <3>1, <3>2, RevisionMovedType DEF IInv
        <3> QED BY <2>4, <3>3
    <2> QED BY <1>1, <2>1, <2>2, <2>3, <2>4, NextMemory
<1>2. ASSUME NEW d \in Digests, Seen(saved', d), saved'[d].verdict = "promoted"
      PROVE  saved'[d].tag \in DOMAIN revision' /\ revision'[saved'[d].tag] = d
    <2>1. saved' = saved \/ saved' = mem
        BY StepEffects DEF Truncate, Write, history
    <2> QED BY <1>2, <2>1, RevisionStays
<1> QED BY <1>1, <1>2 DEF Kept, Seen

LEMMA Inductive == Spec => []IInv
<1>1. Init => IInv
    BY InitIInv
<1>2. IInv /\ [Next]_vars => IInv'
    BY NextTypes, NextVetted, NextGated, NextRecorded, NextKept, NextNeverReprocessed DEF IInv
<1> QED BY <1>1, <1>2, PTL DEF Spec

\* No tag a consumer pulls ever points at an unvetted digest.
THEOREM GatedAlways == Spec => []Gated
<1>1. IInv => Gated
    BY DEF IInv
<1> QED BY <1>1, Inductive, PTL

\* The revision recorded for a promoted digest is its own for good.
THEOREM RecordedRevisionKeptAlways == Spec => []RecordedRevisionKept
<1>1. IInv => RecordedRevisionKept
    BY DEF IInv, Kept, RecordedRevisionKept
<1> QED BY <1>1, Inductive, PTL

\* A digest with a durable verdict is never taken up again.
THEOREM NeverReprocessedAlways == Spec => []NeverReprocessed
<1>1. IInv => NeverReprocessed
    BY DEF IInv
<1> QED BY <1>1, Inductive, PTL

\* Durable verdicts are final, through any sequence of crashes and retries.
THEOREM VerdictsAreFinal == Spec => VerdictsFinal
<1>1. IInv /\ [Next]_vars =>
          [\A d \in Digests : Seen(saved, d) => saved'[d] = saved[d]]_vars
    BY StepEffects DEF IInv, Recorded, Truncate, Write, history
<1> QED BY <1>1, Inductive, PTL DEF Spec, VerdictsFinal
-----------------------------------------------------------------------------
(***************************************************************************)
(* Between two saves the memory holds exactly what the last save wrote,    *)
(* and at most the verdict on cur more.                                    *)
(***************************************************************************)

MemorySaved ==
    /\ pc \notin {"idle", "load", "save", "write"} => mem = saved
    /\ pc \in {"save", "write"} => \A d \in Digests : d # cur => mem[d] = saved[d]
    /\ pc = "write" => file = Torn
    /\ pc = "smoke" => cur \in attested

LEMMA NextMemorySaved == IInv /\ MemorySaved /\ [Next]_vars => MemorySaved'
<1> SUFFICES ASSUME IInv, MemorySaved, [Next]_vars PROVE MemorySaved'
    OBVIOUS
<1> USE DEF IInv, TypeOK, Working, MemorySaved
<1>1. CASE LoadState
    BY <1>1, RecordAssumption DEF LoadState, Recorded, Exit, registry, history
<1>2. CASE process
    <2>1. UNCHANGED <<saved, cur, file>> /\ pc \notin {"idle", "load", "save", "write"}
        BY <1>2 DEF process, registry, history, Verdict, VerifyOK, VerifyError, LabelRefOK,
            LabelRefError, SmokePass, SmokeFail, RetagStable, RetagStableError,
            RetagRevision, RetagRevisionError
    <2>2. \/ pc' = "save" /\ \E verdict, tag : mem' = Record(mem, cur, verdict, tag)
          \/ pc' \in {"label", "smoke", "stable", "revision"} /\ mem' = mem
        BY <1>2 DEF process, Verdict, VerifyOK, VerifyError, LabelRefOK,
            LabelRefError, SmokePass, SmokeFail, RetagStable, RetagStableError,
            RetagRevision, RetagRevisionError
    <2>3. cur \in Digests /\ mem \in States
        BY <1>2 DEF process, VerifyOK, VerifyError, LabelRefOK,
            LabelRefError, SmokePass, SmokeFail, RetagStable, RetagStableError,
            RetagRevision, RetagRevisionError
    <2>4. pc' = "save" => \A d \in Digests : d # cur => mem'[d] = saved[d]
        BY <2>1, <2>2, <2>3, RecordOther
    <2>5. Vetted'
        BY NextVetted
    <2> QED BY <2>1, <2>2, <2>4, <2>5 DEF Vetted
<1>3. CASE ~LoadState /\ ~process
    BY <1>3 DEF Next, CI, Candidates, Save, Exit, Forgotten, vars, registry, run, history,
        CIPush, CIAttest, TimerFires, ListTags, ResolveTag, ListedAll, Skip, Take,
        RunDone, ListError, Truncate, Write, SaveError, Crash
<1> QED BY <1>1, <1>2, <1>3

-----------------------------------------------------------------------------
(***************************************************************************)
(* The revisions of a ref are numbered without a gap: in the memory and in *)
(* the last save alike, those of a ref are the first n numbers. A verdict  *)
(* without a tag adds none, a promotion adds n + 1, and it is recorded for *)
(* a digest that had no record, so that no number is lost to it either.    *)
(***************************************************************************)

Gapless(state) ==
    \A r \in Refs : \E n \in Nat : UsedRevisions(state, r) = 1..n

\* A verdict without a revision adds none to a digest that had no record.
LEMMA RecordWithoutRevision ==
    ASSUME NEW state \in States, NEW d \in Digests, ~Seen(state, d),
           NEW verdict \in Verdicts, NEW r \in Refs
    PROVE  UsedRevisions(Record(state, d, verdict, NoTag), r) = UsedRevisions(state, r)
<1> DEFINE after == Record(state, d, verdict, NoTag)
           Tagged(s) == {e \in Digests : Seen(s, e) /\ s[e].tag # NoTag /\ s[e].tag[1] = r}
<1>1. after[d].tag = NoTag /\ \A e \in Digests : e # d => after[e] = state[e]
    <2>1. after[d] = [verdict |-> verdict, tag |-> NoTag]
        BY DEF Record, States
    <2> QED BY <2>1, RecordOther
<1> HIDE DEF after
<1>2. Tagged(after) = Tagged(state)
    BY <1>1 DEF Seen
<1>3. \A e \in Tagged(state) : after[e] = state[e]
    BY <1>1
<1>4. /\ UsedRevisions(after, r) = {after[e].tag[2] : e \in Tagged(after)}
      /\ UsedRevisions(state, r) = {state[e].tag[2] : e \in Tagged(state)}
    BY Zenon DEF UsedRevisions
<1> HIDE DEF Tagged
<1>5. UsedRevisions(after, r) = UsedRevisions(state, r)
    BY <1>2, <1>3, <1>4
<1> QED BY <1>5 DEF after

\* A promotion to a revision adds that one, to its own ref only.
LEMMA RecordWithRevision ==
    ASSUME NEW state \in States, NEW d \in Digests, ~Seen(state, d),
           NEW verdict \in Verdicts, NEW tag \in Revisions, NEW r \in Refs
    PROVE  UsedRevisions(Record(state, d, verdict, tag), r) =
               UsedRevisions(state, r) \cup {k \in {tag[2]} : tag[1] = r}
<1> DEFINE after == Record(state, d, verdict, tag)
           Tagged(s) == {e \in Digests : Seen(s, e) /\ s[e].tag # NoTag /\ s[e].tag[1] = r}
<1>1. /\ after[d].tag = tag /\ Seen(after, d) /\ tag # NoTag
      /\ \A e \in Digests : e # d => after[e] = state[e]
    <2>1. after[d] = [verdict |-> verdict, tag |-> tag]
        BY DEF Record, States
    <2>2. Seen(after, d)
        BY RecordFacts
    <2> QED BY <2>1, <2>2, RecordOther, NoTagAssumption
<1> HIDE DEF after
<1>2. Tagged(after) = Tagged(state) \cup {e \in {d} : tag[1] = r}
    BY <1>1 DEF Seen
<1>3. d \notin Tagged(state)
    OBVIOUS
<1>4. \A e \in Tagged(state) : after[e] = state[e]
    BY <1>1, <1>3
<1>5. /\ UsedRevisions(after, r) = {after[e].tag[2] : e \in Tagged(after)}
      /\ UsedRevisions(state, r) = {state[e].tag[2] : e \in Tagged(state)}
    BY Zenon DEF UsedRevisions
<1> HIDE DEF Tagged
<1>6. UsedRevisions(after, r) = UsedRevisions(state, r) \cup {k \in {tag[2]} : tag[1] = r}
    BY <1>1, <1>2, <1>4, <1>5
<1> QED BY <1>6 DEF after

LEMMA LastOfGapless ==
    ASSUME NEW state, NEW r, NEW n \in Nat, UsedRevisions(state, r) = 1..n
    PROVE  LastRevision(state, r) = n
<1>1. CASE n = 0
    <2>1. UsedRevisions(state, r) = {}
        BY <1>1
    <2> QED BY <1>1, <2>1 DEF LastRevision
<1>2. CASE n # 0
    <2>1. n \in 1..n /\ \A k \in 1..n : k <= n
        BY <1>2
    <2>2. UsedRevisions(state, r) # {}
        BY <2>1
    <2>3. LastRevision(state, r) = CHOOSE m \in 1..n : \A k \in 1..n : k <= m
        BY <2>2 DEF LastRevision
    <2>4. \A m \in 1..n : (\A k \in 1..n : k <= m) => m = n
        BY <2>1
    <2> QED BY <2>1, <2>3, <2>4
<1> QED BY <1>1, <1>2

\* The numbering stays without a gap when a verdict is recorded.
LEMMA RecordGapless ==
    ASSUME NEW state \in States, Gapless(state), NEW d \in Digests, ~Seen(state, d),
           NEW verdict \in Verdicts
    PROVE  /\ Gapless(Record(state, d, verdict, NoTag))
           /\ \A r \in Refs :
                Gapless(Record(state, d, verdict, <<r, LastRevision(state, r) + 1>>))
<1>1. Gapless(Record(state, d, verdict, NoTag))
    BY RecordWithoutRevision DEF Gapless
<1> SUFFICES ASSUME NEW r \in Refs
             PROVE  Gapless(Record(state, d, verdict, <<r, LastRevision(state, r) + 1>>))
    BY <1>1
<1>2. PICK n \in Nat : UsedRevisions(state, r) = 1..n
    BY DEF Gapless
<1>3. LastRevision(state, r) = n
    BY <1>2, LastOfGapless
<1> DEFINE tag == <<r, n + 1>>
           after == Record(state, d, verdict, tag)
<1>4. tag \in Revisions
    BY DEF Revisions
<1>5. \A s \in Refs : UsedRevisions(after, s) = UsedRevisions(state, s) \cup {k \in {n + 1} : r = s}
    BY <1>4, RecordWithRevision
<1> HIDE DEF after
<1>6. UsedRevisions(after, r) = 1..(n + 1)
    <2>1. UsedRevisions(after, r) = (1..n) \cup {n + 1}
        BY <1>2, <1>5
    <2>2. (1..n) \cup {n + 1} = 1..(n + 1)
        OBVIOUS
    <2> QED BY <2>1, <2>2
<1>7. \A s \in Refs : s # r => UsedRevisions(after, s) = UsedRevisions(state, s)
    BY <1>5
<1>8. Gapless(after)
    <2>1. n + 1 \in Nat
        OBVIOUS
    <2> QED BY <1>6, <1>7, <2>1 DEF Gapless
<1> QED BY <1>3, <1>8 DEF after

LEMMA NextGapless ==
    ASSUME IInv, MemorySaved, Gapless(mem), Gapless(saved), [Next]_vars
    PROVE  Gapless(mem') /\ Gapless(saved')
<1> USE DEF IInv, TypeOK, Working
<1>1. saved' = saved \/ saved' = mem
    BY StepEffects DEF Truncate, Write, history
<1>2. CASE mem' = saved
    BY <1>1, <1>2
<1>3. CASE mem' = Empty
    <2>1. \A r \in Refs : UsedRevisions(Empty, r) = {}
        BY DEF UsedRevisions, Seen, Empty
    <2>2. 1..0 = {} /\ 0 \in Nat
        OBVIOUS
    <2> QED BY <1>1, <1>3, <2>1, <2>2 DEF Gapless
<1>4. ASSUME pc \in {"verify", "label", "smoke", "stable"},
             NEW verdict \in Verdicts, mem' = Record(mem, cur, verdict, NoTag)
      PROVE  Gapless(mem')
    <2>1. cur \in Digests /\ mem \in States /\ mem = saved /\ ~Seen(saved, cur)
        BY <1>4, DigestsAssumption DEF MemorySaved, NeverReprocessed
    <2> QED BY <1>4, <2>1, RecordGapless
<1>5. CASE RetagRevision \/ RetagRevisionError
    <2>1. /\ pc = "revision"
          /\ \/ mem' = Record(mem, cur, "promoted", rev)
             \/ mem' = Record(mem, cur, "failed-retag", NoTag)
        BY <1>5 DEF RetagRevision, RetagRevisionError, Verdict
    <2>2. cur \in Digests /\ mem \in States /\ ~Seen(mem, cur)
        BY <2>1, DigestsAssumption DEF MemorySaved, NeverReprocessed
    <2>3. ref \in Refs /\ rev = <<ref, LastRevision(mem, ref) + 1>>
        BY <2>1
    <2>4. "promoted" \in Verdicts /\ "failed-retag" \in Verdicts
        BY DEF Verdicts
    <2> QED BY <1>1, <2>1, <2>2, <2>3, <2>4, RecordGapless
<1>6. CASE UNCHANGED mem
    BY <1>1, <1>6
<1>7. CASE LoadState
    BY <1>2, <1>3, <1>7, RecordAssumption DEF LoadState, Recorded, Exit, Forgotten, registry, run, history
<1> QED BY <1>1, <1>3, <1>4, <1>5, <1>6, <1>7, StepEffects

\* Whatever was promoted for other refs and whatever failed in between, the
\* revisions that completed saves record for a ref are the first so many.
THEOREM RevisionsConsecutiveAlways == Spec => []RevisionsConsecutive
<1>1. Init => MemorySaved /\ Gapless(mem) /\ Gapless(saved)
    <2> SUFFICES ASSUME Init PROVE MemorySaved /\ Gapless(mem) /\ Gapless(saved)
        OBVIOUS
    <2>1. \A r \in Refs : UsedRevisions(Empty, r) = {}
        BY DEF UsedRevisions, Seen, Empty
    <2>2. 1..0 = {} /\ 0 \in Nat
        OBVIOUS
    <2>3. Gapless(Empty)
        BY <2>1, <2>2 DEF Gapless
    <2> QED BY <2>3 DEF Init, MemorySaved
<1>2. IInv /\ MemorySaved /\ [Next]_vars => MemorySaved'
    BY NextMemorySaved
<1>3. IInv /\ MemorySaved /\ Gapless(mem) /\ Gapless(saved) /\ [Next]_vars
          => Gapless(mem)' /\ Gapless(saved)'
    <2>1. IInv /\ MemorySaved /\ Gapless(mem) /\ Gapless(saved) /\ [Next]_vars
              => Gapless(mem') /\ Gapless(saved')
        BY NextGapless
    <2> QED BY <2>1 DEF Gapless, UsedRevisions, Seen
<1>4. Gapless(saved) => RevisionsConsecutive
    <2> SUFFICES ASSUME Gapless(saved), NEW r \in Refs
                 PROVE  UsedRevisions(saved, r) = 1..Cardinality(UsedRevisions(saved, r))
        BY DEF RevisionsConsecutive
    <2>1. PICK n \in Nat : UsedRevisions(saved, r) = 1..n
        BY DEF Gapless
    <2>2. Cardinality(1..n) = n
        BY FS_Interval
    <2> QED BY <2>1, <2>2
<1> QED BY <1>1, <1>2, <1>3, <1>4, Inductive, PTL DEF Spec
-----------------------------------------------------------------------------
(***************************************************************************)
(* Promoter implements PromotionLedger: a completed save settles one       *)
(* digest, and every other step moves one tag of one vetted digest.        *)
(***************************************************************************)

LEMMA LedgerInit == Init => Ledger!Init
BY DEF Init, Ledger!Init, Empty

LEMMA LedgerStep == IInv /\ MemorySaved /\ [Next]_vars => [Ledger!Next]_(Ledger!vars)
<1> SUFFICES ASSUME IInv, MemorySaved, [Next]_vars
             PROVE  Ledger!Next \/ UNCHANGED <<attested, smoked, stable, revision, saved>>
    BY DEF Ledger!vars
<1> USE DEF IInv, TypeOK, Working, Vetted
<1>1. ASSUME NEW d \in Digests, CIAttest(d) PROVE Ledger!Attest(d)
    BY <1>1 DEF CIAttest, Ledger!Attest, history, registry
<1>2. ASSUME SmokePass PROVE Ledger!Smoke(cur) /\ cur \in Digests
    BY <1>2 DEF SmokePass, Ledger!Smoke, registry
<1>3. CASE RetagStable \/ RetagStableError
    <2>1. cur \in Digests /\ saved[cur] = NoRecord
        BY <1>3, DigestsAssumption DEF RetagStable, RetagStableError, NeverReprocessed, Seen
    <2> QED BY <1>3, <2>1 DEF RetagStable, RetagStableError, Verdict, history,
            Ledger!Next, Ledger!MoveStable, Ledger!Vetted
<1>4. CASE RetagRevision \/ RetagRevisionError
    <2>1. pc = "revision" /\ UNCHANGED <<attested, smoked, stable, saved>>
        BY <1>4 DEF RetagRevision, RetagRevisionError, history
    <2>2. rev \in Revisions /\ cur \in Digests /\ saved[cur] = NoRecord
        BY <2>1, RevisionType, DigestsAssumption DEF NeverReprocessed, Seen
    <2>3. CASE revision' = revision
        BY <2>1, <2>3
    <2>4. CASE revision' = RevisionMoved(rev, cur)
        <3>1. rev \in DOMAIN revision'
            BY <2>4 DEF RevisionMoved
        <3>2. LabelOf[cur] = rev[1]
            BY <2>1
        <3>3. \A e \in Digests : Ledger!Promoted(e) => saved[e].tag # rev
            BY <2>1, FreshRevision DEF MemorySaved, Ledger!Promoted, Seen
        <3>4. Ledger!MoveRevision(cur)
            BY <2>1, <2>2, <2>4, <3>1, <3>2, <3>3
            DEF RevisionMoved, Ledger!MoveRevision, Ledger!Vetted
        <3> QED BY <2>2, <3>4 DEF Ledger!Next
    <2> QED BY <1>4, <2>3, <2>4 DEF RetagRevision, RetagRevisionError
<1>5. CASE Write
    <2>1. /\ cur \in Digests /\ saved[cur] = NoRecord
          /\ saved' = mem
          /\ UNCHANGED <<attested, smoked, stable, revision>>
        BY <1>5, DigestsAssumption DEF Write, NeverReprocessed, Seen, registry
    <2>2. \A e \in Digests \ {cur} : saved'[e] = saved[e]
        BY <1>5, <2>1 DEF MemorySaved, Write
    <2>3. CASE mem[cur] = NoRecord
        <3>1. saved' = saved
            BY <2>1, <2>2, <2>3 DEF States
        <3> QED BY <2>1, <3>1
    <2>4. CASE mem[cur] # NoRecord
        <3>1. mem[cur] \in Records
            BY <2>1, <2>4 DEF States
        <3>2. mem[cur].verdict = "promoted" =>
                  mem[cur].tag \in DOMAIN revision /\ revision[mem[cur].tag] = cur
            BY <2>1, <2>4 DEF Kept, Seen
        <3>3. Ledger!Settle(cur)
            BY <2>1, <2>2, <3>1, <3>2 DEF Ledger!Settle
        <3> QED BY <2>1, <3>3 DEF Ledger!Next
    <2> QED BY <2>3, <2>4
<1>6. \/ \E d \in Digests : CIAttest(d)
      \/ SmokePass \/ RetagStable \/ RetagStableError
      \/ RetagRevision \/ RetagRevisionError \/ Write
      \/ UNCHANGED <<attested, smoked, stable, revision, saved>>
    BY DEF Next, CI, Candidates, process, Save, vars, registry, run, history,
        CIPush, CIAttest, TimerFires, LoadState, ListTags, ResolveTag, ListedAll, Skip, Take, RunDone, ListError,
        VerifyOK, VerifyError, LabelRefOK, LabelRefError, SmokePass, SmokeFail, RetagStable, RetagStableError,
        RetagRevision, RetagRevisionError, Truncate, Write, SaveError, Crash
<1> QED BY <1>1, <1>2, <1>3, <1>4, <1>5, <1>6 DEF Ledger!Next

\* Whatever crashes and fails, the promoter keeps the ledger's promise.
THEOREM ImplementsLedger == Spec => KeepsLedger
<1>1. Init => Ledger!Init /\ MemorySaved
    BY LedgerInit DEF Init, MemorySaved
<1>2. IInv /\ MemorySaved /\ [Next]_vars => MemorySaved'
    BY NextMemorySaved
<1>3. IInv /\ MemorySaved /\ [Next]_vars => [Ledger!Next]_(Ledger!vars)
    BY LedgerStep
<1> QED BY <1>1, <1>2, <1>3, Inductive, PTL DEF Spec, KeepsLedger, Ledger!Spec

(***************************************************************************)
(* The smoke test                                                          *)
(***************************************************************************)

Smoke == INSTANCE SmokeJob

\* Until a test has created its Job there is room for it; from then on the Job
\* is of its own image, and stays complete.
Mine ==
    /\ (at \in {"configmap", "create"}) => Len(jobs) < MaxJobs
    /\ (at \in {"wait", "get", "passed"}) => (job # 0 /\ jobs[job].image = image)
    /\ (at = "passed") => (jobs[job].phase = "complete")

\* Only an image that works makes its Job complete.
Complete ==
    \A j \in 1..Len(jobs) : (jobs[j].phase = "complete") => (jobs[j].image \in Passing)

SmokeInv == Smoke!TypeOK /\ Mine /\ Complete

\* What a new Job leaves of the others.
LEMMA CreatedKeeps ==
    ASSUME Smoke!TypeOK
    PROVE  /\ Smoke!Created \in Seq(Smoke!Jobs)
           /\ Len(jobs) \in Nat
           /\ Len(Smoke!Created) = Len(jobs) + 1
           /\ \A j \in 1..Len(jobs) : Smoke!Created[j] = jobs[j]
           /\ Smoke!Created[Len(jobs) + 1] = [image |-> image, phase |-> "pending", age |-> 0]
<1> DEFINE new == [image |-> image, phase |-> "pending", age |-> 0]
<1>1. new \in Smoke!Jobs
    BY TicksAssumption DEF Smoke!TypeOK, Smoke!Jobs, Smoke!Phases, Smoke!Active
<1>2. jobs \in Seq(Smoke!Jobs)
    BY DEF Smoke!TypeOK
<1> HIDE DEF new
<1>3. Smoke!Created = Append(jobs, new)
    BY DEF Smoke!Created, new
<1> QED BY <1>1, <1>2, <1>3, AppendProperties, LenProperties DEF new

\* A step of the cluster changes the phase of one Job, and completes it only
\* if its image works, and leaves the Job that is being waited for its end.
LEMMA ClusterKeeps ==
    ASSUME SmokeInv, NEW j \in DOMAIN jobs, Smoke!Cluster(j)
    PROVE  SmokeInv'
<1> USE DEF SmokeInv
<1>1. PICK phase \in Smoke!Phases :
         /\ Smoke!Becomes(j, phase)
         /\ phase = "complete" => jobs[j].image \in Passing
         /\ jobs[j].phase = "complete" => j # job
    BY DEF Smoke!Cluster, Smoke!Schedule, Smoke!Succeed, Smoke!Fail, Smoke!Expire,
           Smoke!Delete, Smoke!Phases, Smoke!Active, Smoke!Finished
<1>2. /\ jobs \in Seq(Smoke!Jobs)
      /\ j \in 1..Len(jobs)
      /\ \A k \in 1..Len(jobs) : jobs[k] \in Smoke!Jobs
    <2>1. jobs \in Seq(Smoke!Jobs)
        BY DEF Smoke!TypeOK
    <2> QED BY <2>1, LenProperties, ElementOfSeq
<1> DEFINE e == [jobs[j] EXCEPT !.phase = phase]
<1>3. e \in Smoke!Jobs /\ e.image = jobs[j].image /\ e.phase = phase
    BY <1>2 DEF Smoke!Jobs
<1>4. jobs' = [jobs EXCEPT ![j] = e] /\ UNCHANGED Smoke!client
    BY <1>1 DEF Smoke!Becomes
<1>5. /\ jobs' \in Seq(Smoke!Jobs)
      /\ Len(jobs') = Len(jobs)
      /\ \A k \in 1..Len(jobs) : jobs'[k] = IF k = j THEN e ELSE jobs[k]
    <2> HIDE DEF e
    <2> QED BY <1>2, <1>3, <1>4, ExceptSeq
<1> HIDE DEF e
<1>6. Smoke!TypeOK'
    BY <1>4, <1>5 DEF Smoke!TypeOK, Smoke!client
<1>7. Mine'
    BY <1>1, <1>2, <1>3, <1>4, <1>5 DEF Mine, Smoke!TypeOK, Smoke!client
<1>8. Complete'
    BY <1>1, <1>2, <1>3, <1>5 DEF Complete
<1> QED BY <1>6, <1>7, <1>8

LEMMA TickKeeps ==
    ASSUME SmokeInv, Smoke!Tick
    PROVE  SmokeInv'
<1> USE DEF SmokeInv
<1> DEFINE A(j) == IF jobs[j].phase \in Smoke!Active /\ jobs[j].age < Deadline
                   THEN jobs[j].age + 1 ELSE jobs[j].age
<1>1. /\ Len(jobs) \in Nat
      /\ DOMAIN jobs = 1..Len(jobs)
      /\ \A k \in 1..Len(jobs) : jobs[k] \in Smoke!Jobs
    <2>1. jobs \in Seq(Smoke!Jobs)
        BY DEF Smoke!TypeOK
    <2> QED BY <2>1, LenProperties, ElementOfSeq
<1>2. jobs' = [j \in 1..Len(jobs) |-> [jobs[j] EXCEPT !.age = A(j)]]
    BY <1>1 DEF Smoke!Tick
<1>3. \A j \in 1..Len(jobs) :
         /\ [jobs[j] EXCEPT !.age = A(j)] \in Smoke!Jobs
         /\ [jobs[j] EXCEPT !.age = A(j)].image = jobs[j].image
         /\ [jobs[j] EXCEPT !.age = A(j)].phase = jobs[j].phase
    <2> SUFFICES ASSUME NEW j \in 1..Len(jobs)
                 PROVE  /\ [jobs[j] EXCEPT !.age = A(j)] \in Smoke!Jobs
                        /\ [jobs[j] EXCEPT !.age = A(j)].image = jobs[j].image
                        /\ [jobs[j] EXCEPT !.age = A(j)].phase = jobs[j].phase
        OBVIOUS
    <2>1. jobs[j].age \in 0..Deadline /\ Deadline \in Nat
        BY <1>1, TicksAssumption DEF Smoke!Jobs
    <2>2. A(j) \in 0..Deadline
        BY <2>1
    <2> HIDE DEF A
    <2> QED BY <1>1, <2>2 DEF Smoke!Jobs
<1> HIDE DEF A
<1>4. /\ jobs' \in Seq(Smoke!Jobs)
      /\ Len(jobs') = Len(jobs)
      /\ \A j \in 1..Len(jobs) : /\ jobs'[j].image = jobs[j].image
                                 /\ jobs'[j].phase = jobs[j].phase
    <2>1. jobs' \in [1..Len(jobs) -> Smoke!Jobs]
        BY <1>2, <1>3
    <2>2. jobs' \in Seq(Smoke!Jobs)
        BY <1>1, <2>1, SeqDef
    <2>3. Len(jobs') = Len(jobs)
        BY <1>1, <2>1, <2>2, LenProperties
    <2> QED BY <1>2, <1>3, <2>2, <2>3
<1>5. UNCHANGED <<at, image, job>> /\ waited' \in 0..Timeout
    BY TicksAssumption DEF Smoke!Tick, Smoke!TypeOK
<1>6. Smoke!TypeOK'
    BY <1>4, <1>5 DEF Smoke!TypeOK
<1>7. Mine'
    BY <1>1, <1>4, <1>5 DEF Mine, Smoke!TypeOK
<1>8. Complete'
    BY <1>4 DEF Complete
<1> QED BY <1>6, <1>7, <1>8

LEMMA RunKeeps ==
    ASSUME SmokeInv, Smoke!Promoter \/ Smoke!Crash \/ \E i \in Images : Smoke!RunFor(i)
    PROVE  SmokeInv'
<1> USE DEF SmokeInv, Smoke!TypeOK, Mine, Complete, Smoke!Places
<1> USE TicksAssumption
<1>1. CASE \E i \in Images : Smoke!RunFor(i)
    BY <1>1 DEF Smoke!RunFor
<1>2. CASE Smoke!EnsureScriptConfigMap
    BY <1>2 DEF Smoke!EnsureScriptConfigMap
<1>3. CASE Smoke!Apply
    <2>1. /\ UNCHANGED <<image, waited>>
          /\ jobs' = Smoke!Created
          /\ job' = Len(jobs) + 1
          /\ at = "create" /\ at' = "wait"
        BY <1>3 DEF Smoke!Apply
    <2>2. Smoke!TypeOK'
        BY <2>1, CreatedKeeps
    <2>3. Mine' /\ Complete'
        BY <2>1, CreatedKeeps
    <2> QED BY <2>2, <2>3
<1>4. CASE Smoke!ApplyError
    <2>1. /\ UNCHANGED <<image, job, waited>>
          /\ jobs' \in {jobs, Smoke!Created}
          /\ at = "create" /\ at' = "failed"
        BY <1>4 DEF Smoke!ApplyError
    <2>2. Smoke!TypeOK'
        BY <2>1, CreatedKeeps
    <2>3. Mine' /\ Complete'
        BY <2>1, CreatedKeeps
    <2> QED BY <2>2, <2>3
<1>5. CASE Smoke!Wait \/ Smoke!WaitError
    BY <1>5 DEF Smoke!Wait, Smoke!WaitError
<1>6. CASE Smoke!Get \/ Smoke!GetError
    BY <1>6 DEF Smoke!Get, Smoke!GetError
<1>7. CASE Smoke!Crash
    BY <1>7 DEF Smoke!Crash
<1> QED BY <1>1, <1>2, <1>3, <1>4, <1>5, <1>6, <1>7 DEF Smoke!Promoter

THEOREM SmokeInvariant == Smoke!Spec => []SmokeInv
<1>1. Smoke!Init => SmokeInv
    BY TicksAssumption, EmptySeq
       DEF Smoke!Init, SmokeInv, Smoke!TypeOK, Smoke!Places, Mine, Complete
<1>2. SmokeInv /\ [Smoke!Next]_(Smoke!vars) => SmokeInv'
    <2> SUFFICES ASSUME SmokeInv, [Smoke!Next]_(Smoke!vars) PROVE SmokeInv'
        OBVIOUS
    <2>1. CASE UNCHANGED Smoke!vars
        BY <2>1 DEF Smoke!vars, Smoke!client, SmokeInv, Smoke!TypeOK, Mine, Complete
    <2> QED BY <2>1, ClusterKeeps, TickKeeps, RunKeeps DEF Smoke!Next
<1> QED BY <1>1, <1>2, PTL DEF Smoke!Spec

\* Jobs and promoter keep their types: there are never more Jobs than created,
\* and the one that is waited for is one of them.
THEOREM SmokeTypeCorrect == Smoke!Spec => []Smoke!TypeOK
<1>1. SmokeInv => Smoke!TypeOK
    BY DEF SmokeInv
<1> QED BY <1>1, SmokeInvariant, PTL

\* An image passes only by a completed Job of its own, for any images, times
\* and bounds, whatever kubectl calls fail and whatever Jobs are left behind.
THEOREM SmokePassTruthfulAlways == Smoke!Spec => []PassTruthful
<1>1. SmokeInv => PassTruthful
    BY DEF SmokeInv, Smoke!TypeOK, Mine, Complete, PassTruthful
<1> QED BY <1>1, SmokeInvariant, PTL
=============================================================================
