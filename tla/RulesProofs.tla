------------------------------ MODULE RulesProofs ------------------------------
(****************************************************************************)
(* What the decisions of Rules come to for every input: the gates, the      *)
(* transfers and the compositions, what a lookup finds, what retention      *)
(* keeps, what a container reads back, where its payload settles, and how   *)
(* numbers round, with the lemmas on folds over places and over sets they   *)
(* rest on.                                                                 *)
(****************************************************************************)
EXTENDS Rules, FiniteSetTheorems, TLAPS

-----------------------------------------------------------------------------
(* A class whose verdict is "restored" has a demonstration within the scope
   of the evidence, and none there that contradicts it. *)
LEMMA RestoredIsDemonstrated ==
    ASSUME NEW class, NEW e, e.asOf \in Int,
           \A p \in e.proofs : p.proven \in Int /\ p.expires \in Int,
           Rq!Verdict(e, class) = "restored"
    PROVE  Rq!Demonstrated(class, e.build, e.binary, e.model, e)
<1> DEFINE scope    == {p \in e.proofs : Rq!InScope(e, p, class)}
           outcomes == {p.outcome : p \in scope}
<1>1. /\ 0 \notin {e.build, e.binary, e.model}
      /\ "diverged" \notin outcomes
      /\ outcomes = {"restored_and_matched"}
  BY DEF Rq!Verdict
<1>2. PICK q \in scope : q.outcome = "restored_and_matched"
  BY <1>1
<1> DEFINE about == {p \in e.proofs : /\ <<p.class, p.build, p.binary, p.model>>
                                           = <<class, e.build, e.binary, e.model>>
                                      /\ e.asOf \in p.proven .. p.expires - 1
                                      /\ p.expires - p.proven <= 2
                                      /\ p.wellFormed
                                      /\ 0 \notin {p.sha, p.record}
                                      /\ e.records[p.record] = p.sha}
<1>3. q \in about
  BY <1>2 DEF Rq!InScope, Rq!ProofValid
<1>4. class \in Rq!StateClasses
  BY <1>2 DEF Rq!InScope, Rq!ProofValid
<1>5. ASSUME NEW p \in about, p.outcome = "diverged"
      PROVE  FALSE
  <2>1. p.proven < p.expires
    BY <1>5
  <2>2. Rq!ProofValid(p)
    BY <1>1, <1>4, <1>5, <2>1 DEF Rq!ProofValid, Rq!Outcomes
  <2>3. p \in scope
    BY <1>5, <2>2 DEF Rq!InScope
  <2> QED
    BY <1>1, <1>5, <2>3
<1> QED
  BY <1>2, <1>3, <1>5 DEF Rq!Demonstrated

(* Where a gated class meets no problem, the evidence is of the very build,
   binary and model the artifact is restored on, and its verdict is
   "restored". *)
LEMMA NoGatedProblem ==
    ASSUME NEW class, NEW props, NEW who, NEW wanted, NEW e,
           Rq!GatedProblems(class, props, who, wanted, e) = {}
    PROVE  /\ e # None
           /\ e.build = IF who.build # 0 THEN who.build ELSE props.build
           /\ e.binary = who.binary
           /\ e.model = wanted
           /\ Rq!Verdict(e, class) = "restored"
<1> DEFINE build == IF who.build # 0 THEN who.build ELSE props.build
           tests == IF e = None THEN {<<"unproven", TRUE>>}
                    ELSE {<<"build", build # 0 /\ e.build # build>>,
                          <<"binary", who.binary = 0 \/ e.binary # who.binary>>,
                          <<"model", wanted = 0 \/ e.model # wanted>>,
                          <<"verdict", Rq!Verdict(e, class) # "restored">>}
           all   == tests \union {<<"support", class \notin props.supports>>,
                                  <<"unknownBuild", build = 0>>}
<1>1. {t[1] : t \in {u \in all : u[2]}} = {}
  BY DEF Rq!GatedProblems
<1> HIDE DEF all
<1>2. ASSUME NEW u \in all
      PROVE  ~u[2]
  BY <1>1
<1> USE DEF all
<1>3. e # None
  <2> SUFFICES ASSUME e = None PROVE FALSE
    OBVIOUS
  <2>1. <<"unproven", TRUE>> \in all
    OBVIOUS
  <2> QED
    BY <1>2, <2>1
<1>4. build # 0
  <2>1. <<"unknownBuild", build = 0>> \in all
    OBVIOUS
  <2> QED
    BY <1>2, <2>1
<1>5. e.build = build
  <2>1. <<"build", build # 0 /\ e.build # build>> \in all
    BY <1>3
  <2> QED
    BY <1>2, <1>4, <2>1
<1>6. e.binary = who.binary
  <2>1. <<"binary", who.binary = 0 \/ e.binary # who.binary>> \in all
    BY <1>3
  <2> QED
    BY <1>2, <2>1
<1>7. e.model = wanted
  <2>1. <<"model", wanted = 0 \/ e.model # wanted>> \in all
    BY <1>3
  <2> QED
    BY <1>2, <2>1
<1>8. Rq!Verdict(e, class) = "restored"
  <2>1. <<"verdict", Rq!Verdict(e, class) # "restored">> \in all
    BY <1>3
  <2> QED
    BY <1>2, <2>1
<1> QED
  BY <1>3, <1>5, <1>6, <1>7, <1>8
(* What a call is of belongs to its family. *)
CallInv ==
    /\ call.rule = "retention" => call.of \in Retentions
    /\ call.rule = "selection" => call.of \in Selections
    /\ call.rule = "composition" => call.of \in Compositions
    /\ call.rule = "transfer" => call.of \in Transfers
    /\ call.rule = "restore" => call.of \in Restores
    /\ call.rule = "hybrid" => call.of \in Hybrids
    /\ call.rule = "container" => call.of \in Segmentations
    /\ call.rule = "headerLength" => call.of \in Lengths
    /\ call.rule = "plain" => call.of \in PlainStates
    /\ call.rule = "hybridSize" => call.of \in HybridStates
    /\ call.rule = "layered" => call.of \in LayeredStates
    /\ call.rule = "align" => call.of \in Tokenizations
    /\ call.rule = "geometry" => call.of \in Geometries
    /\ call.rule = "translate" => call.of \in Translations
    /\ call.rule = "layers" => call.of \in LayerScores
    /\ call.rule = "round" => call.of \in 0..255
    /\ call.rule = "header" => call.of \in Headers
    /\ call.rule = "appendix" => call.of \in Appendices
    /\ call.rule = "prompt" => call.of \in Prompts
    /\ call.rule = "pages" => call.of \in Tables
    /\ call.rule = "texts" => call.of \in Texts
    /\ call.rule = "request" => call.of \in Requests
    /\ call.rule = "rows" => call.of \in Injections
    /\ call.rule = "lookup" => call.of \in Lookups

LEMMA CallsAreOfTheirFamily == Spec => []CallInv
<1>1. Init => CallInv
  BY DEF Init, CallInv, Idle
<1>2. CallInv /\ [Next]_call => CallInv'
  <2> SUFFICES ASSUME CallInv, [Next]_call
               PROVE  CallInv'
    OBVIOUS
  <2>1. CASE UNCHANGED call
    BY <2>1 DEF CallInv
  <2>2. CASE PlanRetention
    BY <2>2 DEF CallInv, PlanRetention
  <2>3. CASE SelectManifests
    BY <2>3 DEF CallInv, SelectManifests
  <2>4. CASE PlanComposition
    BY <2>4 DEF CallInv, PlanComposition
  <2>5. CASE PlanTransfer
    BY <2>5 DEF CallInv, PlanTransfer
  <2>6. CASE CheckRestore
    BY <2>6 DEF CallInv, CheckRestore
  <2>7. CASE CheckHybrid
    BY <2>7 DEF CallInv, CheckHybrid
  <2>8. CASE WriteContainer
    BY <2>8 DEF CallInv, WriteContainer
  <2>9. CASE WriteHeader
    BY <2>9 DEF CallInv, WriteHeader
  <2>10. CASE SizePlain
    BY <2>10 DEF CallInv, SizePlain
  <2>11. CASE SizeHybrid
    BY <2>11 DEF CallInv, SizeHybrid
  <2>12. CASE SizeLayered
    BY <2>12 DEF CallInv, SizeLayered
  <2>13. CASE AlignTokens
    BY <2>13 DEF CallInv, AlignTokens
  <2>14. CASE FitGeometry
    BY <2>14 DEF CallInv, FitGeometry
  <2>15. CASE TranslateCache
    BY <2>15 DEF CallInv, TranslateCache
  <2>16. CASE SelectLayers
    BY <2>16 DEF CallInv, SelectLayers
  <2>17. CASE Round
    <3>1. 2^8 = 256
      OBVIOUS
    <3> QED
      BY <2>17, <3>1 DEF CallInv, Round
  <2>18. CASE ReadHeader
    BY <2>18 DEF CallInv, ReadHeader
  <2>19. CASE FindAppendix
    BY <2>19 DEF CallInv, FindAppendix
  <2>20. CASE ReadPrompt
    BY <2>20 DEF CallInv, ReadPrompt
  <2>21. CASE AskForPages
    BY <2>21 DEF CallInv, AskForPages
  <2>22. CASE HashTexts
    BY <2>22 DEF CallInv, HashTexts
  <2>23. CASE MatchRequest
    BY <2>23 DEF CallInv, MatchRequest
  <2>24. CASE MoveRows
    BY <2>24 DEF CallInv, MoveRows
  <2>25. CASE LookUp
    BY <2>25 DEF CallInv, LookUp
  <2>26. CASE Return
    BY <2>26 DEF CallInv, Return, Idle
  <2> QED
    BY <2>1, <2>2, <2>3, <2>4, <2>5, <2>6, <2>7, <2>8, <2>9, <2>10, <2>11, <2>12,
       <2>13, <2>14, <2>15, <2>16, <2>17, <2>18, <2>19, <2>20, <2>21, <2>22, <2>23,
       <2>24, <2>25, <2>26 DEF Next
<1> QED
  BY <1>1, <1>2, PTL DEF Spec

-----------------------------------------------------------------------------
(* Check admits nothing gated without its demonstration, and nothing with
   checkpoints for a runtime that does not persist them in their format. *)
LEMMA RestoredIsGated ==
    ASSUME NEW c \in Restores,
           Rq!Check(Rq!ForArtifact(c.artifact), c.props, c.who, c.evidence) = {}
    PROVE  /\ \A class \in c.artifact.carries :
                 /\ c.evidence # None
                 /\ Rq!Demonstrated(class,
                       IF c.who.build # 0 THEN c.who.build ELSE c.props.build,
                       c.who.binary,
                       IF c.who.model # 0 THEN c.who.model
                       ELSE Rq!ForArtifact(c.artifact).model,
                       c.evidence)
           /\ c.artifact.checkpoints > 0 =>
                 /\ c.props.persistence
                 /\ c.artifact.format \in {0, c.props.format}
<1> DEFINE req    == Rq!ForArtifact(c.artifact)
           wanted == IF c.who.model # 0 THEN c.who.model ELSE req.model
           found  == IF c.who.identity # 0 THEN c.who.identity ELSE c.props.model
           tests  == {<<"version", req.version # 0 /\ c.props.version # req.version>>,
                      <<"persistence", req.persistence /\ ~c.props.persistence>>,
                      <<"format", /\ req.persistence /\ c.props.persistence
                                  /\ req.format # 0 /\ c.props.format # req.format>>,
                      <<"identity", wanted # 0 /\ found # wanted>>,
                      <<"kv", req.kv # 0 /\ c.props.kv \notin {0, req.kv}>>}
           gated(k) == Rq!GatedProblems(k, c.props, c.who, wanted, c.evidence)
<1>1. /\ {t[1] : t \in {u \in tests : u[2]}} = {}
      /\ UNION {gated(k) : k \in req.gated} = {}
  <2> HIDE DEF tests, gated
  <2>1. {t[1] : t \in {u \in tests : u[2]}} \union UNION {gated(k) : k \in req.gated} = {}
    BY DEF Rq!Check, tests, gated
  <2> QED
    BY <2>1
<1>2. ASSUME NEW u \in tests
      PROVE  ~u[2]
  <2> HIDE DEF tests
  <2> QED
    BY <1>1
<1>3. ASSUME NEW k \in c.artifact.carries
      PROVE  gated(k) = {}
  <2>1. k \in req.gated
    BY DEF Rq!ForArtifact
  <2> HIDE DEF gated
  <2> QED
    BY <1>1, <2>1
<1>4. ASSUME NEW k \in c.artifact.carries
      PROVE  /\ c.evidence # None
             /\ Rq!Demonstrated(k, IF c.who.build # 0 THEN c.who.build ELSE c.props.build,
                                c.who.binary, wanted, c.evidence)
  <2>1. gated(k) = {}
    BY <1>3
  <2> HIDE DEF wanted
  <2>2. /\ c.evidence # None
        /\ c.evidence.build = IF c.who.build # 0 THEN c.who.build ELSE c.props.build
        /\ c.evidence.binary = c.who.binary
        /\ c.evidence.model = wanted
        /\ Rq!Verdict(c.evidence, k) = "restored"
    BY <2>1, NoGatedProblem
  <2>3. /\ c.evidence.asOf \in Int
        /\ \A p \in c.evidence.proofs : p.proven \in Int /\ p.expires \in Int
    BY <2>2, EvidenceAssumption
  <2>4. Rq!Demonstrated(k, c.evidence.build, c.evidence.binary, c.evidence.model, c.evidence)
    BY <2>2, <2>3, RestoredIsDemonstrated
  <2> QED
    BY <2>2, <2>4
<1>5. c.artifact.checkpoints > 0 =>
         /\ c.props.persistence
         /\ c.artifact.format \in {0, c.props.format}
  <2> SUFFICES ASSUME c.artifact.checkpoints > 0
               PROVE  /\ c.props.persistence
                      /\ c.artifact.format \in {0, c.props.format}
    OBVIOUS
  <2>1. req.persistence /\ req.format = c.artifact.format
    BY DEF Rq!ForArtifact
  <2>2. c.props.persistence
    <3>1. <<"persistence", req.persistence /\ ~c.props.persistence>> \in tests
      OBVIOUS
    <3> HIDE DEF tests, req
    <3> QED
      BY <1>2, <2>1, <3>1
  <2>3. c.artifact.format \in {0, c.props.format}
    <3>1. <<"format", /\ req.persistence /\ c.props.persistence
                      /\ req.format # 0 /\ c.props.format # req.format>> \in tests
      OBVIOUS
    <3> HIDE DEF tests, req
    <3> QED
      BY <1>2, <2>1, <2>2, <3>1
  <2> QED
    BY <2>2, <2>3
<1> QED
  BY <1>4, <1>5

(* A hybrid state is valid only with a demonstration, on its own weights, of
   every class its checkpoints carry. *)
LEMMA ValidHybridIsDemonstrated ==
    ASSUME NEW c \in Hybrids,
           Rq!HybridProblems(c.state, c.evidence) = {},
           NEW p \in c.state.checkpoints, NEW k \in p.carries
    PROVE  /\ c.evidence # None
           /\ Rq!Demonstrated(k, c.evidence.build, c.evidence.binary,
                              c.state.geometry.weights, c.evidence)
<1> DEFINE e     == c.evidence
           g     == c.state.geometry
           tied  == IF e = None \/ g = None THEN FALSE ELSE e.model = g.weights
           bound == IF tied THEN e ELSE None
           of(q) == Rq!CheckpointProblems(q, bound)
<1>1. UNION {of(q) : q \in c.state.checkpoints} = {}
  <2> HIDE DEF bound
  <2> QED
    BY DEF Rq!HybridProblems, bound
<1>2. of(p) = {}
  <2> HIDE DEF of
  <2> QED
    BY <1>1
<1>3. ~(IF bound = None THEN TRUE ELSE Rq!Verdict(bound, k) # "restored")
  <2> HIDE DEF bound
  <2> QED
    BY <1>2 DEF Rq!CheckpointProblems
<1>4. tied /\ Rq!Verdict(e, k) = "restored"
  BY <1>3
<1>5. e # None /\ e.model = g.weights
  BY <1>4
<1>6. e.asOf \in Int /\ \A q \in e.proofs : q.proven \in Int /\ q.expires \in Int
  BY <1>5, EvidenceAssumption
<1>7. Rq!Demonstrated(k, e.build, e.binary, e.model, e)
  <2> HIDE DEF e
  <2> QED
    BY <1>4, <1>6, RestoredIsDemonstrated
<1> QED
  BY <1>5, <1>7

(* No artifact with draft or speculative state is restored, and no hybrid state
   is valid, without a recorded demonstration that nothing contradicts, of that
   very build, binary and model: for any set of proofs, artifacts and runtimes. *)
THEOREM GatedIsDemonstrated == Spec => []GatedStateIsDemonstrated
<1>1. CallInv => GatedStateIsDemonstrated
  <2> SUFFICES ASSUME CallInv
               PROVE  GatedStateIsDemonstrated
    OBVIOUS
  <2>1. CASE call.rule = "restore"
    <3>1. call.of \in Restores
      BY <2>1 DEF CallInv
    <3> QED
      BY <2>1, <3>1, RestoredIsGated DEF GatedStateIsDemonstrated, Of
  <2>2. CASE call.rule = "hybrid"
    <3>1. call.of \in Hybrids
      BY <2>2 DEF CallInv
    <3>2. ASSUME Rq!FromDict(call.of.keys, call.of.checkpointKeys, TRUE) = "state"
          PROVE  "evidence" \notin call.of.keys \union UNION call.of.checkpointKeys
      BY <3>2 DEF Rq!FromDict, Rq!EvidenceKeys
    <3> QED
      BY <2>2, <3>1, <3>2, ValidHybridIsDemonstrated DEF GatedStateIsDemonstrated, Of
  <2> QED
    BY <2>1, <2>2 DEF GatedStateIsDemonstrated, Of
<1> QED
  BY <1>1, CallsAreOfTheirFamily, PTL

-----------------------------------------------------------------------------
\* Induction over the subsets of a finite set, by its well-founded order.
LEMMA SubsetInduction ==
    ASSUME NEW S, IsFiniteSet(S), NEW G,
           \A s \in SUBSET S : (\A r \in SUBSET s : r # s => r \in G) => s \in G
    PROVE  S \in G
<1> DEFINE Rest == (SUBSET S) \ G
<1>1. SUFFICES ASSUME Rest # {} PROVE FALSE
  OBVIOUS
<1>2. Rest \subseteq FiniteSubsetsOf(S)
  BY FS_Subset DEF FiniteSubsetsOf
<1>3. PICK s \in Rest : \A r \in Rest : ~(<<r, s>> \in StrictSubsetOrdering(S))
  <2> HIDE DEF Rest
  <2> QED
    BY <1>1, <1>2, WFMin, FS_StrictSubsetOrderingWellFounded
<1>4. \A r \in SUBSET s : r # s => r \in G
  BY <1>3 DEF StrictSubsetOrdering
<1> QED
  BY <1>3, <1>4

\* A finite set of numbers has a largest.
LEMMA LargestExists ==
    ASSUME NEW S, IsFiniteSet(S), S \subseteq Int, S # {}
    PROVE  /\ Max(S) \in S /\ \A y \in S : Max(S) >= y
           /\ T!Max(S) = Max(S) /\ Co!Max(S) = Max(S)
<1> DEFINE G == {s \in SUBSET S : s # {} => \E x \in s : \A y \in s : x >= y}
<1>1. ASSUME NEW s \in SUBSET S, \A r \in SUBSET s : r # s => r \in G
      PROVE  s \in G
  <2>1. SUFFICES ASSUME s # {} PROVE \E x \in s : \A y \in s : x >= y
    OBVIOUS
  <2>2. PICK a \in s : TRUE
    BY <2>1
  <2>3. s \ {a} # {} => \E x \in s \ {a} : \A y \in s \ {a} : x >= y
    <3>1. s \ {a} \in SUBSET s /\ s \ {a} # s
      BY <2>2
    <3> QED
      BY <1>1, <3>1
  <2>4. CASE s \ {a} = {}
    BY <2>2, <2>4
  <2>5. CASE s \ {a} # {}
    <3>1. PICK x \in s \ {a} : \A y \in s \ {a} : x >= y
      BY <2>3, <2>5
    <3>2. CASE a >= x
      <4>1. \A y \in s : a >= y
        BY <3>1, <3>2
      <4> QED
        BY <2>2, <4>1
    <3>3. CASE ~ (a >= x)
      <4>1. \A y \in s : x >= y
        BY <2>2, <3>1, <3>3
      <4> QED
        BY <4>1
    <3> QED
      BY <3>2, <3>3
  <2> QED
    BY <2>4, <2>5
<1>2. S \in G
  <2> HIDE DEF G
  <2> QED
    BY <1>1, SubsetInduction
<1>3. \E x \in S : \A y \in S : x >= y
  BY <1>2
<1> QED
  BY <1>3 DEF Max, T!Max, Co!Max

(* The last n positions, and what a measure of them that is no NaN bounds. *)
LEMMA LargestBounds ==
    ASSUME NEW tail, NEW n \in Nat, DOMAIN tail = 1..n, NEW f,
           \A j \in 1..n : tail[j][f] \in Int,
           T!Largest(tail, f) # 99
    PROVE  \A j \in 1..n : /\ tail[j][f] # 99
                            /\ T!Largest(tail, f) \in Int
                            /\ tail[j][f] <= T!Largest(tail, f)
<1> DEFINE values == T!Values(tail, f)
<1>1. IsFiniteSet(values) /\ values \subseteq Int /\ \A j \in 1..n : tail[j][f] \in values
  <2>1. IsFiniteSet(1..n)
    BY FS_Interval
  <2>2. values = {tail[j][f] : j \in 1..n}
    BY DEF T!Values
  <2>3. [j \in 1..n |-> tail[j][f]] \in Surjection(1..n, {tail[j][f] : j \in 1..n})
    BY DEF Surjection
  <2>4. IsFiniteSet({tail[j][f] : j \in 1..n})
    BY <2>1, <2>3, FS_Surjection
  <2> QED
    BY <2>2, <2>4
<1> HIDE DEF values
<1>2. 99 \notin values
  <2> SUFFICES ASSUME 99 \in values PROVE FALSE
    OBVIOUS
  <2>1. T!Largest(tail, f) = 99
    BY DEF T!Largest, values
  <2> QED
    BY <2>1
<1>3. T!Largest(tail, f) = T!Max(values)
  BY <1>2 DEF T!Largest, values
<1>4. ASSUME NEW j \in 1..n
      PROVE  /\ tail[j][f] # 99
             /\ T!Largest(tail, f) \in Int
             /\ tail[j][f] <= T!Largest(tail, f)
  <2>1. tail[j][f] \in values
    BY <1>1
  <2>2. T!Max(values) \in values /\ \A y \in values : T!Max(values) >= y
    BY <1>1, <2>1, LargestExists
  <2> QED
    BY <1>1, <1>2, <1>3, <2>1, <2>2
<1> QED
  BY <1>4

LEMMA TailIsLast ==
    ASSUME NEW S, NEW s \in Seq(S), NEW n \in Nat, n <= Len(s)
    PROVE  /\ DOMAIN T!Holdout(s, n) = 1..n
           /\ \A j \in 1..n : T!Holdout(s, n)[j] = s[Len(s) - n + j]
           /\ \A j \in 1..n : T!Holdout(s, n)[j] \in S
<1>1. Len(s) \in Nat /\ Len(s) - n + 1 \in 1..Len(s) + 1
  OBVIOUS
<1>2. \A j \in 1..n : Len(s) - n + j \in 1..Len(s)
  BY <1>1
<1>3. Len(T!Holdout(s, n)) = n /\ T!Holdout(s, n) \in Seq(S)
  BY <1>1 DEF T!Holdout
<1>4. \A j \in 1..n : T!Holdout(s, n)[j] = s[Len(s) - n + j]
  BY <1>1, <1>2 DEF T!Holdout
<1> QED
  BY <1>2, <1>3, <1>4

(* A lossy transfer that the gate admits behaved, on each of the last
   positions, within the policy. *)
LEMMA AdmittedIsWithin ==
    ASSUME NEW Positions, \A x \in Positions : x.kl \in Nat /\ x.delta \in Int,
           NEW logits \in Seq(Positions),
           NEW policy, NEW n \in Nat, policy.holdout = n, policy.max \in Int,
           policy.delta # None => policy.delta \in Int,
           T!Admit(TRUE, logits, policy)
    PROVE  /\ Len(logits) >= n
           /\ \A i \in Len(logits) - n + 1 .. Len(logits) :
                 /\ logits[i].kl \in 0..policy.max
                 /\ logits[i].delta # 99
                 /\ policy.delta # None => logits[i].delta <= policy.delta
<1> DEFINE tail == T!Holdout(logits, n)
<1>1. /\ Len(logits) >= n
      /\ T!Largest(tail, "kl") # 99 /\ ~(T!Largest(tail, "kl") > policy.max)
      /\ T!Largest(tail, "delta") # 99
      /\ policy.delta # None => ~(T!Largest(tail, "delta") > policy.delta)
  <2> HIDE DEF tail
  <2> QED
    BY DEF T!Admit, T!Above, tail
<1>2. /\ DOMAIN tail = 1..n
      /\ \A j \in 1..n : tail[j] = logits[Len(logits) - n + j]
  BY <1>1, TailIsLast
<1>3. \A j \in 1..n : /\ tail[j].kl \in Nat /\ tail[j].delta \in Int
  <2>1. \A j \in 1..n : tail[j] \in Positions
    BY <1>1, TailIsLast
  <2> HIDE DEF tail
  <2> QED
    BY <2>1
<1> HIDE DEF tail
<1>4. \A j \in 1..n : /\ tail[j].kl # 99
                       /\ T!Largest(tail, "kl") \in Int
                       /\ tail[j].kl <= T!Largest(tail, "kl")
  <2>1. \A j \in 1..n : tail[j]["kl"] \in Int
    BY <1>3
  <2> QED
    BY <1>1, <1>2, <2>1, LargestBounds
<1>5. \A j \in 1..n : /\ tail[j].delta # 99
                       /\ T!Largest(tail, "delta") \in Int
                       /\ tail[j].delta <= T!Largest(tail, "delta")
  <2>1. \A j \in 1..n : tail[j]["delta"] \in Int
    BY <1>3
  <2> QED
    BY <1>1, <1>2, <2>1, LargestBounds
<1>6. ASSUME NEW i \in Len(logits) - n + 1 .. Len(logits)
      PROVE  /\ logits[i].kl \in 0..policy.max
             /\ logits[i].delta # 99
             /\ policy.delta # None => logits[i].delta <= policy.delta
  <2> DEFINE j == i - (Len(logits) - n)
  <2>1. j \in 1..n /\ i = Len(logits) - n + j
    BY <1>1
  <2> HIDE DEF j
  <2>2. logits[i] = tail[j]
    BY <1>2, <2>1
  <2>3. tail[j].kl \in 0..policy.max
    BY <1>1, <1>3, <1>4, <2>1
  <2>4. tail[j].delta # 99
    BY <1>5, <2>1
  <2>5. policy.delta # None => tail[j].delta <= policy.delta
    BY <1>1, <1>3, <1>5, <2>1
  <2> QED
    BY <2>2, <2>3, <2>4, <2>5
<1> QED
  BY <1>1, <1>6

(* A plan that is not refused is of one model and of no two prompts, and
   converts along a tested pair where the bytes are not reusable as they are. *)
LEMMA PlannedIsOwn ==
    ASSUME NEW source, NEW target,
           T!PlanMode(source, target) # "refused"
    PROVE  /\ source.model = target.model /\ source.model # 0
           /\ source.prompt = target.prompt \/ 0 \in {source.prompt, target.prompt}
           /\ T!PlanMode(source, target) = "identity" =>
                 source.abi = target.abi /\ source.abi # 0
           /\ T!PlanMode(source, target) # "identity" =>
                 \A f \in {"k", "v"} :
                    target[f] \in (IF source[f] = 1 THEN {1, 2} ELSE {2} \intersect {source[f]})
<1>1. ~(\/ source.model = 0 \/ target.model = 0
        \/ source.prompt # 0 /\ target.prompt # 0 /\ source.prompt # target.prompt
        \/ source.model # target.model)
  BY DEF T!PlanMode
<1>2. T!PlanMode(source, target) = "identity" => source.abi = target.abi /\ source.abi # 0
  BY DEF T!PlanMode
<1>3. ASSUME T!PlanMode(source, target) # "identity"
      PROVE  /\ target.k \in (IF source.k = 1 THEN {1, 2} ELSE {2} \intersect {source.k})
             /\ target.v \in (IF source.v = 1 THEN {1, 2} ELSE {2} \intersect {source.v})
  <2>1. /\ <<source.k, target.k>> \in T!SupportedPairs
        /\ <<source.v, target.v>> \in T!SupportedPairs
    BY <1>1, <1>3 DEF T!PlanMode
  <2> QED
    BY <2>1 DEF T!SupportedPairs
<1>4. T!PlanMode(source, target) # "identity" =>
         \A f \in {"k", "v"} :
            target[f] \in (IF source[f] = 1 THEN {1, 2} ELSE {2} \intersect {source[f]})
  BY <1>3
<1> QED
  BY <1>1, <1>2, <1>4

(* A cache that is used after a transfer is of this model and of no other
   prompt; and where its bytes are not reusable as they are, it was converted
   along a tested pair and behaved at each of the last positions within the
   policy the plan was made with: for any identities, policies and logits. *)
THEOREM UsedTransferIsSound == Spec => []TransferIsSound
<1>1. CallInv => TransferIsSound
  <2> SUFFICES ASSUME CallInv, call.rule = "transfer",
                      T!Execute(T!Plan(call.of.source, call.of.target, call.of.policy),
                                TRUE, TRUE, call.of.logits)
               PROVE  T!UsedIsSound(call.of.source, call.of.target, call.of.policy,
                                    call.of.logits)
    BY DEF TransferIsSound, Of
  <2> DEFINE source == call.of.source
             target == call.of.target
             policy == call.of.policy
             logits == call.of.logits
             mode   == T!PlanMode(source, target)
  <2>1. call.of \in Transfers
    BY DEF CallInv
  <2>2. /\ policy.holdout \in Nat /\ policy.max \in Int /\ policy.delta \in Int \union {None}
        /\ logits = None \/ logits \in Seq([agrees : BOOLEAN, kl : Nat, delta : Int])
    BY <2>1, TransferAssumption
  <2>3. /\ mode # "refused"
        /\ mode = "identity" \/ (logits # None /\ T!Admit(TRUE, logits, policy))
    BY DEF T!Execute, T!Plan
  <2> HIDE DEF source, target, policy, logits
  <2>4. /\ source.model = target.model /\ source.model # 0
        /\ source.prompt = target.prompt \/ 0 \in {source.prompt, target.prompt}
    BY <2>3, PlannedIsOwn
  <2>5. CASE mode = "identity"
    <3>1. source.abi = target.abi /\ source.abi # 0
      BY <2>3, <2>5, PlannedIsOwn
    <3>2. T!UsedIsSound(source, target, policy, logits)
      BY <2>4, <3>1 DEF T!UsedIsSound
    <3> QED
      BY <3>2 DEF source, target, policy, logits
  <2>6. CASE mode # "identity"
    <3>1. logits # None /\ T!Admit(TRUE, logits, policy)
      BY <2>3, <2>6
    <3>2. \A f \in {"k", "v"} :
             target[f] \in (IF source[f] = 1 THEN {1, 2} ELSE {2} \intersect {source[f]})
      BY <2>3, <2>6, PlannedIsOwn
    <3> DEFINE Positions == [agrees : BOOLEAN, kl : Nat, delta : Int]
    <3>3. \A x \in Positions : x.kl \in Nat /\ x.delta \in Int
      OBVIOUS
    <3>4. logits \in Seq(Positions)
      BY <2>2, <3>1
    <3> HIDE DEF Positions
    <3>5. /\ Len(logits) >= policy.holdout
          /\ \A i \in Len(logits) - policy.holdout + 1 .. Len(logits) :
                /\ logits[i].kl \in 0..policy.max
                /\ logits[i].delta # 99
                /\ policy.delta # None => logits[i].delta <= policy.delta
      BY <2>2, <3>1, <3>3, <3>4, AdmittedIsWithin
    <3>6. T!UsedIsSound(source, target, policy, logits)
      BY <2>4, <3>1, <3>2, <3>5 DEF T!UsedIsSound
    <3> QED
      BY <3>6 DEF source, target, policy, logits
  <2> QED
    BY <2>5, <2>6
<1> QED
  BY <1>1, CallsAreOfTheirFamily, PTL

-----------------------------------------------------------------------------
\* f is the chain of the regions at each set of places, taken in order.
Chains(s, S, f) ==
    f = [u \in SUBSET S |-> IF u = {} THEN << >>
                            ELSE Append(f[u \ {Max(u)}], s[Max(u)].tokens)]

\* The definition of Context, with those of the library unfolded.
LEMMA ContextDef ==
    ASSUME NEW s
    PROVE  Co!Context(s) = (CHOOSE f : Chains(s, DOMAIN s, f))[DOMAIN s]
BY DEF Co!Context, Co!FoldLeft, Co!MapThenFoldSet, Co!ChainDigest, Co!AtFront, Chains,
       Co!Max, Max

\* A finite set of numbers.
Places(S) == IsFiniteSet(S) /\ S \subseteq Int

\* One for a finite set of places agrees there with one for a part of it.
LEMMA ChainsAgree ==
    ASSUME NEW s, NEW S, NEW f, Chains(s, S, f), NEW U, NEW g, Chains(s, U, g),
           U \in SUBSET S, Places(U)
    PROVE  f[U] = g[U]
<1> DEFINE G == {u \in SUBSET U : f[u] = g[u]}
<1>1. ASSUME NEW u \in SUBSET U, \A r \in SUBSET u : r # u => r \in G
      PROVE  u \in G
  <2>1. u # {} => Max(u) \in u
    BY FS_Subset, LargestExists DEF Places
  <2>2. u # {} => f[u \ {Max(u)}] = g[u \ {Max(u)}]
    BY <1>1, <2>1
  <2> QED
    BY <2>2 DEF Chains
<1>2. U \in G
  <2> HIDE DEF G
  <2> QED
    BY <1>1, SubsetInduction DEF Places
<1> QED
  BY <1>2

\* Over a finite set of places there is such a function.
LEMMA ChainsExist ==
    ASSUME NEW s, NEW S, Places(S)
    PROVE  \E f : Chains(s, S, f)
<1> DEFINE F(r) == CHOOSE f : Chains(s, r, f)
           Rest(r) == r \ {Max(r)}
           G == {u \in SUBSET S : \E f : Chains(s, u, f)}
<1>0. ASSUME NEW r \in SUBSET S, r # {} PROVE Max(r) \in r
  BY <1>0, FS_Subset, LargestExists DEF Places
<1>1. ASSUME NEW w \in SUBSET S, \A r \in SUBSET w : r # w => r \in G
      PROVE  w \in G
  <2> DEFINE W == [r \in SUBSET w |->
                      IF r = {} THEN << >>
                      ELSE Append(F(Rest(r))[Rest(r)], s[Max(r)].tokens)]
  <2>1. ASSUME NEW r \in SUBSET w, r # {}
        PROVE  W[Rest(r)] = F(Rest(r))[Rest(r)]
    <3> DEFINE u == Rest(r)
               v == Rest(u)
    <3>1. Max(r) \in r
      BY <1>0, <2>1
    <3>2. u \subseteq w /\ u # w /\ v \subseteq w /\ v # w
      BY <3>1
    <3>3. Chains(s, u, F(u)) /\ Chains(s, v, F(v))
      <4>1. (\E f : Chains(s, u, f)) /\ (\E f : Chains(s, v, f))
        BY <1>1, <3>2
      <4> QED
        BY <4>1
    <3>4. F(u)[u] = IF u = {} THEN << >> ELSE Append(F(u)[v], s[Max(u)].tokens)
      BY <3>3 DEF Chains
    <3>5. F(u)[v] = F(v)[v]
      <4>1. Places(v) /\ v \in SUBSET u
        BY <3>2, FS_Subset DEF Places
      <4> HIDE DEF F, u
      <4> QED
        BY <4>1, <3>3, ChainsAgree DEF v
    <3>6. W[u] = IF u = {} THEN << >> ELSE Append(F(v)[v], s[Max(u)].tokens)
      BY <3>2
    <3> QED
      BY <3>4, <3>5, <3>6
  <2>2. Chains(s, w, W)
    <3> HIDE DEF F
    <3>1. \A r \in SUBSET w :
            W[r] = IF r = {} THEN << >> ELSE Append(W[r \ {Max(r)}], s[Max(r)].tokens)
      BY <2>1
    <3>2. W = [r \in SUBSET w |-> W[r]]
      OBVIOUS
    <3> HIDE DEF W
    <3> QED
      BY <3>1, <3>2 DEF Chains
  <2> QED
    BY <2>2
<1>2. S \in G
  <2> HIDE DEF G
  <2> QED
    BY <1>1, SubsetInduction DEF Places
<1> QED
  BY <1>2

(* The context behind some regions is one digest long for each of them. *)
LEMMA ContextLength ==
    ASSUME NEW Regions, \A r \in Regions : r.tokens \in Nat, NEW s \in Seq(Regions)
    PROVE  Len(Co!Context(s)) = Len(s)
<1> DEFINE S == 1..Len(s)
           f == CHOOSE g : Chains(s, S, g)
           G == {u \in SUBSET S : f[u] \in Seq(Nat) /\ Len(f[u]) = Cardinality(u)}
<1>1. Places(S)
  BY FS_Interval DEF Places
<1>2. Chains(s, S, f)
  <2>1. \E g : Chains(s, S, g)
    <3> HIDE DEF S
    <3> QED
      BY <1>1, ChainsExist
  <2> QED
    BY <2>1
<1> HIDE DEF f
<1>3. ASSUME NEW u \in SUBSET S, \A r \in SUBSET u : r # u => r \in G
      PROVE  u \in G
  <2>1. IsFiniteSet(u) /\ u \subseteq Int
    BY <1>1, FS_Subset DEF Places
  <2>2. CASE u = {}
    BY <1>2, <2>2, FS_EmptySet DEF Chains
  <2>3. CASE u # {}
    <3> DEFINE m == Max(u)
               r == u \ {m}
    <3>1. m \in u
      BY <2>1, <2>3, LargestExists
    <3> HIDE DEF m
    <3>2. r \in G
      BY <1>3, <3>1
    <3>3. s[m].tokens \in Nat
      BY <3>1
    <3>4. f[u] = Append(f[r], s[m].tokens)
      BY <1>2, <2>3 DEF Chains, m
    <3>5. Cardinality(r) = Cardinality(u) - 1
      BY <2>1, <3>1, FS_RemoveElement
    <3>6. Cardinality(u) \in Nat
      BY <2>1, FS_CardinalityType
    <3>7. f[r] \in Seq(Nat) /\ Len(f[r]) = Cardinality(r)
      BY <3>2
    <3>8. f[u] \in Seq(Nat) /\ Len(f[u]) = Len(f[r]) + 1
      <4> HIDE DEF r
      <4>1. f[r] \in Seq(Nat)
        BY <3>7
      <4> QED
        BY <3>3, <3>4, <4>1
    <3>9. Len(f[u]) = Cardinality(u)
      <4> HIDE DEF r
      <4> QED
        BY <3>5, <3>6, <3>7, <3>8
    <3> QED
      BY <3>8, <3>9
  <2> QED
    BY <2>2, <2>3
<1>4. S \in G
  <2> HIDE DEF G, S
  <2> QED
    BY <1>1, <1>3, SubsetInduction DEF Places
<1>5. Co!Context(s) = f[S]
  <2>1. DOMAIN s = S
    OBVIOUS
  <2> QED
    BY <2>1, ContextDef DEF f
<1>6. Cardinality(S) = Len(s)
  <2>1. Len(s) \in Nat
    OBVIOUS
  <2>2. Cardinality(1..Len(s)) = IF 1 > Len(s) THEN 0 ELSE Len(s) - 1 + 1
    BY <2>1, FS_Interval
  <2> QED
    BY <2>1, <2>2
<1> QED
  BY <1>4, <1>5, <1>6

Region == [name : Nat, start : Int, end : Int, tokens : Nat, after : Seq(Nat),
           wellFormed : BOOLEAN]

(* Each region of an exact composition carries a context as long as what it is
   placed behind. *)
LEMMA ExactKnowsItsPlace ==
    ASSUME NEW Regions, \A r \in Regions : r.tokens \in Nat, NEW s \in Seq(Regions),
           NEW i \in DOMAIN s, Co!Exact(s, i)
    PROVE  Len(s[i].after) = i - 1
<1> DEFINE front == SubSeq(s, 1, i - 1)
<1>1. front \in Seq(Regions) /\ Len(front) = i - 1
  OBVIOUS
<1>2. Len(Co!Context(front)) = Len(front)
  <2> HIDE DEF front
  <2> QED
    BY <1>1, ContextLength
<1> QED
  BY <1>1, <1>2 DEF Co!Exact

\* The regions of a reordering are those reordered.
LEMMA ReorderedKeeps ==
    ASSUME NEW c \in Seq(Region), NEW p \in [DOMAIN c -> DOMAIN c]
    PROVE  /\ Co!Reordered(c, p) \in Seq({Co!Reordered(c, p)[i] : i \in DOMAIN c})
           /\ DOMAIN Co!Reordered(c, p) = DOMAIN c
           /\ \A i \in DOMAIN c : /\ p[i] \in DOMAIN c
                                  /\ Co!Reordered(c, p)[i].after = c[p[i]].after
                                  /\ Co!Reordered(c, p)[i].tokens \in Nat
<1> DEFINE q == Co!Reordered(c, p)
<1>1. PICK end : q = [i \in DOMAIN c |->
                         [c[p[i]] EXCEPT !.start = end[i - 1], !.end = end[i]]]
  BY DEF Co!Reordered
<1> HIDE DEF q
<1>2. \A i \in DOMAIN c : p[i] \in DOMAIN c
  OBVIOUS
<1>3. ASSUME NEW i \in DOMAIN c
      PROVE  q[i].after = c[p[i]].after /\ q[i].tokens \in Nat
  <2>1. c[p[i]] \in Region
    BY <1>2
  <2>2. q[i] = [c[p[i]] EXCEPT !.start = end[i - 1], !.end = end[i]]
    BY <1>1
  <2> QED
    BY <2>1, <2>2 DEF Region
<1>4. DOMAIN q = DOMAIN c
  BY <1>1
<1>5. q \in Seq({q[i] : i \in DOMAIN c})
  <2>1. DOMAIN c = 1..Len(c) /\ Len(c) \in Nat
    OBVIOUS
  <2>2. q = [i \in 1..Len(c) |-> q[i]]
    BY <1>1, <2>1
  <2> QED
    BY <2>1, <2>2
<1> QED
  BY <1>2, <1>3, <1>4, <1>5 DEF q

(* No other order of an exact composition is exact. *)
LEMMA OneOrder ==
    ASSUME NEW c \in Seq(Region)
    PROVE  Co!HasOneOrder(c)
<1> SUFFICES ASSUME Co!Plan(c, FALSE) = "exact",
                    NEW p \in [DOMAIN c -> DOMAIN c],
                    NEW i \in DOMAIN p, p[i] # i
             PROVE  Co!Plan(Co!Reordered(c, p), FALSE) = "refused"
  BY DEF Co!HasOneOrder
<1> DEFINE q == Co!Reordered(c, p)
<1>1. i \in DOMAIN c /\ p[i] \in DOMAIN c
  OBVIOUS
<1>2. \A j \in DOMAIN c : Co!Exact(c, j)
  BY DEF Co!Plan, Co!Repairs
<1>3. Len(c[p[i]].after) = p[i] - 1
  <2>1. \A r \in Region : r.tokens \in Nat
    BY DEF Region
  <2> QED
    BY <1>1, <1>2, <2>1, ExactKnowsItsPlace
<1>4. i \in Co!Repairs(q)
  <2> SUFFICES ASSUME Co!Exact(q, i)
               PROVE  FALSE
    BY <1>1, ReorderedKeeps DEF Co!Repairs
  <2> DEFINE Regions == {q[j] : j \in DOMAIN c}
  <2>1. /\ q \in Seq(Regions) /\ i \in DOMAIN q
        /\ q[i].after = c[p[i]].after
        /\ \A r \in Regions : r.tokens \in Nat
    BY <1>1, ReorderedKeeps
  <2>2. Len(q[i].after) = i - 1
    <3> HIDE DEF q, Regions
    <3> QED
      BY <2>1, ExactKnowsItsPlace
  <2>3. i \in Int /\ p[i] \in Int
    BY <1>1
  <2> HIDE DEF q
  <2> QED
    BY <1>3, <2>1, <2>2, <2>3
<1> HIDE DEF q
<1>5. Co!Plan(q, FALSE) = "refused"
  BY <1>4 DEF Co!Plan
<1> QED
  BY <1>5 DEF q

(* A region that continues an exact composition is appendable exactly when the
   longer one is exact. *)
LEMMA AppendIsPlanned ==
    ASSUME NEW c \in Seq(Region)
    PROVE  Co!AppendAgrees(c)
<1> DEFINE n     == Len(c)
           front == SubSeq(c, 1, Len(c) - 1)
           last  == c[n]
<1> SUFFICES ASSUME n > 1,
                    Co!Plan(front, FALSE) = "exact",
                    Co!Valid(last),
                    last.start = front[Len(front)].end,
                    \A i \in DOMAIN front : front[i].name # last.name
             PROVE  Co!Appendable(front, last) <=> Co!Plan(c, FALSE) = "exact"
  BY DEF Co!AppendAgrees
<1>1. /\ n \in Nat /\ DOMAIN c = 1..n
      /\ front = SubSeq(c, 1, n - 1)
      /\ Len(front) = n - 1 /\ DOMAIN front = 1..n - 1
      /\ \A i \in 1..n - 1 : front[i] = c[i]
  OBVIOUS
<1>2. \A i \in 1..n - 1 : SubSeq(front, 1, i - 1) = SubSeq(c, 1, i - 1)
  <2> SUFFICES ASSUME NEW i \in 1..n - 1
               PROVE  SubSeq(front, 1, i - 1) = SubSeq(c, 1, i - 1)
    OBVIOUS
  <2> HIDE DEF n, front
  <2>1. \A j \in 1..i - 1 : front[j] = c[j]
    BY <1>1
  <2> QED
    BY <1>1, <2>1
<1> HIDE DEF n, front, last
<1>3. \A i \in 1..n - 1 : Co!Exact(c, i) <=> Co!Exact(front, i)
  BY <1>1, <1>2 DEF Co!Exact
<1>4. Co!Exact(c, n) <=> Co!Appendable(front, last)
  BY <1>1 DEF Co!Exact, Co!Appendable, last
<1>5. /\ front # << >> /\ front[1].start = 0
      /\ \A i \in DOMAIN front : Co!Valid(front[i])
      /\ Co!IsInjective([i \in DOMAIN front |-> front[i].name])
      /\ \A i \in 2..Len(front) : front[i].start = front[i - 1].end
      /\ Co!Repairs(front) = {}
  BY DEF Co!Plan
<1>6. \A i \in 1..n - 1 : Co!Exact(c, i)
  BY <1>1, <1>3, <1>5 DEF Co!Repairs
<1>7. Co!Repairs(c) = {} <=> Co!Appendable(front, last)
  <2>1. \A i \in DOMAIN c : i = n \/ i \in 1..n - 1
    BY <1>1
  <2>2. n \in DOMAIN c
    BY <1>1
  <2> QED
    BY <1>4, <1>6, <2>1, <2>2 DEF Co!Repairs
<1>8. /\ c # << >> /\ c[1].start = 0
      /\ \A i \in DOMAIN c : Co!Valid(c[i])
      /\ \A i \in 2..n : c[i].start = c[i - 1].end
  <2>1. c # << >> /\ c[1].start = 0
    BY <1>1, <1>5
  <2>2. ASSUME NEW i \in DOMAIN c
        PROVE  Co!Valid(c[i])
    <3>1. CASE i = n
      BY <3>1 DEF last
    <3>2. CASE i # n
      <4>1. i \in DOMAIN front /\ c[i] = front[i]
        BY <1>1, <3>2
      <4> QED
        BY <1>5, <4>1
    <3> QED
      BY <3>1, <3>2
  <2>3. ASSUME NEW i \in 2..n
        PROVE  c[i].start = c[i - 1].end
    <3>1. CASE i = n
      BY <1>1, <3>1 DEF last
    <3>2. CASE i # n
      <4>1. i \in 2..Len(front) /\ i \in 1..n - 1 /\ i - 1 \in 1..n - 1
        BY <1>1, <3>2
      <4> QED
        BY <1>1, <1>5, <4>1
    <3> QED
      BY <3>1, <3>2
  <2> QED
    BY <2>1, <2>2, <2>3
<1>9. Co!IsInjective([i \in DOMAIN c |-> c[i].name])
  <2> SUFFICES ASSUME NEW i \in DOMAIN c, NEW j \in DOMAIN c, c[i].name = c[j].name
               PROVE  i = j
    BY DEF Co!IsInjective
  <2>1. \A m \in 1..n - 1 : c[m].name # c[n].name
    BY <1>1 DEF last
  <2>2. CASE i = n
    BY <1>1, <2>1, <2>2
  <2>3. CASE j = n
    BY <1>1, <2>1, <2>3
  <2>4. CASE i # n /\ j # n
    <3>1. i \in DOMAIN front /\ j \in DOMAIN front
      BY <1>1, <2>4
    <3>2. front[i].name = front[j].name
      BY <1>1, <3>1
    <3> QED
      BY <1>5, <3>1, <3>2 DEF Co!IsInjective
  <2> QED
    BY <2>2, <2>3, <2>4
<1>10. Co!Plan(c, FALSE) = "exact" <=> Co!Repairs(c) = {}
  BY <1>8, <1>9 DEF Co!Plan, n
<1> QED
  BY <1>7, <1>10 DEF n, front, last

(* An exact composition is exact in one order only, whatever its regions hold,
   and appending one region agrees with planning all of them anew: for any
   number of regions. *)
THEOREM OneOrderIsExact == Spec => []ComposesInOneOrder
<1>1. CallInv => ComposesInOneOrder
  <2> SUFFICES ASSUME CallInv, call.rule = "composition"
               PROVE  Co!HasOneOrder(call.of) /\ Co!AppendAgrees(call.of)
    BY DEF ComposesInOneOrder, Of
  <2>1. call.of \in Seq(Region)
    BY CompositionAssumption DEF CallInv, Region
  <2> QED
    BY <2>1, OneOrder, AppendIsPlanned
<1> QED
  BY <1>1, CallsAreOfTheirFamily, PTL

-----------------------------------------------------------------------------
(* Folds over a list.  The step is a function g of what the fold has come to
   and the place, so that the lemmas hold for every fold. *)

\* Induction up to a number, for the members of a set.
LEMMA UpTo ==
    ASSUME NEW n \in Nat, NEW G, 0 \in G, \A i \in 1..n : i - 1 \in G => i \in G
    PROVE  \A i \in 0..n : i \in G
<1> DEFINE K == {k \in 0..n : 0..k \subseteq G}
<1>1. 0 \in K
  OBVIOUS
<1>2. IsFiniteSet(K) /\ K \subseteq Int
  <2>1. IsFiniteSet(0..n) /\ K \subseteq 0..n
    BY FS_Interval
  <2> QED
    BY <2>1, FS_Subset
<1> HIDE DEF K
<1>3. Max(K) \in K /\ \A k \in K : Max(K) >= k
  BY <1>1, <1>2, LargestExists
<1> DEFINE m == Max(K)
<1> HIDE DEF m
<1>4. m \in 0..n /\ 0..m \subseteq G /\ \A k \in K : m >= k
  BY <1>3 DEF m, K
<1>5. m = n
  <2> SUFFICES ASSUME m # n PROVE FALSE
    OBVIOUS
  <2>1. m + 1 \in 1..n /\ (m + 1) - 1 = m /\ m \in 0..m
    BY <1>4
  <2>2. m + 1 \in G
    BY <1>4, <2>1
  <2>3. 0..m + 1 \subseteq G
    BY <1>4, <2>2
  <2>4. m + 1 \in K
    BY <2>1, <2>3 DEF K
  <2> QED
    BY <1>4, <2>4
<1> QED
  BY <1>4, <1>5

\* What a fold with the steps g comes to at each set of places up to n.
Folds(f, n, V, b, g) ==
    /\ f \in [SUBSET (1..n) -> V]
    /\ f[{}] = b
    /\ \A s \in SUBSET (1..n) : s # {} => f[s] = g[Max(s)][f[s \ {Max(s)}]]

LEMMA LargestPlace ==
    ASSUME NEW n \in Nat, NEW s \in SUBSET (1..n), s # {}
    PROVE  /\ Max(s) \in s /\ \A y \in s : Max(s) >= y
           /\ s \ {Max(s)} \in SUBSET (1..n) /\ s \ {Max(s)} # s
<1>1. IsFiniteSet(s)
  <2>1. IsFiniteSet(1..n)
    BY FS_Interval
  <2> QED
    BY <2>1, FS_Subset
<1>2. s \subseteq Int
  OBVIOUS
<1>3. Max(s) \in s /\ \A y \in s : Max(s) >= y
  BY <1>1, <1>2, LargestExists
<1> QED
  BY <1>3

\* A fold over a list comes to something, whatever its steps.
LEMMA FoldExists ==
    ASSUME NEW n \in Nat, NEW V, NEW b \in V, NEW g \in [1..n -> [V -> V]]
    PROVE  \E f : Folds(f, n, V, b, g)
<1> DEFINE Up(k, f) == /\ f[{}] = b
                       /\ \A s \in SUBSET (1..k) :
                             s # {} => f[s] = g[Max(s)][f[s \ {Max(s)}]]
           G == {k \in 0..n : \E f \in [SUBSET (1..k) -> V] : Up(k, f)}
<1>1. 0 \in G
  <2> DEFINE f == [s \in SUBSET (1..0) |-> b]
  <2>1. \A s \in SUBSET (1..0) : s = {}
    OBVIOUS
  <2>2. f \in [SUBSET (1..0) -> V] /\ f[{}] = b
    OBVIOUS
  <2>3. Up(0, f)
    <3> HIDE DEF f
    <3> QED
      BY <2>1, <2>2
  <2> HIDE DEF f
  <2> HIDE DEF Up
  <2>4. \E h \in [SUBSET (1..0) -> V] : Up(0, h)
    BY <2>2, <2>3
  <2>5. 0 \in 0..n
    OBVIOUS
  <2> QED
    BY <2>4, <2>5
<1>2. ASSUME NEW k \in 1..n, k - 1 \in G
      PROVE  k \in G
  <2>1. PICK f \in [SUBSET (1..k - 1) -> V] : Up(k - 1, f)
    BY <1>2
  <2> DEFINE h == [s \in SUBSET (1..k) |-> IF k \in s THEN g[k][f[s \ {k}]] ELSE f[s]]
  <2>2. ASSUME NEW s \in SUBSET (1..k), k \in s
        PROVE  /\ s \ {k} \in SUBSET (1..k - 1) /\ Max(s) = k
               /\ h[s] = g[k][f[s \ {k}]] /\ h[s] \in V /\ h[s \ {k}] = f[s \ {k}]
    <3>1. s \ {k} \in SUBSET (1..k - 1) /\ s \ {k} \in SUBSET (1..k)
      OBVIOUS
    <3>2. Max(s) = k
      <4>1. s \in SUBSET (1..k) /\ s # {} /\ k \in Nat /\ \A y \in s : y \in 1..k
        BY <2>2
      <4> HIDE DEF h, G, Up
      <4>2. Max(s) \in s /\ Max(s) >= k
        BY <2>2, <4>1, LargestPlace
      <4>3. Max(s) \in 1..k
        BY <4>1, <4>2
      <4> QED
        BY <4>2, <4>3
    <3> QED
      BY <2>2, <3>1, <3>2
  <2>3. ASSUME NEW s \in SUBSET (1..k), k \notin s
        PROVE  s \in SUBSET (1..k - 1) /\ h[s] = f[s] /\ h[s] \in V
    <3>1. s \in SUBSET (1..k - 1)
      BY <2>3
    <3> QED
      BY <2>3, <3>1
  <2>4. h \in [SUBSET (1..k) -> V]
    <3>1. \A s \in SUBSET (1..k) : h[s] \in V
      BY <2>2, <2>3
    <3>2. h = [s \in SUBSET (1..k) |-> h[s]]
      OBVIOUS
    <3> HIDE DEF h
    <3> QED
      BY <3>1, <3>2
  <2>5. h[{}] = b
    BY <2>1
  <2>6. ASSUME NEW s \in SUBSET (1..k), s # {}
        PROVE  h[s] = g[Max(s)][h[s \ {Max(s)}]]
    <3>1. CASE k \in s
      BY <2>2, <3>1
    <3>2. CASE k \notin s
      <4>1. s \in SUBSET (1..k - 1) /\ h[s] = f[s]
        BY <2>3, <3>2
      <4>2. f[s] = g[Max(s)][f[s \ {Max(s)}]]
        BY <2>1, <2>6, <4>1
      <4>3. s \ {Max(s)} \in SUBSET (1..k) /\ k \notin s \ {Max(s)}
        BY <3>2
      <4>4. h[s \ {Max(s)}] = f[s \ {Max(s)}]
        BY <2>3, <4>3
      <4> QED
        BY <4>1, <4>2, <4>4
    <3> QED
      BY <3>1, <3>2
  <2>7. Up(k, h)
    BY <2>5, <2>6
  <2> HIDE DEF h, Up
  <2> QED
    BY <2>4, <2>7
<1>3. n \in G
  <2> HIDE DEF G
  <2>1. \A i \in 1..n : i - 1 \in G => i \in G
    BY <1>2
  <2>2. \A i \in 0..n : i \in G
    BY <1>1, <2>1, UpTo
  <2> QED
    BY <2>2
<1> QED
  BY <1>3 DEF Folds

\* h takes the same steps as long as it stays within V.
Follows(h, n, V, b, g) ==
    /\ h[{}] = b
    /\ \A s \in SUBSET (1..n) : s # {} /\ h[s \ {Max(s)}] \in V
                                  => h[s] = g[Max(s)][h[s \ {Max(s)}]]

\* And only to one thing.
LEMMA FoldIsUnique ==
    ASSUME NEW n \in Nat, NEW V, NEW b, NEW g,
           NEW f, Folds(f, n, V, b, g),
           NEW h, Follows(h, n, V, b, g)
    PROVE  h[1..n] = f[1..n]
<1> DEFINE G == {s \in SUBSET (1..n) : h[s] = f[s]}
<1>1. ASSUME NEW s \in SUBSET (1..n), \A r \in SUBSET s : r # s => r \in G
      PROVE  s \in G
  <2>1. CASE s = {}
    BY <2>1 DEF Folds, Follows
  <2>2. CASE s # {}
    <3>1. s \ {Max(s)} \in SUBSET (1..n) /\ s \ {Max(s)} # s
      BY <2>2, LargestPlace
    <3>2. h[s \ {Max(s)}] = f[s \ {Max(s)}]
      BY <1>1, <3>1
    <3> QED
      BY <2>2, <3>1, <3>2 DEF Folds, Follows
  <2> QED
    BY <2>1, <2>2
<1>2. 1..n \in G
  <2> HIDE DEF G
  <2>1. IsFiniteSet(1..n)
    BY FS_Interval
  <2> DEFINE S == 1..n
  <2>2. IsFiniteSet(S) /\ \A s \in SUBSET S : (\A r \in SUBSET s : r # s => r \in G) => s \in G
    BY <1>1, <2>1
  <2> HIDE DEF S
  <2>3. S \in G
    BY <2>2, SubsetInduction
  <2> QED
    BY <2>3 DEF S
<1> QED
  BY <1>2

\* What it comes to place by place.
LEMMA FoldRuns ==
    ASSUME NEW n \in Nat, NEW V, NEW b, NEW g, NEW f, Folds(f, n, V, b, g), NEW i \in 1..n
    PROVE  f[1..i] = g[i][f[1..i - 1]]
<1>1. 1..i \in SUBSET (1..n) /\ 1..i # {}
  OBVIOUS
<1>2. Max(1..i) = i
  <2> DEFINE s == 1..i
  <2>1. s \in SUBSET (1..n) /\ s # {} /\ i \in s /\ \A y \in s : y \in Int /\ y <= i
    BY <1>1
  <2> HIDE DEF s
  <2>2. Max(s) \in s /\ Max(s) >= i
    BY <2>1, LargestPlace
  <2> QED
    BY <2>1, <2>2 DEF s
<1>3. (1..i) \ {i} = 1..i - 1
  OBVIOUS
<1> QED
  BY <1>1, <1>2, <1>3 DEF Folds

-----------------------------------------------------------------------------
(* Connector: what select_artifact chooses, and what inject leaves. *)

\* What is shared with a request is all of the tokens exactly for a prefix of it.
LEMMA SharedIsPrefix ==
    ASSUME NEW a \in Seq(Nat), NEW b \in Seq(Nat)
    PROVE  /\ Cn!Shared(a, b) \in Nat /\ Cn!Shared(a, b) <= Len(a)
           /\ Cn!Shared(a, b) = Len(a) <=> StartsWith(b, a)
<1> DEFINE low == Cn!Min({Len(a), Len(b)})
           S == {n \in 0..low : SubSeq(a, 1, n) = SubSeq(b, 1, n)}
<1>1. low \in Nat /\ low <= Len(a) /\ low <= Len(b) /\ low \in {Len(a), Len(b)}
  <2>1. Len(a) \in Nat /\ Len(b) \in Nat
    OBVIOUS
  <2>2. PICK x \in {Len(a), Len(b)} : \A y \in {Len(a), Len(b)} : x =< y
    BY <2>1
  <2>3. low \in {Len(a), Len(b)} /\ \A y \in {Len(a), Len(b)} : low =< y
    BY <2>2 DEF Cn!Min
  <2> QED
    BY <2>1, <2>3
<1>2. IsFiniteSet(S) /\ S \subseteq Int /\ S # {}
  <2>1. IsFiniteSet(0..low)
    BY <1>1, FS_Interval
  <2>2. S \subseteq 0..low
    OBVIOUS
  <2>3. 0 \in S
    <3>1. SubSeq(a, 1, 0) = << >> /\ SubSeq(b, 1, 0) = << >>
      OBVIOUS
    <3> QED
      BY <1>1, <3>1
  <2>4. 0..low \subseteq Int
    OBVIOUS
  <2> HIDE DEF S
  <2>5. IsFiniteSet(S)
    BY <2>1, <2>2, FS_Subset
  <2> QED
    BY <2>2, <2>3, <2>4, <2>5
<1>3. Cn!Shared(a, b) = Cn!Max(S)
  BY DEF Cn!Shared
<1> HIDE DEF low
<1>4. Cn!Max(S) \in S /\ \A y \in S : Cn!Max(S) >= y
  <2> HIDE DEF S
  <2>1. Max(S) \in S /\ \A y \in S : Max(S) >= y
    BY <1>2, LargestExists
  <2> QED
    BY <2>1 DEF Max, Cn!Max
<1>5. Cn!Max(S) \in 0..low
  BY <1>4
<1>6. Cn!Max(S) = Len(a) => StartsWith(b, a)
  <2> DEFINE m == Cn!Max(S)
  <2>1. m \in 0..low /\ SubSeq(a, 1, m) = SubSeq(b, 1, m)
    BY <1>4
  <2> HIDE DEF m
  <2>2. m = Len(a) => StartsWith(b, a)
    <3> SUFFICES ASSUME m = Len(a) PROVE StartsWith(b, a)
      OBVIOUS
    <3>1. m \in 0..Len(b)
      BY <1>1, <2>1
    <3>2. SubSeq(a, 1, Len(a)) = a
      OBVIOUS
    <3>3. SubSeq(b, 1, m) = a
      BY <2>1, <3>2
    <3> QED
      BY <3>1, <3>3 DEF StartsWith
  <2> QED
    BY <2>2 DEF m
<1>7. StartsWith(b, a) => Cn!Max(S) = Len(a)
  <2> SUFFICES ASSUME StartsWith(b, a) PROVE Cn!Max(S) = Len(a)
    OBVIOUS
  <2>1. Len(a) \in S
    <3>1. PICK n \in 0..Len(b) : SubSeq(b, 1, n) = a
      BY DEF StartsWith
    <3>2. Len(a) = n
      BY <3>1
    <3>3. SubSeq(a, 1, Len(a)) = a
      OBVIOUS
    <3> QED
      BY <1>1, <3>1, <3>2, <3>3
  <2> HIDE DEF S
  <2> QED
    BY <1>1, <1>4, <1>5, <2>1
<1> HIDE DEF S
<1> QED
  BY <1>1, <1>3, <1>5, <1>6, <1>7

\* An object matches all of its tokens when it may be served, and else none.
LEMMA MatchedIsServed ==
    ASSUME NEW o, o.tokens \in Seq(Nat), NEW shard, NEW live, NEW request \in Seq(Nat)
    PROVE  /\ Cn!Serves(o, shard, live, request) =>
                 /\ Cn!MatchedTokens(o, shard, live, request) = Len(o.tokens)
                 /\ Len(o.tokens) > 0 /\ Len(o.tokens) <= Len(request)
           /\ ~Cn!Serves(o, shard, live, request) =>
                 Cn!MatchedTokens(o, shard, live, request) = 0
<1>1. /\ Cn!Shared(o.tokens, request) \in Nat
      /\ Cn!Shared(o.tokens, request) <= Len(o.tokens)
      /\ Cn!Shared(o.tokens, request) = Len(o.tokens) <=> StartsWith(request, o.tokens)
  BY SharedIsPrefix
<1>2. Cn!StartsWith(request, o.tokens) <=> StartsWith(request, o.tokens)
  BY DEF Cn!StartsWith, StartsWith
<1>3. StartsWith(request, o.tokens) => Len(o.tokens) <= Len(request)
  <2> SUFFICES ASSUME NEW n \in 0..Len(request), SubSeq(request, 1, n) = o.tokens
               PROVE  Len(o.tokens) <= Len(request)
    BY DEF StartsWith
  <2>1. Len(o.tokens) = n
    OBVIOUS
  <2> QED
    BY <2>1
<1>4. o.tokens # << >> => Len(o.tokens) > 0
  OBVIOUS
<1>5. Len(o.tokens) > 0 /\ Len(o.tokens) <= Len(request) => request # << >>
  OBVIOUS
<1>6. Len(o.tokens) \in Nat
  OBVIOUS
<1> DEFINE tokens == o.tokens
           shared == Cn!Shared(tokens, request)
<1>7. Cn!MatchedTokens(o, shard, live, request) =
         IF \/ o.model = 0 \/ o.model # live \/ o.shard # shard
            \/ tokens = << >> \/ request = << >> \/ shared < Len(tokens)
         THEN 0 ELSE shared
  BY DEF Cn!MatchedTokens
<1>8. Cn!Serves(o, shard, live, request) <=>
         /\ o.model = live /\ live # 0 /\ o.shard = shard
         /\ tokens # << >> /\ StartsWith(request, tokens)
  BY <1>2 DEF Cn!Serves
<1> HIDE DEF tokens, shared
<1>9. /\ shared \in Nat /\ Len(tokens) \in Nat /\ shared <= Len(tokens)
      /\ shared = Len(tokens) <=> StartsWith(request, tokens)
      /\ StartsWith(request, tokens) => Len(tokens) <= Len(request)
      /\ tokens # << >> => Len(tokens) > 0
      /\ Len(tokens) > 0 /\ Len(tokens) <= Len(request) => request # << >>
  BY <1>1, <1>3, <1>4, <1>5, <1>6 DEF tokens, shared
<1>10. /\ Cn!Serves(o, shard, live, request) =>
             /\ Cn!MatchedTokens(o, shard, live, request) = Len(tokens)
             /\ Len(tokens) > 0 /\ Len(tokens) <= Len(request)
       /\ ~Cn!Serves(o, shard, live, request) =>
             Cn!MatchedTokens(o, shard, live, request) = 0
  BY <1>7, <1>8, <1>9
<1> QED
  BY <1>10 DEF tokens

\* The fold of SelectArtifact takes one object.
Weighed(shard, live, request, best, object) ==
    IF \/ object.tokens = << >>
       \/ ~Cn!ValidShard(object.shard)
       \/ ~Cn!Better(best, object, Cn!MatchedTokens(object, shard, live, request))
    THEN best
    ELSE [digest |-> object.digest,
          matched |-> Cn!MatchedTokens(object, shard, live, request)]

\* It stays within V.
WeighsWithin(objects, n, shard, live, request, V) ==
    /\ Cn!Nothing \in V
    /\ \A i \in 1..n, v \in V : Weighed(shard, live, request, v, objects[i]) \in V

\* r is the choice after each object.
WeighsUp(r, objects, n, shard, live, request, V) ==
    /\ r \in [0..n -> V]
    /\ r[0] = Cn!Nothing
    /\ r[n] = Cn!SelectArtifact(objects, shard, live, request)
    /\ \A i \in 1..n : r[i] = Weighed(shard, live, request, r[i - 1], objects[i])

LEMMA SelectRuns ==
    ASSUME NEW objects, NEW n \in Nat, DOMAIN objects = 1..n,
           NEW shard, NEW live, NEW request, NEW V,
           WeighsWithin(objects, n, shard, live, request, V)
    PROVE  \E r : WeighsUp(r, objects, n, shard, live, request, V)
<1> DEFINE W(best, object) == Weighed(shard, live, request, best, object)
           g == [i \in 1..n |-> [v \in V |-> W(v, objects[i])]]
           Is(h) == h = [s \in SUBSET (1..n) |->
                            IF s = {} THEN Cn!Nothing ELSE W(h[s \ {Max(s)}], objects[Max(s)])]
           h == CHOOSE h : Is(h)
<1>1. Cn!SelectArtifact(objects, shard, live, request) = h[1..n]
  BY DEF Cn!SelectArtifact, Cn!FoldLeft, Cn!MapThenFoldSet, Weighed, Cn!Max, Max
<1>2. Cn!Nothing \in V /\ \A i \in 1..n, v \in V : W(v, objects[i]) \in V
  BY DEF W, WeighsWithin
<1> HIDE DEF W
<1>3. g \in [1..n -> [V -> V]]
  BY <1>2
<1>4. \A i \in 1..n, v \in V : g[i][v] = W(v, objects[i])
  OBVIOUS
<1> HIDE DEF g
<1>5. PICK f : Folds(f, n, V, Cn!Nothing, g)
  BY <1>2, <1>3, FoldExists
<1>6. \A s \in SUBSET (1..n) : s # {} =>
         s \ {Max(s)} \in SUBSET (1..n) /\ Max(s) \in 1..n
  BY LargestPlace
<1>7. Is(f)
  <2>1. ASSUME NEW s \in SUBSET (1..n)
        PROVE  f[s] = IF s = {} THEN Cn!Nothing ELSE W(f[s \ {Max(s)}], objects[Max(s)])
    BY <1>4, <1>5, <1>6 DEF Folds
  <2>2. f = [s \in SUBSET (1..n) |-> f[s]]
    BY <1>5 DEF Folds
  <2> QED
    BY <2>1, <2>2
<1>8. Is(h)
  <2> HIDE DEF Is
  <2> QED
    BY <1>7
<1> HIDE DEF h
<1>9. h[1..n] = f[1..n]
  <2>1. Follows(h, n, V, Cn!Nothing, g)
    BY <1>4, <1>6, <1>8 DEF Follows
  <2> HIDE DEF Is
  <2> QED
    BY <1>5, <2>1, FoldIsUnique
<1> DEFINE r == [i \in 0..n |-> f[1..i]]
<1>10. /\ r \in [0..n -> V] /\ r[n] = f[1..n]
       /\ r[0] = Cn!Nothing
  BY <1>5 DEF Folds
<1>11. ASSUME NEW i \in 1..n
       PROVE  r[i] = W(r[i - 1], objects[i])
  <2>1. f[1..i] = g[i][f[1..i - 1]]
    BY <1>5, FoldRuns
  <2>2. f[1..i - 1] \in V
    BY <1>5 DEF Folds
  <2> QED
    BY <1>4, <2>1, <2>2
<1> HIDE DEF r
<1> QED
  BY <1>1, <1>9, <1>10, <1>11 DEF W, WeighsUp

\* Of the objects at the places S, the fold has chosen the longest that may be
\* served, and of equally long ones that of the smallest digest.
ChoseLongest(best, objects, S, shard, live, request) ==
    LET able == {j \in S : Cn!Serves(objects[j], shard, live, request)}
    IN  IF able = {} THEN best = Cn!Nothing
        ELSE \E i \in able :
                /\ best = [digest |-> objects[i].digest, matched |-> Len(objects[i].tokens)]
                /\ \A j \in able :
                      \/ Len(objects[j].tokens) < Len(objects[i].tokens)
                      \/ /\ Len(objects[j].tokens) = Len(objects[i].tokens)
                         /\ objects[i].digest <= objects[j].digest

\* n objects in the order the store lists them.
Listed(objects, n) ==
    /\ DOMAIN objects = 1..n
    /\ \A i \in 1..n : objects[i].digest \in Nat /\ objects[i].tokens \in Seq(Nat)

LEMMA LongestIsChosen ==
    ASSUME NEW objects, NEW n \in Nat, Listed(objects, n),
           NEW shard, Cn!ValidShard(shard), NEW live, NEW request \in Seq(Nat)
    PROVE  ChoseLongest(Cn!SelectArtifact(objects, shard, live, request),
                        objects, 1..n, shard, live, request)
<1> DEFINE V == [digest : Nat, matched : Nat]
           Served(i) == Cn!Serves(objects[i], shard, live, request)
           W(v, i) == Weighed(shard, live, request, v, objects[i])
           long(i) == Len(objects[i].tokens)
           hash(i) == objects[i].digest
           one(i) == [digest |-> objects[i].digest, matched |-> long(i)]
<1>1. ASSUME NEW i \in 1..n
      PROVE  hash(i) \in Nat /\ long(i) \in Nat /\ one(i) \in V
  BY DEF Listed
<1>2. ASSUME NEW i \in 1..n, NEW v
      PROVE  /\ ~Served(i) /\ v \in V => W(v, i) = v
             /\ Served(i) => /\ long(i) > 0
                             /\ W(v, i) = IF \/ long(i) > v.matched
                                             \/ /\ long(i) = v.matched
                                                /\ hash(i) < v.digest
                                          THEN one(i) ELSE v
  <2> DEFINE m == Cn!MatchedTokens(objects[i], shard, live, request)
  <2>1. /\ Served(i) => m = long(i) /\ long(i) > 0
        /\ ~Served(i) => m = 0
    BY MatchedIsServed DEF Listed
  <2>2. Served(i) => objects[i].tokens # << >> /\ objects[i].shard = shard
    BY DEF Cn!Serves
  <2>3. W(v, i) = IF \/ objects[i].tokens = << >>
                     \/ ~Cn!ValidShard(objects[i].shard)
                     \/ ~(\/ m > v.matched
                          \/ m = v.matched /\ m > 0 /\ hash(i) < v.digest)
                  THEN v ELSE [digest |-> objects[i].digest, matched |-> m]
    BY DEF Weighed, Cn!Better
  <2> HIDE DEF Served, m, W
  <2>4. ~Served(i) /\ v \in V => W(v, i) = v
    <3> SUFFICES ASSUME ~Served(i), v \in V PROVE W(v, i) = v
      OBVIOUS
    <3>1. ~(0 > v.matched)
      OBVIOUS
    <3> QED
      BY <2>1, <2>3, <3>1
  <2>5. Served(i) => W(v, i) = IF \/ long(i) > v.matched
                                  \/ /\ long(i) = v.matched
                                     /\ hash(i) < v.digest
                               THEN one(i) ELSE v
    <3> HIDE DEF long
    <3> QED
      BY <2>1, <2>2, <2>3
  <2> HIDE DEF long, one, V
  <2> QED
    BY <2>1, <2>4, <2>5
<1> HIDE DEF W, Served, long, one, hash
<1>3. Cn!Nothing \in V /\ Cn!Nothing.matched = 0
  BY DEF Cn!Nothing
<1>5. PICK r \in [0..n -> V] :
         /\ r[0] = Cn!Nothing
         /\ r[n] = Cn!SelectArtifact(objects, shard, live, request)
         /\ \A i \in 1..n : r[i] = W(r[i - 1], i)
  <2>1. \A i \in 1..n, v \in V : W(v, i) \in V
    <3> HIDE DEF V
    <3> QED
      BY <1>1, <1>2
  <2>2. WeighsWithin(objects, n, shard, live, request, V)
    BY <1>3, <2>1 DEF WeighsWithin, W
  <2>4. DOMAIN objects = 1..n
    BY DEF Listed
  <2> HIDE DEF V
  <2>3. \E r : WeighsUp(r, objects, n, shard, live, request, V)
    BY <2>2, <2>4, SelectRuns
  <2> QED
    BY <2>3 DEF W, WeighsUp
<1> DEFINE able(k) == {j \in 1..k : Served(j)}
           Chose(k) == IF able(k) = {} THEN r[k] = Cn!Nothing
                       ELSE \E i \in able(k) :
                               /\ r[k] = one(i)
                               /\ \A j \in able(k) :
                                     \/ long(j) < long(i)
                                     \/ long(j) = long(i) /\ hash(i) <= hash(j)
           G == {k \in 0..n : Chose(k)}
<1>6. 0 \in G
  BY <1>5
<1>7. ASSUME NEW k \in 1..n, k - 1 \in G
      PROVE  k \in G
  <2> SUFFICES Chose(k)
    <3> HIDE DEF Chose
    <3> QED
      OBVIOUS
  <2>1. /\ 1..k = (1..k - 1) \union {k} /\ k \in 1..n
        /\ \A j \in 1..k - 1 : j \in 1..n
    OBVIOUS
  <2>2. r[k] = W(r[k - 1], k) /\ r[k - 1] \in V
    BY <1>5
  <2>3. Chose(k - 1)
    BY <1>7
  <2> HIDE DEF G, V
  <2>4. CASE ~Served(k)
    <3>1. able(k) = able(k - 1)
      BY <2>1, <2>4
    <3>2. r[k] = r[k - 1]
      BY <1>2, <2>2, <2>4
    <3> HIDE DEF able
    <3> QED
      BY <2>3, <3>1, <3>2
  <2>5. CASE Served(k)
    <3>1. able(k) = able(k - 1) \union {k}
      BY <2>1, <2>5
    <3>2. /\ long(k) > 0
          /\ r[k] = IF \/ long(k) > r[k - 1].matched
                       \/ long(k) = r[k - 1].matched /\ hash(k) < r[k - 1].digest
                    THEN one(k) ELSE r[k - 1]
      BY <1>2, <2>2, <2>5
    <3>3. \A j \in able(k) : j \in 1..n
      BY <2>1
    <3> HIDE DEF able
    <3>4. CASE able(k - 1) = {}
      <4>1. r[k] = one(k)
        BY <1>1, <1>3, <2>3, <3>2, <3>4
      <4>2. able(k) = {k} /\ long(k) \in Nat /\ hash(k) \in Nat
        BY <1>1, <3>1, <3>4
      <4> QED
        BY <4>1, <4>2
    <3>5. CASE able(k - 1) # {}
      <4>1. PICK i \in able(k - 1) :
               /\ r[k - 1] = one(i)
               /\ \A j \in able(k - 1) :
                     \/ long(j) < long(i)
                     \/ long(j) = long(i) /\ hash(i) <= hash(j)
        BY <2>3, <3>5
      <4>2. r[k - 1].matched = long(i) /\ r[k - 1].digest = hash(i)
        BY <4>1 DEF one, hash
      <4>3. \A j \in able(k) : long(j) \in Nat /\ hash(j) \in Nat
        BY <1>1, <3>3
      <4>4. k \in able(k) /\ i \in able(k)
        BY <3>1
      <4>5. CASE \/ long(k) > long(i)
                 \/ long(k) = long(i) /\ hash(k) < hash(i)
        <5>1. r[k] = one(k)
          BY <3>2, <4>2, <4>5
        <5>2. ASSUME NEW j \in able(k)
              PROVE  \/ long(j) < long(k)
                     \/ long(j) = long(k) /\ hash(k) <= hash(j)
          <6>1. /\ long(j) \in Nat /\ hash(j) \in Nat
                /\ long(i) \in Nat /\ hash(i) \in Nat
                /\ long(k) \in Nat /\ hash(k) \in Nat
            BY <4>3, <4>4
          <6>2. \/ j = k
                \/ long(j) < long(i)
                \/ long(j) = long(i) /\ hash(i) <= hash(j)
            BY <3>1, <4>1
          <6> HIDE DEF Chose
          <6> QED
            BY <4>5, <6>1, <6>2
        <5> QED
          BY <4>4, <5>1, <5>2
      <4>6. CASE ~(\/ long(k) > long(i)
                   \/ long(k) = long(i) /\ hash(k) < hash(i))
        <5>1. r[k] = one(i)
          BY <3>2, <4>1, <4>2, <4>6
        <5>2. ASSUME NEW j \in able(k)
              PROVE  \/ long(j) < long(i)
                     \/ long(j) = long(i) /\ hash(i) <= hash(j)
          <6>1. /\ long(j) \in Nat /\ hash(j) \in Nat
                /\ long(i) \in Nat /\ hash(i) \in Nat
                /\ long(k) \in Nat /\ hash(k) \in Nat
            BY <4>3, <4>4
          <6>2. \/ j = k
                \/ long(j) < long(i)
                \/ long(j) = long(i) /\ hash(i) <= hash(j)
            BY <3>1, <4>1
          <6> HIDE DEF Chose
          <6> QED
            BY <4>6, <6>1, <6>2
        <5> QED
          BY <4>4, <5>1, <5>2
      <4> QED
        BY <4>5, <4>6
    <3> QED
      BY <3>4, <3>5
  <2> QED
    BY <2>4, <2>5
<1>8. Chose(n)
  <2> HIDE DEF Chose
  <2>1. \A i \in 1..n : i - 1 \in G => i \in G
    BY <1>7
  <2> HIDE DEF G
  <2>2. \A i \in 0..n : i \in G
    BY <1>6, <2>1, UpTo
  <2> QED
    BY <2>2 DEF G
<1> QED
  BY <1>5, <1>8 DEF ChoseLongest, Served, long, one, hash

\* The fold of Inject puts one row.
Put(slots, rows, b, i) == [b EXCEPT ![slots[i] + 1] = rows[i]]

PutsWithin(buffer, slots, rows, n, V) ==
    /\ buffer \in V
    /\ \A i \in 1..n, b \in V : Put(slots, rows, b, i) \in V

\* r is the buffer after each row.
PutsUp(r, buffer, slots, rows, n, V) ==
    /\ r \in [0..n -> V]
    /\ r[0] = buffer
    /\ r[n] = Cn!Inject(buffer, slots, rows)
    /\ \A i \in 1..n : r[i] = Put(slots, rows, r[i - 1], i)

LEMMA InjectRuns ==
    ASSUME NEW buffer, NEW slots, NEW rows, NEW n \in Nat, DOMAIN slots = 1..n,
           NEW V, PutsWithin(buffer, slots, rows, n, V)
    PROVE  \E r : PutsUp(r, buffer, slots, rows, n, V)
<1> DEFINE W(b, i) == Put(slots, rows, b, i)
           g == [i \in 1..n |-> [b \in V |-> W(b, i)]]
           Is(h) == h = [s \in SUBSET (1..n) |->
                            IF s = {} THEN buffer
                            ELSE W(h[s \ {Max(s)}], [i \in 1..n |-> i][Max(s)])]
           h == CHOOSE h : Is(h)
<1>1. Cn!Inject(buffer, slots, rows) = h[1..n]
  BY DEF Cn!Inject, Cn!FoldLeft, Cn!MapThenFoldSet, Put, Cn!Max, Max
<1>2. buffer \in V /\ \A i \in 1..n, b \in V : W(b, i) \in V
  BY DEF W, PutsWithin
<1> HIDE DEF W
<1>3. g \in [1..n -> [V -> V]]
  BY <1>2
<1>4. \A i \in 1..n, b \in V : g[i][b] = W(b, i)
  OBVIOUS
<1> HIDE DEF g
<1>5. PICK f : Folds(f, n, V, buffer, g)
  BY <1>2, <1>3, FoldExists
<1>6. \A s \in SUBSET (1..n) : s # {} =>
         s \ {Max(s)} \in SUBSET (1..n) /\ Max(s) \in 1..n
  BY LargestPlace
<1>7. Is(f)
  <2>1. ASSUME NEW s \in SUBSET (1..n)
        PROVE  f[s] = IF s = {} THEN buffer
                      ELSE W(f[s \ {Max(s)}], [i \in 1..n |-> i][Max(s)])
    BY <1>4, <1>5, <1>6 DEF Folds
  <2>2. f = [s \in SUBSET (1..n) |-> f[s]]
    BY <1>5 DEF Folds
  <2> QED
    BY <2>1, <2>2
<1>8. Is(h)
  <2> HIDE DEF Is
  <2> QED
    BY <1>7
<1> HIDE DEF h
<1>9. h[1..n] = f[1..n]
  <2>1. Follows(h, n, V, buffer, g)
    BY <1>4, <1>6, <1>8 DEF Follows
  <2> HIDE DEF Is
  <2> QED
    BY <1>5, <2>1, FoldIsUnique
<1> DEFINE r == [i \in 0..n |-> f[1..i]]
<1>10. /\ r \in [0..n -> V] /\ r[n] = f[1..n]
       /\ r[0] = buffer
  BY <1>5 DEF Folds
<1>11. ASSUME NEW i \in 1..n
       PROVE  r[i] = W(r[i - 1], i)
  <2>1. f[1..i] = g[i][f[1..i - 1]]
    BY <1>5, FoldRuns
  <2>2. f[1..i - 1] \in V
    BY <1>5 DEF Folds
  <2> QED
    BY <1>4, <2>1, <2>2
<1> HIDE DEF r
<1> QED
  BY <1>1, <1>9, <1>10, <1>11 DEF W, PutsUp

\* Rows put in different slots are all there, and every other row is as before.
LEMMA InjectedIsThere ==
    ASSUME NEW buffer, buffer \in Seq(Range(buffer)), NEW slots \in Seq(Int),
           NEW rows, rows \in Seq(Range(rows))
    PROVE  Cn!InjectedIsExtracted(buffer, slots, rows)
<1> SUFFICES ASSUME Cn!Injects(buffer, slots, rows), Cn!IsInjective(slots)
             PROVE  /\ Cn!Extract(Cn!Inject(buffer, slots, rows), slots) = rows
                    /\ \A i \in DOMAIN buffer : i - 1 \notin Cn!Range(slots) =>
                          Cn!Inject(buffer, slots, rows)[i] = buffer[i]
  BY DEF Cn!InjectedIsExtracted
<1> DEFINE n == Len(slots)
           m == Len(buffer)
           V == [1..m -> Range(buffer) \union Range(rows)]
           at(i) == slots[i] + 1
<1>1. /\ n \in Nat /\ m \in Nat /\ DOMAIN slots = 1..n /\ DOMAIN rows = 1..n
      /\ DOMAIN buffer = 1..m
      /\ \A i \in 1..n : at(i) \in 1..m
      /\ \A i, j \in 1..n : at(i) = at(j) => i = j
      /\ buffer = [j \in 1..m |-> buffer[j]] /\ rows = [i \in 1..n |-> rows[i]]
  <2>1. Len(rows) = n /\ \A i \in DOMAIN slots : slots[i] \in 0..m - 1
    BY DEF Cn!Injects, Cn!Mapped
  <2>2. \A i \in 1..n : slots[i] \in Int
    OBVIOUS
  <2>3. \A i, j \in 1..n : at(i) = at(j) => i = j
    <3>1. \A i, j \in 1..n : slots[i] = slots[j] => i = j
      BY DEF Cn!IsInjective
    <3> QED
      BY <2>2, <3>1
  <2> QED
    BY <2>1, <2>3
<1>2. buffer \in V
  BY <1>1 DEF Range
<1>3. ASSUME NEW i \in 1..n, NEW b \in V
      PROVE  /\ Put(slots, rows, b, i) \in V
             /\ \A j \in 1..m : Put(slots, rows, b, i)[j] = IF j = at(i) THEN rows[i] ELSE b[j]
  <2>1. rows[i] \in Range(rows)
    BY <1>1 DEF Range
  <2> QED
    BY <1>1, <2>1 DEF Put
<1>4. PutsWithin(buffer, slots, rows, n, V)
  <2> HIDE DEF V, n
  <2> QED
    BY <1>2, <1>3 DEF PutsWithin
<1>5. PICK r : PutsUp(r, buffer, slots, rows, n, V)
  <2> HIDE DEF V, n
  <2> QED
    BY <1>1, <1>4, InjectRuns
<1> DEFINE Sound(k) == \A j \in 1..m :
                          /\ \A i \in 1..k : at(i) = j => r[k][j] = rows[i]
                          /\ (\A i \in 1..k : at(i) # j) => r[k][j] = buffer[j]
           G == {k \in 0..n : Sound(k)}
<1> HIDE DEF n, m
<1>6. 0 \in G
  <2>1. r[0] = buffer
    BY <1>5 DEF PutsUp
  <2> QED
    BY <1>1, <2>1
<1>7. ASSUME NEW k \in 1..n, k - 1 \in G
      PROVE  k \in G
  <2>1. r[k] = Put(slots, rows, r[k - 1], k) /\ r[k - 1] \in V
    <3> HIDE DEF V
    <3> QED
      BY <1>1, <1>5 DEF PutsUp
  <2>2. \A j \in 1..m : r[k][j] = IF j = at(k) THEN rows[k] ELSE r[k - 1][j]
    <3> HIDE DEF V, at
    <3> QED
      BY <1>3, <2>1
  <2>3. 1..k = (1..k - 1) \union {k} /\ \A i \in 1..k : i \in 1..n
    BY <1>1
  <2>4. Sound(k - 1)
    BY <1>7
  <2>5. ASSUME NEW j \in 1..m
        PROVE  /\ \A i \in 1..k : at(i) = j => r[k][j] = rows[i]
               /\ (\A i \in 1..k : at(i) # j) => r[k][j] = buffer[j]
    <3> HIDE DEF V, at, G
    <3>1. ASSUME NEW i \in 1..k, at(i) = j
          PROVE  r[k][j] = rows[i]
      <4>1. CASE i = k
        BY <2>2, <3>1, <4>1
      <4>2. CASE i # k
        <5>1. i \in 1..k - 1 /\ at(k) # j
          BY <1>1, <2>3, <3>1, <4>2
        <5> QED
          BY <2>2, <2>4, <3>1, <5>1
      <4> QED
        BY <4>1, <4>2
    <3>2. ASSUME \A i \in 1..k : at(i) # j
          PROVE  r[k][j] = buffer[j]
      <4>1. at(k) # j /\ \A i \in 1..k - 1 : at(i) # j
        BY <2>3, <3>2
      <4> QED
        BY <2>2, <2>4, <4>1
    <3> QED
      BY <3>1, <3>2
  <2>6. Sound(k)
    BY <2>5
  <2> HIDE DEF Sound
  <2> QED
    BY <2>6
<1>8. Sound(n)
  <2> HIDE DEF Sound
  <2>1. \A i \in 1..n : i - 1 \in G => i \in G
    BY <1>7
  <2> HIDE DEF G
  <2>2. \A i \in 0..n : i \in G
    BY <1>1, <1>6, <2>1, UpTo
  <2>3. n \in G
    BY <1>1, <2>2
  <2> QED
    BY <2>3 DEF G
<1> DEFINE after == Cn!Inject(buffer, slots, rows)
<1>9. after = r[n]
  BY <1>5 DEF PutsUp
<1>10. Cn!Extract(after, slots) = rows
  <2>1. \A i \in 1..n : after[at(i)] = rows[i]
    BY <1>1, <1>8, <1>9
  <2> HIDE DEF after
  <2>2. Cn!Extract(after, slots) = [i \in 1..n |-> rows[i]]
    BY <1>1, <2>1 DEF Cn!Extract
  <2> QED
    BY <1>1, <2>2
<1>11. ASSUME NEW j \in DOMAIN buffer, j - 1 \notin Cn!Range(slots)
       PROVE  after[j] = buffer[j]
  <2>1. j \in 1..m /\ \A i \in 1..n : at(i) # j
    <3>1. j \in 1..m
      BY <1>1
    <3>2. \A i \in 1..n : slots[i] \in Int /\ slots[i] # j - 1
      BY <1>1, <1>11 DEF Cn!Range
    <3> QED
      BY <3>1, <3>2
  <2> QED
    BY <1>8, <1>9, <2>1
<1> QED
  BY <1>10, <1>11

-----------------------------------------------------------------------------
(* ModelFile: the shards the pattern finds. *)

\* The fold of ShardsOf adds a file whose name the pattern meets.
Globbed(first, f) == StartsWith(f.stem, first.stem) /\ f.total = first.total

\* r is what the pattern found after each file.
GlobsUp(r, dir, first, n, V) ==
    /\ r \in [0..n -> V]
    /\ r[0] = << >>
    /\ r[n] = Mf!ShardsOf(dir, first)
    /\ \A i \in 1..n : r[i] = IF Globbed(first, dir[i]) THEN Append(r[i - 1], dir[i])
                              ELSE r[i - 1]

LEMMA GlobRuns ==
    ASSUME NEW dir, NEW n \in Nat, DOMAIN dir = 1..n, NEW first, first.total # 0,
           NEW Values, \A i \in 1..n : dir[i] \in Values
    PROVE  \E r : GlobsUp(r, dir, first, n, Seq(Values))
<1> DEFINE V == Seq(Values)
           W(v, f) == IF Globbed(first, f) THEN Append(v, f) ELSE v
           g == [i \in 1..n |-> [v \in V |-> W(v, dir[i])]]
           Is(h) == h = [s \in SUBSET (1..n) |->
                            IF s = {} THEN << >> ELSE W(h[s \ {Max(s)}], dir[Max(s)])]
           h == CHOOSE h : Is(h)
<1>1. Mf!ShardsOf(dir, first) = h[1..n]
  BY DEF Mf!ShardsOf, Mf!FoldLeft, Mf!MapThenFoldSet, Globbed, Mf!Max, Max,
         Mf!StartsWith, StartsWith
<1>2. << >> \in V /\ \A i \in 1..n, v \in V : W(v, dir[i]) \in V
  OBVIOUS
<1> HIDE DEF W, V
<1>3. g \in [1..n -> [V -> V]]
  BY <1>2
<1>4. \A i \in 1..n, v \in V : g[i][v] = W(v, dir[i])
  OBVIOUS
<1> HIDE DEF g
<1>5. PICK f : Folds(f, n, V, << >>, g)
  BY <1>2, <1>3, FoldExists
<1>6. \A s \in SUBSET (1..n) : s # {} =>
         s \ {Max(s)} \in SUBSET (1..n) /\ Max(s) \in 1..n
  BY LargestPlace
<1>7. Is(f)
  <2>1. ASSUME NEW s \in SUBSET (1..n)
        PROVE  f[s] = IF s = {} THEN << >> ELSE W(f[s \ {Max(s)}], dir[Max(s)])
    BY <1>4, <1>5, <1>6 DEF Folds
  <2>2. f = [s \in SUBSET (1..n) |-> f[s]]
    BY <1>5 DEF Folds
  <2> QED
    BY <2>1, <2>2
<1>8. Is(h)
  <2> HIDE DEF Is
  <2> QED
    BY <1>7
<1> HIDE DEF h
<1>9. h[1..n] = f[1..n]
  <2>1. Follows(h, n, V, << >>, g)
    BY <1>4, <1>6, <1>8 DEF Follows
  <2> HIDE DEF Is
  <2> QED
    BY <1>5, <2>1, FoldIsUnique
<1> DEFINE r == [i \in 0..n |-> f[1..i]]
<1>10. /\ r \in [0..n -> V] /\ r[n] = f[1..n]
       /\ r[0] = << >>
  BY <1>5 DEF Folds
<1>11. ASSUME NEW i \in 1..n
       PROVE  r[i] = W(r[i - 1], dir[i])
  <2>1. f[1..i] = g[i][f[1..i - 1]]
    BY <1>5, FoldRuns
  <2>2. f[1..i - 1] \in V
    BY <1>5 DEF Folds
  <2> QED
    BY <1>4, <2>1, <2>2
<1> HIDE DEF r
<1> QED
  BY <1>1, <1>9, <1>10, <1>11 DEF W, V, GlobsUp

\* Where the pattern meets every file of the directory, the shards are all of it.
LEMMA AllOfTheDirectory ==
    ASSUME NEW dir, dir \in Seq(Range(dir)), NEW first, first.total # 0,
           \A f \in Range(dir) : StartsWith(f.stem, first.stem) /\ f.total = first.total
    PROVE  Mf!ShardsOf(dir, first) = dir
<1> DEFINE n == Len(dir)
           V == Seq(Range(dir))
<1>1. /\ n \in Nat /\ DOMAIN dir = 1..n /\ dir = [i \in 1..n |-> dir[i]]
      /\ \A i \in 1..n : dir[i] \in Range(dir)
  BY DEF Range
<1>2. \A i \in 1..n : Globbed(first, dir[i])
  BY <1>1 DEF Globbed
<1>3. PICK r : GlobsUp(r, dir, first, n, V)
  <2> HIDE DEF n
  <2> QED
    BY <1>1, GlobRuns
<1> DEFINE G == {k \in 0..n : Len(r[k]) = k /\ \A i \in 1..k : r[k][i] = dir[i]}
<1> HIDE DEF n
<1>4. 0 \in G
  BY <1>1, <1>3 DEF GlobsUp
<1>5. ASSUME NEW k \in 1..n, k - 1 \in G
      PROVE  k \in G
  <2>1. r[k] = Append(r[k - 1], dir[k]) /\ r[k - 1] \in V /\ k - 1 \in 0..n
    <3> HIDE DEF V, G
    <3>1. k - 1 \in 0..n
      BY <1>1
    <3>2. r[k - 1] \in V
      BY <1>3, <3>1 DEF GlobsUp
    <3>3. r[k] = Append(r[k - 1], dir[k])
      BY <1>2, <1>3 DEF GlobsUp
    <3> QED
      BY <3>1, <3>2, <3>3
  <2>2. /\ Len(r[k - 1]) = k - 1 /\ \A i \in 1..k - 1 : r[k - 1][i] = dir[i]
    BY <1>5
  <2>3. Len(r[k]) = k /\ \A i \in 1..k : r[k][i] = dir[i]
    <3>1. dir[k] \in Range(dir)
      BY <1>1
    <3>2. /\ Len(r[k]) = k - 1 + 1 /\ r[k][k] = dir[k]
          /\ \A i \in 1..k - 1 : r[k][i] = r[k - 1][i]
      BY <1>1, <2>1, <2>2, <3>1
    <3>3. \A i \in 1..k : i = k \/ i \in 1..k - 1
      BY <1>1
    <3> HIDE DEF G, V
    <3>4. ASSUME NEW i \in 1..k
          PROVE  r[k][i] = dir[i]
      <4>1. CASE i = k
        BY <3>2, <4>1
      <4>2. CASE i \in 1..k - 1
        BY <2>2, <3>2, <4>2
      <4> QED
        BY <3>3, <4>1, <4>2
    <3>5. Len(r[k]) = k
      BY <1>1, <3>2
    <3> QED
      BY <3>4, <3>5
  <2>4. k \in 0..n
    <3> HIDE DEF G, V
    <3> QED
      BY <1>1
  <2> HIDE DEF V
  <2> QED
    BY <2>3, <2>4
<1>6. n \in G
  <2>1. \A i \in 1..n : i - 1 \in G => i \in G
    BY <1>5
  <2> HIDE DEF G
  <2>2. \A i \in 0..n : i \in G
    BY <1>1, <1>4, <2>1, UpTo
  <2> QED
    BY <1>1, <2>2
<1>7. r[n] \in V /\ r[n] = Mf!ShardsOf(dir, first)
  <2> HIDE DEF V
  <2> QED
    BY <1>1, <1>3 DEF GlobsUp
<1> QED
  BY <1>1, <1>6, <1>7

(* A request is served the longest artifact there is for it, and is never told
   of more tokens than it has. *)
LEMMA RequestsAreServed ==
    ASSUME NEW c \in Requests
    PROVE  /\ Cn!ServesTheLongest(c.objects, c.shard, c.live, c.request)
           /\ LET new == Cn!NewTokens(c.objects, c.shard, c.live, c.request, c.computed)
              IN  new > 0 => c.computed + new <= Len(c.request)
<1> DEFINE objects == c.objects
           n == Len(objects)
           chosen == Cn!SelectArtifact(objects, c.shard, c.live, c.request)
           able == {j \in 1..n : Cn!Serves(objects[j], c.shard, c.live, c.request)}
<1>1. /\ n \in Nat /\ DOMAIN objects = 1..n
      /\ Range(objects) = {objects[j] : j \in 1..n}
      /\ Cn!Range(objects) = {objects[j] : j \in 1..n}
      /\ c.request \in Seq(Nat) /\ c.computed \in Nat
  <2>1. objects \in Seq(Range(objects)) /\ c.request \in Seq(Nat) /\ c.computed \in Nat
    BY RequestAssumption
  <2>2. n \in Nat /\ DOMAIN objects = 1..n
    <3> HIDE DEF objects
    <3> QED
      BY <2>1
  <2> HIDE DEF objects, n
  <2> QED
    BY <2>1, <2>2 DEF Range, Cn!Range
<1>2. \A j \in 1..n : objects[j].digest \in Nat /\ objects[j].tokens \in Seq(Nat)
  BY <1>1, RequestAssumption
<1>3. Cn!ValidShard(c.shard)
  BY RequestAssumption DEF Cn!ValidShard
<1> HIDE DEF objects, n
<1>4. Listed(objects, n)
  BY <1>1, <1>2 DEF Listed
<1>5. ChoseLongest(chosen, objects, 1..n, c.shard, c.live, c.request)
  BY <1>1, <1>3, <1>4, LongestIsChosen
<1>6. Cn!ServesTheLongest(objects, c.shard, c.live, c.request)
  <2>1. {o \in Cn!Range(objects) : Cn!Serves(o, c.shard, c.live, c.request)}
          = {objects[j] : j \in able}
    BY <1>1
  <2>2. CASE able = {}
    <3>1. chosen = Cn!Nothing
      BY <1>5, <2>2 DEF ChoseLongest
    <3> QED
      BY <2>1, <2>2, <3>1 DEF Cn!ServesTheLongest
  <2>3. CASE able # {}
    <3>1. PICK i \in able :
             /\ chosen = [digest |-> objects[i].digest, matched |-> Len(objects[i].tokens)]
             /\ \A j \in able :
                   \/ Len(objects[j].tokens) < Len(objects[i].tokens)
                   \/ /\ Len(objects[j].tokens) = Len(objects[i].tokens)
                      /\ objects[i].digest <= objects[j].digest
      BY <1>5, <2>3 DEF ChoseLongest
    <3> HIDE DEF able, chosen
    <3>2. \A p \in {objects[j] : j \in able} :
             \/ Len(p.tokens) < Len(objects[i].tokens)
             \/ /\ Len(p.tokens) = Len(objects[i].tokens)
                /\ objects[i].digest <= p.digest
      BY <3>1
    <3>3. objects[i] \in {objects[j] : j \in able}
      BY <3>1
    <3> QED
      BY <2>1, <3>1, <3>2, <3>3 DEF Cn!ServesTheLongest, chosen
  <2> QED
    BY <2>2, <2>3
<1>7. chosen.matched \in Nat /\ chosen.matched <= Len(c.request)
  <2>1. CASE able = {}
    BY <1>1, <1>5, <2>1 DEF ChoseLongest, Cn!Nothing
  <2>2. CASE able # {}
    <3>1. PICK i \in able : chosen.matched = Len(objects[i].tokens)
      <4>1. PICK i \in able :
               chosen = [digest |-> objects[i].digest, matched |-> Len(objects[i].tokens)]
        BY <1>5, <2>2 DEF ChoseLongest
      <4> HIDE DEF chosen, able
      <4> QED
        BY <4>1
    <3>2. objects[i].tokens \in Seq(Nat)
      BY <1>2, <3>1
    <3> HIDE DEF chosen
    <3> QED
      BY <1>1, <3>1, <3>2, MatchedIsServed
  <2> QED
    BY <2>1, <2>2
<1>8. ASSUME NEW new, new = Cn!NewTokens(objects, c.shard, c.live, c.request, c.computed),
             new > 0
      PROVE  c.computed + new <= Len(c.request)
  <2> DEFINE S == {0, chosen.matched - c.computed}
  <2> HIDE DEF chosen
  <2>1. new = Cn!Max(S)
    BY <1>8 DEF Cn!NewTokens, chosen
  <2>2. PICK x \in S : \A y \in S : x >= y
    BY <1>1, <1>7
  <2>3. new \in S
    <3> HIDE DEF S
    <3> QED
      BY <2>1, <2>2 DEF Cn!Max
  <2> QED
    BY <1>1, <1>7, <1>8, <2>3
<1> QED
  BY <1>6, <1>8 DEF objects

\* Rows go to the slots named, and to no other.
LEMMA RowsAreTheirs ==
    ASSUME NEW c \in Injections
    PROVE  Cn!InjectedIsExtracted(c.buffer, c.slots, c.rows)
  BY InjectedIsThere, InjectionAssumption

(* Two models whose weights have one digest hold the same bytes. *)
LEMMA WeightsAreTheirBytes ==
    ASSUME NEW c \in Lookups, NEW r \in {c.runtime, c.by}
    PROVE  Mf!ShardsOf(r.weights.dir, r.weights.first) = r.weights.dir
<1>1. CASE r.weights.first.total = 0
  BY <1>1, LookupAssumption DEF Mf!ShardsOf
<1>2. CASE r.weights.first.total # 0
  <2> DEFINE dir == r.weights.dir
             first == r.weights.first
  <2>1. /\ dir \in Seq(Range(dir))
        /\ \A f \in Range(dir) : StartsWith(f.stem, first.stem) /\ f.total = first.total
    BY <1>2, LookupAssumption
  <2>2. first.total # 0
    BY <1>2
  <2> HIDE DEF dir, first
  <2>3. Mf!ShardsOf(dir, first) = dir
    BY <2>1, <2>2, AllOfTheDirectory
  <2> QED
    BY <2>3 DEF dir, first
<1> QED
  BY <1>1, <1>2

NamedOf(r) == [r EXCEPT !.weights = Mf!ModelContentDigest(Mf!ShardsOf(@.dir, @.first))]

(* The digest of a key is the key with its adapters, notes and flags sorted. *)
LEMMA DigestIs ==
    ASSUME NEW p, NEW r, NEW e
    PROVE  LET key == Cp!Key(p, r, e, 0)
               m   == Cp!KeyDigest(key)
           IN  /\ m.prompt = key.prompt /\ m.encoding = e /\ m.format = key.format
               /\ m.model.tokenizer = r.tokenizer /\ m.model.template = r.template
               /\ m.model.arch = r.arch /\ m.model.weights = r.weights
               /\ m.model.adapters = Cp!Sorted(r.adapters) /\ m.model.notes = Cp!Sorted(r.notes)
               /\ m.abi.fields = r.abi /\ m.abi.flags = Cp!Sorted(r.flags)
<1> DEFINE key == Cp!Key(p, r, e, 0)
           k1 == [key EXCEPT !.model.adapters = Cp!Sorted(@)]
           k2 == [k1 EXCEPT !.model.notes = Cp!Sorted(@)]
           k3 == [k2 EXCEPT !.abi.flags = Cp!Sorted(@)]
           model(a, n) == [arch |-> r.arch, weights |-> r.weights, tokenizer |-> r.tokenizer,
                           template |-> r.template, adapters |-> a, notes |-> n]
           rest(x, flags) == [prompt |-> key.prompt, model |-> x,
                              abi |-> [fields |-> r.abi, flags |-> flags], encoding |-> e,
                              format |-> key.format, mapper |-> 0]
<1>1. Cp!KeyDigest(key) = k3
  BY DEF Cp!KeyDigest
<1>2. key = rest(model(r.adapters, r.notes), r.flags)
  BY DEF Cp!Key, Cp!ModelIdentity
<1> HIDE DEF key
<1>3. k1 = rest(model(Cp!Sorted(r.adapters), r.notes), r.flags)
  BY <1>2
<1> HIDE DEF k1
<1>4. k2 = rest(model(Cp!Sorted(r.adapters), Cp!Sorted(r.notes)), r.flags)
  BY <1>3
<1> HIDE DEF k2
<1>5. k3 = rest(model(Cp!Sorted(r.adapters), Cp!Sorted(r.notes)), Cp!Sorted(r.flags))
  BY <1>4
<1> HIDE DEF k3
<1> QED
  BY <1>1, <1>5 DEF key

(* The digest of a key tells what the key is, but for the order of adapters,
   notes and flags. *)
LEMMA DigestsTellKeys ==
    ASSUME NEW p, NEW r, NEW e, NEW q, NEW b, NEW k,
           NEW mine, mine = Cp!Key(p, r, e, 0), NEW theirs, theirs = Cp!Key(q, b, k, 0),
           Cp!KeyDigest(mine) = Cp!KeyDigest(theirs)
    PROVE  /\ mine.prompt = theirs.prompt
           /\ r.tokenizer = b.tokenizer /\ r.template = b.template
           /\ r.arch = b.arch /\ r.weights = b.weights
           /\ Cp!Sorted(r.adapters) = Cp!Sorted(b.adapters)
           /\ Cp!Sorted(r.notes) = Cp!Sorted(b.notes)
           /\ r.abi = b.abi /\ Cp!Sorted(r.flags) = Cp!Sorted(b.flags)
           /\ e = k /\ mine.format = theirs.format
<1> DEFINE m == Cp!KeyDigest(mine)
           t == Cp!KeyDigest(theirs)
<1>1. /\ m.prompt = mine.prompt /\ m.encoding = e /\ m.format = mine.format
      /\ m.model.tokenizer = r.tokenizer /\ m.model.template = r.template
      /\ m.model.arch = r.arch /\ m.model.weights = r.weights
      /\ m.model.adapters = Cp!Sorted(r.adapters) /\ m.model.notes = Cp!Sorted(r.notes)
      /\ m.abi.fields = r.abi /\ m.abi.flags = Cp!Sorted(r.flags)
  BY DigestIs
<1>2. /\ t.prompt = theirs.prompt /\ t.encoding = k /\ t.format = theirs.format
      /\ t.model.tokenizer = b.tokenizer /\ t.model.template = b.template
      /\ t.model.arch = b.arch /\ t.model.weights = b.weights
      /\ t.model.adapters = Cp!Sorted(b.adapters) /\ t.model.notes = Cp!Sorted(b.notes)
      /\ t.abi.fields = b.abi /\ t.abi.flags = Cp!Sorted(b.flags)
  BY DigestIs
<1>3. m = t
  OBVIOUS
<1> HIDE DEF m, t
<1> QED
  BY <1>1, <1>2, <1>3

(* A record is found only under the key it was stored under, a key tells apart
   whatever changes the bytes, and what is put beside it does not hide it. *)
LEMMA LookupsFindTheirOwn ==
    ASSUME NEW c \in Lookups, NEW runtime, runtime = NamedOf(c.runtime),
           NEW by, by = NamedOf(c.by),
           NEW mine, mine = Cp!Key(c.prefix, runtime, c.encoding, 0),
           NEW theirs, theirs = Cp!Key(c.other, by, c.kept, 0),
           NEW own, own = <<c.other, by, c.kept>>,
           NEW stored, stored = [key \in {Cp!KeyDigest(theirs)} |-> own],
           NEW both,
           both = [key \in {Cp!KeyDigest(mine), Cp!KeyDigest(theirs)} |->
                      IF key = Cp!KeyDigest(mine) THEN <<c.prefix, runtime, c.encoding>> ELSE own]
    PROVE  /\ Cp!FoundIsOwn(c.prefix, runtime, c.other, by, c.kept, c.encoding,
                            Cp!Resolve(c.prefix, runtime, stored, c.encoding))
           /\ Cp!StaysBeside(mine, theirs, own, Cp!Resolve(c.other, by, both, c.kept))
           /\ runtime.weights = by.weights =>
                 [i \in DOMAIN c.runtime.weights.dir |-> c.runtime.weights.dir[i].bytes]
               = [i \in DOMAIN c.by.weights.dir |-> c.by.weights.dir[i].bytes]
<1> DEFINE found == Cp!Resolve(c.prefix, runtime, stored, c.encoding)
           a == Cp!KeyDigest(mine)
           b == Cp!KeyDigest(theirs)
<1>1. ASSUME found # None
      PROVE  a = b
  <2> HIDE DEF a, b
  <2>1. a \in DOMAIN stored
    BY <1>1 DEF Cp!Resolve, a
  <2>2. DOMAIN stored = {b}
    BY DEF b
  <2> QED
    BY <2>1, <2>2
<1>2. ASSUME a = b
      PROVE  /\ mine.prompt = theirs.prompt
             /\ runtime.tokenizer = by.tokenizer /\ runtime.template = by.template
             /\ runtime.arch = by.arch /\ runtime.weights = by.weights
             /\ Cp!Sorted(runtime.adapters) = Cp!Sorted(by.adapters)
             /\ Cp!Sorted(runtime.notes) = Cp!Sorted(by.notes)
             /\ runtime.abi = by.abi /\ Cp!Sorted(runtime.flags) = Cp!Sorted(by.flags)
             /\ c.encoding = c.kept /\ mine.format = theirs.format
  <2>1. Cp!KeyDigest(mine) = Cp!KeyDigest(theirs)
    BY <1>2
  <2> QED
    BY <2>1, DigestsTellKeys
<1> HIDE DEF a, b
<1>3. Cp!FoundIsOwn(c.prefix, runtime, c.other, by, c.kept, c.encoding, found)
  <2> HIDE DEF found
  <2> SUFFICES ASSUME found # None
               PROVE  /\ <<runtime.tokenizer, runtime.template>> = <<by.tokenizer, by.template>>
                      /\ TextTokens(runtime.tokenizer, c.prefix.text)
                            = TextTokens(by.tokenizer, c.other.text)
                      /\ <<runtime.arch, runtime.weights, runtime.abi>>
                            = <<by.arch, by.weights, by.abi>>
                      /\ Cp!Sorted(runtime.adapters) = Cp!Sorted(by.adapters)
                      /\ Cp!Sorted(runtime.notes) = Cp!Sorted(by.notes)
                      /\ Cp!Sorted(runtime.flags) = Cp!Sorted(by.flags)
                      /\ c.encoding = c.kept
                      /\ c.encoding = "opaque" => runtime.format = by.format
    BY DEF Cp!FoundIsOwn
  <2>1. a = b
    BY <1>1
  <2>2. TextTokens(runtime.tokenizer, c.prefix.text) = TextTokens(by.tokenizer, c.other.text)
    <3>1. mine.prompt = theirs.prompt
      BY <1>2, <2>1
    <3>2. /\ mine.prompt.tokens = TextTokens(runtime.tokenizer, c.prefix.text)
          /\ theirs.prompt.tokens = TextTokens(by.tokenizer, c.other.text)
      BY DEF Cp!Key, Cp!PromptDigest
    <3> QED
      BY <3>1, <3>2
  <2>3. c.encoding = "opaque" => runtime.format = by.format
    <3>1. c.encoding = c.kept /\ mine.format = theirs.format
      BY <1>2, <2>1
    <3>2. /\ mine.format = IF c.encoding = "opaque" THEN runtime.format ELSE 0
          /\ theirs.format = IF c.kept = "opaque" THEN by.format ELSE 0
      BY DEF Cp!Key
    <3> QED
      BY <3>1, <3>2
  <2> QED
    BY <1>2, <2>1, <2>2, <2>3
<1>4. Cp!StaysBeside(mine, theirs, own, Cp!Resolve(c.other, by, both, c.kept))
  <2> SUFFICES ASSUME Cp!Coexist(mine, theirs),
                      [mine EXCEPT !.abi.flags = theirs.abi.flags] # theirs
               PROVE  Cp!Resolve(c.other, by, both, c.kept) \in {None, own}
    BY DEF Cp!StaysBeside
  <2>1. a # b
    <3> SUFFICES ASSUME a = b PROVE FALSE
      OBVIOUS
    <3>1. /\ mine.prompt = theirs.prompt /\ runtime.abi = by.abi
          /\ c.encoding = c.kept /\ mine.format = theirs.format
      BY <1>2
    <3>2. mine.model = theirs.model
      BY DEF Cp!Coexist
    <3>3. /\ mine = [prompt |-> mine.prompt, model |-> mine.model,
                     abi |-> [fields |-> runtime.abi, flags |-> runtime.flags],
                     encoding |-> c.encoding, format |-> mine.format, mapper |-> 0]
          /\ theirs = [prompt |-> theirs.prompt, model |-> theirs.model,
                       abi |-> [fields |-> by.abi, flags |-> by.flags],
                       encoding |-> c.kept, format |-> theirs.format, mapper |-> 0]
      BY DEF Cp!Key
    <3> DEFINE turned == [mine EXCEPT !.abi.flags = theirs.abi.flags]
    <3>4. turned = [prompt |-> mine.prompt, model |-> mine.model,
                    abi |-> [fields |-> runtime.abi, flags |-> by.flags],
                    encoding |-> c.encoding, format |-> mine.format, mapper |-> 0]
      BY <3>3
    <3> QED
      BY <3>1, <3>2, <3>3, <3>4
  <2>2. both[b] = own
    <3>1. both = [key \in {a, b} |->
                     IF key = a THEN <<c.prefix, runtime, c.encoding>> ELSE own]
      BY DEF a, b
    <3> QED
      BY <2>1, <3>1
  <2> QED
    BY <2>2 DEF Cp!Resolve, b
<1>5. ASSUME runtime.weights = by.weights
      PROVE  [i \in DOMAIN c.runtime.weights.dir |-> c.runtime.weights.dir[i].bytes]
           = [i \in DOMAIN c.by.weights.dir |-> c.by.weights.dir[i].bytes]
  <2>1. /\ runtime.weights = Mf!ModelContentDigest(c.runtime.weights.dir)
        /\ by.weights = Mf!ModelContentDigest(c.by.weights.dir)
    <3>1. "weights" \in DOMAIN c.runtime /\ "weights" \in DOMAIN c.by
      BY LookupAssumption
    <3> QED
      BY <3>1, WeightsAreTheirBytes DEF NamedOf
  <2> DEFINE d == c.runtime.weights.dir
             e == c.by.weights.dir
             A == Mf!ModelContentDigest(d)
             B == Mf!ModelContentDigest(e)
  <2>2. A = B
    BY <1>5, <2>1
  <2> HIDE DEF d, e
  <2>3. /\ DOMAIN A = DOMAIN d /\ \A i \in DOMAIN d : A[i].sha = d[i].bytes
        /\ DOMAIN B = DOMAIN e /\ \A i \in DOMAIN e : B[i].sha = e[i].bytes
    BY DEF Mf!ModelContentDigest
  <2> HIDE DEF A, B
  <2>4. DOMAIN d = DOMAIN e /\ \A i \in DOMAIN d : d[i].bytes = e[i].bytes
    BY <2>2, <2>3
  <2> QED
    BY <2>4 DEF d, e
<1> QED
  BY <1>3, <1>4, <1>5

(* A request is served the longest artifact of its own model and shard that is
   a prefix of it, rows are read back from where they were put, and an artifact
   is found only by a runtime that agrees with the one that stored it: for any
   number of objects and rows, and any prefixes and runtimes. *)
THEOREM FoundStaysOwn == Spec => []FoundIsOwn
<1>1. CallInv => FoundIsOwn
  <2> SUFFICES ASSUME CallInv
               PROVE  FoundIsOwn
    OBVIOUS
  <2>1. Of("request", LAMBDA c :
          LET new == Cn!NewTokens(c.objects, c.shard, c.live, c.request, c.computed)
          IN  /\ Cn!ServesTheLongest(c.objects, c.shard, c.live, c.request)
              /\ new > 0 => c.computed + new <= Len(c.request))
    BY RequestsAreServed DEF CallInv, Of
  <2>2. Of("rows", LAMBDA c : Cn!InjectedIsExtracted(c.buffer, c.slots, c.rows))
    BY RowsAreTheirs DEF CallInv, Of
  <2>3. call.rule = "lookup" => call.of \in Lookups
    BY DEF CallInv
  <2> QED
    BY <2>1, <2>2, <2>3, LookupsFindTheirOwn DEF FoundIsOwn, Of, NamedOf
<1> QED
  BY <1>1, CallsAreOfTheirFamily, PTL

-----------------------------------------------------------------------------
(* Folds over a finite set.  Which member is taken last of a set is a function
   ch of the set, and the step a function g of the member and of what the rest
   came to, so that the lemmas hold for every fold. *)
Chooses(ch, S) == \A s \in SUBSET S : s # {} => ch[s] \in s

\* What a fold with the steps g comes to at each subset.
SetFolds(f, S, V, b, ch, g) ==
    /\ f \in [SUBSET S -> V]
    /\ f[{}] = b
    /\ \A s \in SUBSET S : s # {} => f[s] = g[ch[s]][f[s \ {ch[s]}]]

\* h takes the same steps as long as it stays within V.
SetFollows(h, S, V, b, ch, g) ==
    /\ h[{}] = b
    /\ \A s \in SUBSET S : s # {} /\ h[s \ {ch[s]}] \in V
                              => h[s] = g[ch[s]][h[s \ {ch[s]}]]

\* A fold comes to one thing only, on whatever sets it is looked at.
LEMMA SetFoldIsUnique ==
    ASSUME NEW S, NEW V, NEW b, NEW ch, NEW g, NEW f, SetFolds(f, S, V, b, ch, g),
           NEW Q, NEW h, SetFollows(h, Q, V, b, ch, g),
           NEW U, IsFiniteSet(U), U \subseteq S, U \subseteq Q, Chooses(ch, U)
    PROVE  h[U] = f[U]
<1> DEFINE G == {s \in SUBSET U : h[s] = f[s]}
<1>1. ASSUME NEW s \in SUBSET U, \A r \in SUBSET s : r # s => r \in G
      PROVE  s \in G
  <2>1. CASE s = {}
    BY <2>1 DEF SetFolds, SetFollows
  <2>2. CASE s # {}
    <3>1. /\ s \ {ch[s]} \in SUBSET s /\ s \ {ch[s]} # s
          /\ s \in SUBSET S /\ s \in SUBSET Q /\ s \ {ch[s]} \in SUBSET S
      BY <2>2 DEF Chooses
    <3>2. h[s \ {ch[s]}] = f[s \ {ch[s]}]
      BY <1>1, <3>1
    <3>3. f[s] = g[ch[s]][f[s \ {ch[s]}]] /\ f[s \ {ch[s]}] \in V
      BY <2>2, <3>1 DEF SetFolds
    <3>4. h[s] = g[ch[s]][h[s \ {ch[s]}]]
      BY <2>2, <3>1, <3>2, <3>3 DEF SetFollows
    <3> QED
      BY <3>2, <3>3, <3>4
  <2> QED
    BY <2>1, <2>2
<1>2. U \in G
  <2> HIDE DEF G
  <2> QED
    BY <1>1, SubsetInduction
<1> QED
  BY <1>2

\* And there is one, whatever its steps.
LEMMA SetFoldExists ==
    ASSUME NEW S, IsFiniteSet(S), NEW V, NEW b \in V, NEW ch, Chooses(ch, S),
           NEW g \in [S -> [V -> V]]
    PROVE  \E f : SetFolds(f, S, V, b, ch, g)
<1> DEFINE F(r) == CHOOSE f : SetFolds(f, r, V, b, ch, g)
           G == {s \in SUBSET S : \E f : SetFolds(f, s, V, b, ch, g)}
<1>1. ASSUME NEW s \in SUBSET S, \A r \in SUBSET s : r # s => r \in G
      PROVE  s \in G
  <2> DEFINE less(r) == r \ {ch[r]}
             W == [r \in SUBSET s |-> IF r = {} THEN b ELSE g[ch[r]][F(less(r))[less(r)]]]
  <2>1. \A r \in SUBSET s : r # s => SetFolds(F(r), r, V, b, ch, g)
    <3>1. \A r \in SUBSET s : r # s => \E f : SetFolds(f, r, V, b, ch, g)
      BY <1>1
    <3> QED
      BY <3>1
  <2>2. ASSUME NEW r \in SUBSET s, r # {}
        PROVE  /\ ch[r] \in S /\ less(r) \in SUBSET s /\ less(r) # s
               /\ F(less(r))[less(r)] \in V
               /\ W[r] = g[ch[r]][F(less(r))[less(r)]] /\ W[r] \in V
    <3>1. ch[r] \in r /\ ch[r] \in S /\ less(r) \in SUBSET s /\ less(r) # s
      BY <2>2 DEF Chooses
    <3>2. F(less(r))[less(r)] \in V
      <4>1. SetFolds(F(less(r)), less(r), V, b, ch, g)
        BY <2>1, <3>1
      <4> HIDE DEF F, less
      <4> QED
        BY <4>1 DEF SetFolds
    <3>3. W[r] = g[ch[r]][F(less(r))[less(r)]]
      BY <2>2
    <3> HIDE DEF F, less, W
    <3> QED
      BY <3>1, <3>2, <3>3
  <2>3. W[{}] = b
    OBVIOUS
  <2>4. ASSUME NEW r \in SUBSET s, r # {}
        PROVE  W[less(r)] = F(less(r))[less(r)]
    <3> DEFINE t == less(r)
    <3>1. t \in SUBSET s /\ t # s /\ SetFolds(F(t), t, V, b, ch, g)
      BY <2>1, <2>2, <2>4
    <3>2. CASE t = {}
      <4>1. F(t)[{}] = b
        <5> HIDE DEF F, t
        <5> QED
          BY <3>1 DEF SetFolds
      <4> HIDE DEF F, W
      <4> QED
        BY <2>3, <3>2, <4>1
    <3>3. CASE t # {}
      <4> DEFINE v == less(t)
      <4>1. W[t] = g[ch[t]][F(v)[v]]
        BY <2>2, <3>1, <3>3
      <4>2. F(t)[t] = g[ch[t]][F(t)[v]]
        <5> HIDE DEF F, t
        <5> QED
          BY <3>1, <3>3 DEF SetFolds
      <4>3. F(v)[v] = F(t)[v]
        <5>1. v \in SUBSET t /\ v \in SUBSET s /\ v # s
          BY <3>1
        <5>2. SetFolds(F(v), v, V, b, ch, g)
          BY <2>1, <5>1
        <5>3. SetFollows(F(v), v, V, b, ch, g)
          <6> HIDE DEF F, v
          <6> QED
            BY <5>2 DEF SetFolds, SetFollows
        <5>4. IsFiniteSet(v) /\ Chooses(ch, v) /\ v \subseteq t /\ v \subseteq v
          <6>1. v \in SUBSET S
            BY <5>1
          <6> HIDE DEF v, t
          <6> QED
            BY <5>1, <6>1, FS_Subset DEF Chooses
        <5> HIDE DEF F, v, t
        <5> QED
          BY <3>1, <5>3, <5>4, SetFoldIsUnique
      <4> QED
        BY <4>1, <4>2, <4>3
    <3> QED
      BY <3>2, <3>3
  <2>5. W \in [SUBSET s -> V]
    <3>1. \A r \in SUBSET s : W[r] \in V
      <4> HIDE DEF W, less, F
      <4> QED
        BY <2>2, <2>3
    <3>2. W = [r \in SUBSET s |-> W[r]]
      OBVIOUS
    <3> HIDE DEF W
    <3> QED
      BY <3>1, <3>2
  <2>6. \A r \in SUBSET s : r # {} => W[r] = g[ch[r]][W[r \ {ch[r]}]]
    <3> HIDE DEF W, F
    <3> QED
      BY <2>2, <2>4
  <2>7. SetFolds(W, s, V, b, ch, g)
    <3> HIDE DEF W
    <3> QED
      BY <2>3, <2>5, <2>6 DEF SetFolds
  <2> QED
    BY <2>7
<1>2. S \in G
  <2> HIDE DEF G
  <2> QED
    BY <1>1, SubsetInduction
<1> QED
  BY <1>2

-----------------------------------------------------------------------------
(* Retention: the sum of the bytes, the order of the entries, and the plan. *)

\* B orders the members of S one behind the other.
Orders(B, S) ==
    /\ \A x, y \in S : x # y => <<x, y>> \in B \/ <<y, x>> \in B
    /\ \A x, y, z \in S : <<x, y>> \in B /\ <<y, z>> \in B => <<x, z>> \in B

\* m has every other member of S before it.
IsLast(m, B, S) == m \in S /\ \A o \in S \ {m} : <<o, m>> \in B

LEMMA LastExists ==
    ASSUME NEW S, IsFiniteSet(S), S # {}, NEW B, Orders(B, S)
    PROVE  \E m : IsLast(m, B, S)
<1> DEFINE G == {s \in SUBSET S : s # {} => \E m : IsLast(m, B, s)}
<1>1. ASSUME NEW s \in SUBSET S, \A r \in SUBSET s : r # s => r \in G
      PROVE  s \in G
  <2>1. SUFFICES ASSUME s # {} PROVE \E m : IsLast(m, B, s)
    OBVIOUS
  <2>2. PICK a \in s : TRUE
    BY <2>1
  <2>3. CASE s \ {a} = {}
    <3>1. IsLast(a, B, s)
      BY <2>2, <2>3 DEF IsLast
    <3> QED
      BY <3>1
  <2>4. CASE s \ {a} # {}
    <3>1. PICK m : IsLast(m, B, s \ {a})
      <4>1. s \ {a} \in SUBSET s /\ s \ {a} # s
        BY <2>2
      <4> QED
        BY <1>1, <2>4, <4>1
    <3>2. m \in S /\ a \in S /\ m \in s /\ m # a
      BY <2>2, <3>1 DEF IsLast
    <3>3. CASE <<m, a>> \in B
      <4>1. \A o \in s \ {a} : <<o, a>> \in B
        BY <3>1, <3>2, <3>3 DEF IsLast, Orders
      <4>2. IsLast(a, B, s)
        BY <2>2, <4>1 DEF IsLast
      <4> QED
        BY <4>2
    <3>4. CASE <<a, m>> \in B
      <4>1. IsLast(m, B, s)
        BY <3>1, <3>2, <3>4 DEF IsLast
      <4> QED
        BY <4>1
    <3> QED
      BY <3>2, <3>3, <3>4 DEF Orders
  <2> QED
    BY <2>3, <2>4
<1>2. S \in G
  <2> HIDE DEF G
  <2> QED
    BY <1>1, SubsetInduction
<1> QED
  BY <1>2

-----------------------------------------------------------------------------
\* Each member of S has a number of bytes.
Sized(S) == \A e \in S : e.nbytes \in Int

Some(s) == CHOOSE x \in s : TRUE

\* The sum over a set is that over the set without one, and that one.
LEMMA BytesUnfold ==
    ASSUME NEW S, IsFiniteSet(S), Sized(S)
    PROVE  /\ R!Bytes(S) \in Int /\ R!Bytes({}) = 0
           /\ S # {} => /\ Some(S) \in S
                        /\ R!Bytes(S) = R!Bytes(S \ {Some(S)}) + Some(S).nbytes
<1> DEFINE W(e, n) == n + e.nbytes
           g == [e \in S |-> [n \in Int |-> W(e, n)]]
           ch == [s \in SUBSET S |-> Some(s)]
           Is(h, s) == h = [t \in SUBSET s |->
                               IF t = {} THEN 0 ELSE W(Some(t), h[t \ {Some(t)}])]
           H(s) == CHOOSE h : Is(h, s)
<1>1. \A s : R!Bytes(s) = H(s)[s]
  BY DEF R!Bytes, R!FoldSet, R!MapThenFoldSet, Some
<1>2. \A e \in S, n \in Int : W(e, n) \in Int
  BY DEF Sized
<1>3. \A s : s # {} => Some(s) \in s
  BY DEF Some
<1>4. Chooses(ch, S)
  BY <1>3 DEF Chooses
<1> HIDE DEF W
<1>5. g \in [S -> [Int -> Int]] /\ \A e \in S, n \in Int : g[e][n] = W(e, n)
  BY <1>2
<1>6. \A s \in SUBSET S : ch[s] = Some(s)
  OBVIOUS
<1> HIDE DEF g, ch
<1>7. PICK f : SetFolds(f, S, Int, 0, ch, g)
  BY <1>4, <1>5, SetFoldExists
<1>8. ASSUME NEW s \in SUBSET S
      PROVE  H(s)[s] = f[s]
  <2> DEFINE k == [t \in SUBSET s |-> f[t]]
  <2>1. Is(k, s)
    <3>1. ASSUME NEW t \in SUBSET s
          PROVE  k[t] = IF t = {} THEN 0 ELSE W(Some(t), k[t \ {Some(t)}])
      <4>1. CASE t = {}
        BY <1>7, <4>1 DEF SetFolds
      <4>2. CASE t # {}
        <5>1. t \in SUBSET S /\ ch[t] = Some(t) /\ Some(t) \in S
              /\ t \ {Some(t)} \in SUBSET s /\ t \ {Some(t)} \in SUBSET S
          BY <1>3, <1>6, <4>2
        <5>2. f[t] = g[Some(t)][f[t \ {Some(t)}]] /\ f[t \ {Some(t)}] \in Int
          BY <1>7, <4>2, <5>1 DEF SetFolds
        <5> QED
          BY <1>5, <4>2, <5>1, <5>2
      <4> QED
        BY <4>1, <4>2
    <3>2. k = [t \in SUBSET s |-> k[t]]
      OBVIOUS
    <3> HIDE DEF k
    <3> QED
      BY <3>1, <3>2
  <2>2. Is(H(s), s)
    <3> HIDE DEF Is, k
    <3> QED
      BY <2>1
  <2>3. SetFollows(H(s), s, Int, 0, ch, g)
    <3>1. \A t \in SUBSET s : t # {} => ch[t] = Some(t) /\ Some(t) \in S
      BY <1>3, <1>6
    <3>2. \A t \in SUBSET s : H(s)[t] = IF t = {} THEN 0
                                        ELSE W(Some(t), H(s)[t \ {Some(t)}])
      <4> HIDE DEF H
      <4> QED
        BY <2>2
    <3> HIDE DEF H, Is
    <3>3. ASSUME NEW t \in SUBSET s, t # {}, H(s)[t \ {ch[t]}] \in Int
          PROVE  H(s)[t] = g[ch[t]][H(s)[t \ {ch[t]}]]
      <4>1. ch[t] = Some(t) /\ Some(t) \in S
        BY <3>1, <3>3
      <4>2. g[Some(t)][H(s)[t \ {Some(t)}]] = W(Some(t), H(s)[t \ {Some(t)}])
        BY <1>5, <3>3, <4>1
      <4>3. H(s)[t] = W(Some(t), H(s)[t \ {Some(t)}])
        BY <3>2, <3>3
      <4> QED
        BY <4>1, <4>2, <4>3
    <3>4. H(s)[{}] = 0
      BY <3>2
    <3> QED
      BY <3>3, <3>4 DEF SetFollows
  <2>4. IsFiniteSet(s) /\ Chooses(ch, s) /\ s \subseteq S /\ s \subseteq s
    BY <1>4, FS_Subset DEF Chooses
  <2> HIDE DEF H
  <2> QED
    BY <1>7, <2>3, <2>4, SetFoldIsUnique
<1> HIDE DEF H
<1>9. \A s \in SUBSET S : R!Bytes(s) = f[s]
  BY <1>1, <1>8
<1>10. f[S] \in Int /\ f[{}] = 0
  BY <1>7 DEF SetFolds
<1>11. ASSUME S # {}
       PROVE  R!Bytes(S) = R!Bytes(S \ {Some(S)}) + Some(S).nbytes
  <2>1. S \in SUBSET S /\ S \ {Some(S)} \in SUBSET S /\ Some(S) \in S /\ ch[S] = Some(S)
    BY <1>3, <1>6, <1>11
  <2>2. f[S] = g[Some(S)][f[S \ {Some(S)}]] /\ f[S \ {Some(S)}] \in Int
    BY <1>7, <1>11, <2>1 DEF SetFolds
  <2> QED
    BY <1>5, <1>9, <2>1, <2>2 DEF W
<1> QED
  BY <1>3, <1>9, <1>10, <1>11

\* Whichever one it is.
LEMMA BytesWithout ==
    ASSUME NEW S, IsFiniteSet(S), Sized(S), NEW x \in S
    PROVE  R!Bytes(S) = R!Bytes(S \ {x}) + x.nbytes
<1> DEFINE G == {s \in SUBSET S : \A y \in s : R!Bytes(s) = R!Bytes(s \ {y}) + y.nbytes}
<1>1. ASSUME NEW s \in SUBSET S, \A r \in SUBSET s : r # s => r \in G
      PROVE  s \in G
  <2> SUFFICES ASSUME NEW y \in s
               PROVE  R!Bytes(s) = R!Bytes(s \ {y}) + y.nbytes
    OBVIOUS
  <2> DEFINE c == Some(s)
  <2>1. \A t \in SUBSET s : IsFiniteSet(t) /\ Sized(t)
    BY FS_Subset DEF Sized
  <2>2. c \in s /\ R!Bytes(s) = R!Bytes(s \ {c}) + c.nbytes
    BY <2>1, BytesUnfold
  <2> HIDE DEF c
  <2>3. CASE y = c
    BY <2>2, <2>3
  <2>4. CASE y # c
    <3>1. /\ s \ {c} \in SUBSET s /\ s \ {c} # s /\ y \in s \ {c}
          /\ s \ {y} \in SUBSET s /\ s \ {y} # s /\ c \in s \ {y}
          /\ (s \ {y}) \ {c} = (s \ {c}) \ {y} /\ (s \ {c}) \ {y} \in SUBSET s
      BY <2>2, <2>4
    <3>2. R!Bytes(s \ {c}) = R!Bytes((s \ {c}) \ {y}) + y.nbytes
      BY <1>1, <3>1
    <3>3. R!Bytes(s \ {y}) = R!Bytes((s \ {y}) \ {c}) + c.nbytes
      BY <1>1, <3>1
    <3>4. R!Bytes((s \ {c}) \ {y}) \in Int /\ y.nbytes \in Int /\ c.nbytes \in Int
      BY <2>1, <2>2, <3>1, BytesUnfold DEF Sized
    <3>5. /\ R!Bytes(s) = R!Bytes((s \ {c}) \ {y}) + y.nbytes + c.nbytes
          /\ R!Bytes(s \ {y}) = R!Bytes((s \ {c}) \ {y}) + c.nbytes
      BY <2>2, <3>1, <3>2, <3>3
    <3> QED
      BY <3>4, <3>5
  <2> QED
    BY <2>3, <2>4
<1>2. S \in G
  <2> HIDE DEF G
  <2> QED
    BY <1>1, SubsetInduction
<1> QED
  BY <1>2

Entry == [digest : Nat, nbytes : Int, used : Int, pinned : BOOLEAN]
Plans == [ok : BOOLEAN, keep : SUBSET Nat, evict : SUBSET Nat, bytes : Int]

\* Entries of an index, no two under one digest.
Apart(E) == E \subseteq Entry /\ \A a, b \in E : a.digest = b.digest => a = b

\* They are in one order, which their digests settle where times are equal.
LEMMA BeforeOrders ==
    ASSUME NEW E, Apart(E)
    PROVE  /\ \A a, b \in E : a # b => R!Before(a, b) \/ R!Before(b, a)
           /\ \A a, b \in E : ~(R!Before(a, b) /\ R!Before(b, a))
           /\ \A a, b, c \in E : R!Before(a, b) /\ R!Before(b, c) => R!Before(a, c)
           /\ \A S \in SUBSET E : Orders({p \in E \X E : R!Before(p[1], p[2])}, S)
<1>1. \A a \in E : a.digest \in Nat /\ a.used \in Int
  BY DEF Apart, Entry
<1>2. \A a, b \in E : a # b => R!Before(a, b) \/ R!Before(b, a)
  BY <1>1 DEF Apart, R!Before
<1>3. \A a, b \in E : ~(R!Before(a, b) /\ R!Before(b, a))
  BY <1>1 DEF R!Before
<1>4. \A a, b, c \in E : R!Before(a, b) /\ R!Before(b, c) => R!Before(a, c)
  BY <1>1 DEF R!Before
<1> DEFINE B == {p \in E \X E : R!Before(p[1], p[2])}
<1>5. \A a, b \in E : <<a, b>> \in B <=> R!Before(a, b)
  OBVIOUS
<1> HIDE DEF B
<1>6. ASSUME NEW S \in SUBSET E
      PROVE  Orders(B, S)
  BY <1>2, <1>4, <1>5 DEF Orders
<1> QED
  BY <1>2, <1>3, <1>4, <1>6 DEF B

\* So of any of them one is the hindmost.
LEMMA HindmostIsLast ==
    ASSUME NEW E, Apart(E), NEW S \in SUBSET E, IsFiniteSet(S), S # {}
    PROVE  /\ R!Hindmost(S) \in S
           /\ \A o \in S \ {R!Hindmost(S)} : R!Before(o, R!Hindmost(S))
<1> DEFINE B == {p \in E \X E : R!Before(p[1], p[2])}
<1>1. Orders(B, S)
  BY BeforeOrders
<1>2. \A a, b \in E : <<a, b>> \in B => R!Before(a, b)
  OBVIOUS
<1> HIDE DEF B
<1>3. PICK m : IsLast(m, B, S)
  BY <1>1, LastExists
<1>4. m \in S /\ \A o \in S \ {m} : R!Before(o, m)
  BY <1>2, <1>3 DEF IsLast
<1> QED
  BY <1>4 DEF R!Hindmost

\* f is what the fold of PlanRetention has come to for each set of entries.
TakesUp(f, O, start, budget) ==
    /\ f \in [SUBSET O -> Plans]
    /\ f[{}] = start
    /\ \A s \in SUBSET O : s # {} =>
          f[s] = R!Take(f[s \ {R!Hindmost(s)}], R!Hindmost(s), budget)

PlanFrom(O, start, budget) ==
    R!MapThenFoldSet(LAMBDA e, plan : R!Take(plan, e, budget), start,
                     LAMBDA e : e, R!Hindmost, O)

LEMMA RetentionRuns ==
    ASSUME NEW O, Apart(O), IsFiniteSet(O), NEW start \in Plans, NEW budget \in Int
    PROVE  \E f : TakesUp(f, O, start, budget) /\ f[O] = PlanFrom(O, start, budget)
<1> DEFINE W(e, plan) == R!Take(plan, e, budget)
           hind(s) == R!Hindmost(s)
           g == [e \in O |-> [v \in Plans |-> W(e, v)]]
           ch == [s \in SUBSET O |-> hind(s)]
           Is(h) == h = [s \in SUBSET O |->
                            IF s = {} THEN start ELSE W(hind(s), h[s \ {hind(s)}])]
           h == CHOOSE h : Is(h)
<1>1. PlanFrom(O, start, budget) = h[O]
  BY DEF PlanFrom, R!MapThenFoldSet
<1>2. \A e \in O, v \in Plans : W(e, v) \in Plans
  <2> SUFFICES ASSUME NEW e \in O, NEW v \in Plans
               PROVE  W(e, v) \in Plans
    OBVIOUS
  <2>1. e.digest \in Nat /\ e.nbytes \in Int /\ v.bytes + e.nbytes \in Int
    BY DEF Apart, Entry, Plans
  <2> QED
    BY <2>1 DEF R!Take, Plans
<1>3. \A s \in SUBSET O : s # {} => hind(s) \in s
  <2> SUFFICES ASSUME NEW s \in SUBSET O, s # {}
               PROVE  hind(s) \in s
    OBVIOUS
  <2>1. IsFiniteSet(s)
    BY FS_Subset
  <2> QED
    BY <2>1, HindmostIsLast
<1> HIDE DEF W, hind
<1>4. Chooses(ch, O) /\ \A s \in SUBSET O : ch[s] = hind(s)
  BY <1>3 DEF Chooses
<1>5. g \in [O -> [Plans -> Plans]] /\ \A e \in O, v \in Plans : g[e][v] = W(e, v)
  BY <1>2
<1> HIDE DEF g, ch
<1>6. PICK f : SetFolds(f, O, Plans, start, ch, g)
  BY <1>4, <1>5, SetFoldExists
<1>7. ASSUME NEW s \in SUBSET O, s # {}
      PROVE  f[s] = W(hind(s), f[s \ {hind(s)}])
  <2>1. ch[s] = hind(s) /\ hind(s) \in O /\ s \ {hind(s)} \in SUBSET O
    BY <1>3, <1>4, <1>7
  <2>2. f[s] = g[hind(s)][f[s \ {hind(s)}]] /\ f[s \ {hind(s)}] \in Plans
    BY <1>6, <1>7, <2>1 DEF SetFolds
  <2> QED
    BY <1>5, <2>1, <2>2
<1>8. f \in [SUBSET O -> Plans] /\ f[{}] = start
  BY <1>6 DEF SetFolds
<1>9. Is(f)
  <2>1. f = [s \in SUBSET O |-> f[s]]
    BY <1>8
  <2> QED
    BY <1>7, <1>8, <2>1
<1>10. Is(h)
  <2> HIDE DEF Is
  <2> QED
    BY <1>9
<1> HIDE DEF h
<1>11. SetFollows(h, O, Plans, start, ch, g)
  <2>1. ASSUME NEW s \in SUBSET O, s # {}, h[s \ {ch[s]}] \in Plans
        PROVE  h[s] = g[ch[s]][h[s \ {ch[s]}]]
    <3>1. ch[s] = hind(s) /\ hind(s) \in O
      BY <1>3, <1>4, <2>1
    <3>2. h[s] = W(hind(s), h[s \ {hind(s)}])
      BY <1>10, <2>1
    <3> QED
      BY <1>5, <2>1, <3>1, <3>2
  <2>2. h[{}] = start
    BY <1>10
  <2> HIDE DEF Is
  <2> QED
    BY <2>1, <2>2 DEF SetFollows
<1>12. h[O] = f[O]
  <2> HIDE DEF Is
  <2> QED
    BY <1>4, <1>6, <1>11, SetFoldIsUnique
<1>13. TakesUp(f, O, start, budget)
  BY <1>7, <1>8 DEF TakesUp, W, hind
<1> QED
  BY <1>1, <1>12, <1>13

\* Of the entries s, the plan keeps what the kept before it leave room for,
\* beside the pinned P.
FitsUp(plan, s, P, budget) ==
    LET kept == {e \in s : e.digest \in plan.keep}
    IN  /\ plan.keep = {e.digest : e \in P \union kept}
        /\ plan.bytes = R!Bytes(P \union kept) /\ plan.bytes <= budget
        /\ \A e \in s : e.digest \in plan.keep <=>
              R!Bytes(P \union {k \in kept : R!Before(k, e)}) + e.nbytes <= budget

LEMMA PlanFits ==
    ASSUME NEW E, Apart(E), IsFiniteSet(E), NEW budget \in Int,
           NEW P, P = {e \in E : e.pinned}, R!Bytes(P) <= budget,
           NEW start, start \in Plans,
           start.keep = {e.digest : e \in P}, start.bytes = R!Bytes(P), start.ok,
           NEW plan, plan = PlanFrom(E \ P, start, budget)
    PROVE  plan \in Plans /\ plan.ok /\ FitsUp(plan, E \ P, P, budget)
<1> DEFINE O == E \ P
<1>1. /\ Apart(O) /\ IsFiniteSet(O) /\ O \in SUBSET E /\ P \in SUBSET E
      /\ \A s \in SUBSET E : IsFiniteSet(s) /\ Sized(s)
      /\ \A e \in E : e.nbytes \in Int /\ e.digest \in Nat
  BY FS_Subset DEF Apart, Entry, Sized
<1>2. PICK f : TakesUp(f, O, start, budget) /\ f[O] = plan
  <2> HIDE DEF O
  <2>1. plan = PlanFrom(O, start, budget)
    BY DEF O
  <2> QED
    <3>1. Apart(O) /\ IsFiniteSet(O)
      BY <1>1
    <3>2. \E f : TakesUp(f, O, start, budget) /\ f[O] = PlanFrom(O, start, budget)
      BY <3>1, RetentionRuns
    <3> QED
      BY <2>1, <3>2
<1>3. \A s \in SUBSET O : f[s] \in Plans
  BY <1>2 DEF TakesUp
<1> DEFINE G == {s \in SUBSET O : f[s].ok /\ FitsUp(f[s], s, P, budget)}
<1>4. ASSUME NEW s \in SUBSET O, \A r \in SUBSET s : r # s => r \in G
      PROVE  s \in G
  <2>1. CASE s = {}
    <3>1. f[s] = start
      BY <1>2, <2>1 DEF TakesUp
    <3>2. {e \in s : e.digest \in start.keep} = {} /\ P \union {} = P
      BY <2>1
    <3>3. FitsUp(start, s, P, budget)
      BY <2>1, <3>2 DEF FitsUp
    <3> QED
      BY <3>1, <3>3
  <2>2. CASE s # {}
    <3> DEFINE h == R!Hindmost(s)
               t == s \ {h}
               v == f[t]
               w == f[s]
    <3>1. /\ h \in s /\ h \in E /\ h \notin P /\ s \subseteq E /\ t \subseteq E
          /\ \A o \in t : R!Before(o, h)
      <4>1. IsFiniteSet(s) /\ s \in SUBSET E
        BY <1>1
      <4> QED
        BY <2>2, <4>1, HindmostIsLast
    <3>2. w = R!Take(v, h, budget) /\ v \in Plans /\ w \in Plans
      <4>1. t \in SUBSET O
        OBVIOUS
      <4> HIDE DEF O
      <4> QED
        BY <1>2, <1>3, <2>2, <4>1 DEF TakesUp
    <3>3. v.ok /\ FitsUp(v, t, P, budget)
      <4>1. t \in SUBSET s /\ t # s
        BY <3>1
      <4> QED
        BY <1>4, <4>1
    <3> DEFINE kt == {e \in t : e.digest \in v.keep}
               ks == {e \in s : e.digest \in w.keep}
    <3>4. /\ v.keep = {e.digest : e \in P \union kt}
          /\ v.bytes = R!Bytes(P \union kt) /\ v.bytes <= budget
          /\ \A e \in t : e.digest \in v.keep <=>
                R!Bytes(P \union {k \in kt : R!Before(k, e)}) + e.nbytes <= budget
      <4> HIDE DEF t, v
      <4> QED
        BY <3>3 DEF FitsUp
    <3>5. \A e \in t : e # h /\ ~R!Before(h, e) /\ e.digest # h.digest
      <4>1. \A e \in t : e \in E /\ e # h
        BY <3>1
      <4> HIDE DEF t, h
      <4> QED
        BY <3>1, <4>1, BeforeOrders DEF Apart
    <3>6. h.digest \notin v.keep
      <4>1. \A e \in P \union kt : e \in E /\ e # h
        BY <3>1, <3>5, <1>1
      <4> HIDE DEF kt, h, v
      <4> QED
        BY <3>1, <3>4, <4>1 DEF Apart
    <3>7. v.bytes \in Int /\ h.nbytes \in Int /\ h.digest \in Nat
      BY <1>1, <3>1, <3>2 DEF Plans
    <3>8. CASE v.bytes + h.nbytes <= budget
      <4>1. /\ w.ok /\ w.keep = v.keep \union {h.digest} /\ w.bytes = v.bytes + h.nbytes
        <5> HIDE DEF v, h, w
        <5> QED
          BY <3>2, <3>3, <3>8 DEF R!Take, Plans
      <4>2. ks = kt \union {h}
        <5>1. \A e \in t : e.digest \in w.keep <=> e.digest \in v.keep
          <6> HIDE DEF t, h, v, w
          <6> QED
            BY <3>5, <4>1
        <5> HIDE DEF h, v, w
        <5> QED
          BY <3>1, <4>1, <5>1
      <4>3. w.keep = {e.digest : e \in P \union ks}
        <5> HIDE DEF h, v, w, kt, ks
        <5> QED
          BY <3>4, <4>1, <4>2
      <4>4. w.bytes = R!Bytes(P \union ks)
        <5>1. h \in P \union ks /\ (P \union ks) \ {h} = P \union kt
          <6>1. h \notin kt
            OBVIOUS
          <6> HIDE DEF h, kt, ks
          <6> QED
            BY <3>1, <4>2, <6>1
        <5>2. IsFiniteSet(P \union ks) /\ Sized(P \union ks)
          <6>1. P \union ks \in SUBSET E
            BY <1>1, <3>1
          <6> QED
            BY <1>1, <6>1
        <5> HIDE DEF h, kt, ks, v, w
        <5> QED
          BY <3>4, <4>1, <5>1, <5>2, BytesWithout
      <4>5. ASSUME NEW e \in s
            PROVE  e.digest \in w.keep <=>
                     R!Bytes(P \union {k \in ks : R!Before(k, e)}) + e.nbytes <= budget
        <5>1. CASE e = h
          <6>1. {k \in ks : R!Before(k, h)} = kt
            <7>1. \A k \in kt : R!Before(k, h)
              BY <3>1
            <7>2. ~R!Before(h, h)
              BY <3>1, BeforeOrders
            <7> HIDE DEF h, kt, ks
            <7> QED
              BY <4>2, <7>1, <7>2
          <6> HIDE DEF h, kt, ks, v, w
          <6> QED
            BY <3>4, <3>8, <4>1, <5>1, <6>1
        <5>2. CASE e # h
          <6>1. e \in t
            BY <5>2
          <6>2. {k \in ks : R!Before(k, e)} = {k \in kt : R!Before(k, e)}
            <7> HIDE DEF h, kt, ks, t
            <7> QED
              BY <3>5, <4>2, <6>1
          <6>3. e.digest \in w.keep <=> e.digest \in v.keep
            <7> HIDE DEF h, kt, ks, t, v, w
            <7> QED
              BY <3>5, <4>1, <6>1
          <6> HIDE DEF h, kt, ks, t, v, w
          <6> QED
            BY <3>4, <6>1, <6>2, <6>3
        <5> QED
          BY <5>1, <5>2
      <4>6. w.bytes <= budget
        BY <3>8, <4>1
      <4>7. FitsUp(w, s, P, budget)
        <5> HIDE DEF w
        <5> QED
          BY <4>3, <4>4, <4>5, <4>6 DEF FitsUp
      <4> QED
        BY <4>1, <4>7
    <3>9. CASE ~(v.bytes + h.nbytes <= budget)
      <4>1. w.ok /\ w.keep = v.keep /\ w.bytes = v.bytes
        <5> HIDE DEF v, h, w
        <5> QED
          BY <3>2, <3>3, <3>9 DEF R!Take, Plans
      <4>2. ks = kt
        <5>1. s = t \union {h}
          BY <3>1
        <5> HIDE DEF h, v, w, t
        <5> QED
          BY <3>6, <4>1, <5>1
      <4>3. ASSUME NEW e \in s
            PROVE  e.digest \in w.keep <=>
                     R!Bytes(P \union {k \in ks : R!Before(k, e)}) + e.nbytes <= budget
        <5>1. CASE e = h
          <6>1. {k \in ks : R!Before(k, h)} = kt
            <7>1. \A k \in kt : R!Before(k, h)
              BY <3>1
            <7> HIDE DEF h, kt, ks
            <7> QED
              BY <4>2, <7>1
          <6> HIDE DEF h, kt, ks, v, w
          <6> QED
            BY <3>4, <3>6, <3>9, <4>1, <5>1, <6>1
        <5>2. CASE e # h
          <6>1. e \in t
            BY <5>2
          <6> HIDE DEF h, kt, ks, t, v, w
          <6> QED
            BY <3>4, <4>1, <4>2, <6>1
        <5> QED
          BY <5>1, <5>2
      <4>4. FitsUp(w, s, P, budget)
        <5>1. /\ w.keep = {e.digest : e \in P \union ks}
              /\ w.bytes = R!Bytes(P \union ks) /\ w.bytes <= budget
          <6> HIDE DEF h, kt, ks, t, v, w
          <6> QED
            BY <3>4, <4>1, <4>2
        <5> HIDE DEF w
        <5> QED
          BY <4>3, <5>1 DEF FitsUp
      <4> QED
        BY <4>1, <4>4
    <3> QED
      BY <3>8, <3>9
  <2> QED
    BY <2>1, <2>2
<1>5. O \in G
  <2> HIDE DEF G, O
  <2> QED
    BY <1>1, <1>4, SubsetInduction
<1> QED
  BY <1>2, <1>3, <1>5

\* The entries of a list, whose digests differ from place to place.
LEMMA ListedApart ==
    ASSUME NEW entries \in Seq(Entry),
           \A i, j \in DOMAIN entries : entries[i].digest = entries[j].digest => i = j
    PROVE  Apart(Range(entries)) /\ IsFiniteSet(Range(entries))
<1>1. Len(entries) \in Nat /\ DOMAIN entries = 1..Len(entries)
  OBVIOUS
<1>2. Range(entries) = {entries[i] : i \in 1..Len(entries)}
  BY <1>1 DEF Range
<1>3. IsFiniteSet(Range(entries))
  <2>1. IsFiniteSet(1..Len(entries))
    BY <1>1, FS_Interval
  <2> DEFINE S == 1..Len(entries)
             f == [i \in S |-> entries[i]]
  <2>2. f \in Surjection(S, Range(entries))
    BY <1>2 DEF Surjection
  <2> HIDE DEF f
  <2> QED
    BY <2>1, <2>2, FS_Surjection
<1>4. Apart(Range(entries))
  <2>1. \A a \in Range(entries) : a \in Entry
    BY <1>1, <1>2
  <2>2. \A a, b \in Range(entries) : a.digest = b.digest => a = b
    BY <1>1, <1>2
  <2> QED
    BY <2>1, <2>2 DEF Apart
<1> QED
  BY <1>3, <1>4

\* A plan that is made keeps what fits, within the budget.
LEMMA RetentionKeeps ==
    ASSUME NEW entries \in Seq(Entry), NEW budget \in Int,
           NEW plan, plan = R!PlanRetention(entries, budget), plan # R!Refused
    PROVE  /\ Apart(Range(entries)) /\ IsFiniteSet(Range(entries))
           /\ plan.ok /\ plan.bytes \in Int /\ plan.bytes <= budget
           /\ R!KeepsWhatFits(entries, budget, plan)
           /\ \A e \in Range(entries) : e.pinned => e.digest \in plan.keep
<1> DEFINE E == Range(entries)
           P == {e \in E : e.pinned}
           start == [ok |-> TRUE, keep |-> {e.digest : e \in P},
                     evict |-> {}, bytes |-> R!Bytes(P)]
<1>1. R!Range(entries) = E
  BY DEF Range, R!Range
<1>2. /\ \A i, j \in DOMAIN entries : entries[i].digest = entries[j].digest => i = j
      /\ ~(R!Bytes(P) > budget)
      /\ plan = PlanFrom(E \ P, start, budget)
  BY <1>1 DEF R!PlanRetention, PlanFrom
<1>3. Apart(E) /\ IsFiniteSet(E)
  BY <1>2, ListedApart
<1> HIDE DEF E
<1>4. start \in Plans /\ R!Bytes(P) \in Int
  <2>1. IsFiniteSet(P) /\ Sized(P)
    BY <1>3, FS_Subset DEF Apart, Entry, Sized
  <2>2. R!Bytes(P) \in Int
    BY <2>1, BytesUnfold
  <2>3. \A e \in P : e.digest \in Nat
    BY <1>3 DEF Apart, Entry
  <2> QED
    BY <2>2, <2>3 DEF Plans
<1>5. start.keep = {e.digest : e \in P} /\ start.bytes = R!Bytes(P) /\ start.ok
  OBVIOUS
<1>6. plan \in Plans /\ plan.ok /\ FitsUp(plan, E \ P, P, budget)
  <2>1. R!Bytes(P) <= budget
    BY <1>2, <1>4
  <2> HIDE DEF start
  <2> QED
    BY <1>2, <1>3, <1>4, <1>5, <2>1, PlanFits
<1> DEFINE kept == {e \in E \ P : e.digest \in plan.keep}
<1>7. /\ plan.keep = {e.digest : e \in P \union kept}
      /\ plan.bytes <= budget
      /\ \A e \in E \ P : e.digest \in plan.keep <=>
            R!Bytes(P \union {k \in kept : R!Before(k, e)}) + e.nbytes <= budget
  BY <1>6 DEF FitsUp
<1>8. \A e \in P : e.digest \in plan.keep
  BY <1>7
<1>9. ASSUME NEW e \in E
      PROVE  LET first == {k \in E : k.digest \in plan.keep /\ (k.pinned \/ R!Before(k, e))}
             IN  e.digest \in plan.keep <=> (e.pinned \/ R!Bytes(first) + e.nbytes <= budget)
  <2>1. CASE e.pinned
    BY <1>8, <2>1
  <2>2. CASE ~e.pinned
    <3>1. P \union {k \in kept : R!Before(k, e)}
            = {k \in E : k.digest \in plan.keep /\ (k.pinned \/ R!Before(k, e))}
      BY <1>8
    <3>2. e \in E \ P
      BY <2>2
    <3> HIDE DEF kept, P
    <3> QED
      BY <1>7, <2>2, <3>1, <3>2
  <2> QED
    BY <2>1, <2>2
<1>10. R!KeepsWhatFits(entries, budget, plan)
  BY <1>1, <1>9 DEF R!KeepsWhatFits
<1>11. \A e \in E : e.pinned => e.digest \in plan.keep
  BY <1>8
<1> QED
  BY <1>3, <1>6, <1>7, <1>10, <1>11 DEF E, Plans

\* Without the set's own name: what fits of E.
KeepsOf(E, budget, plan) ==
    \A e \in E :
        LET first == {k \in E : k.digest \in plan.keep /\ (k.pinned \/ R!Before(k, e))}
        IN  e.digest \in plan.keep <=> (e.pinned \/ R!Bytes(first) + e.nbytes <= budget)

\* What a candidate that is not pinned displaces is older than it is: the plans
\* with and without it agree on whatever goes before it.
LEMMA DisplacesOlder ==
    ASSUME NEW E, IsFiniteSet(E), NEW x, ~x.pinned, Apart(E \union {x}), x \notin E,
           NEW budget, NEW plan, NEW admits,
           KeepsOf(E, budget, plan), KeepsOf(E \union {x}, budget, admits),
           NEW e \in E, e.digest \in plan.keep, e.digest \notin admits.keep
    PROVE  R!Before(x, e)
<1> SUFFICES ASSUME ~R!Before(x, e) PROVE FALSE
  OBVIOUS
<1> DEFINE A == E \union {x}
           Differs(m) == (m.digest \in plan.keep) # (m.digest \in admits.keep)
           X == {m \in E : ~R!Before(x, m) /\ Differs(m)}
           B == {p \in A \X A : R!Before(p[2], p[1])}
<1>1. /\ \A a, b \in A : a # b => R!Before(a, b) \/ R!Before(b, a)
      /\ \A a, b \in A : ~(R!Before(a, b) /\ R!Before(b, a))
      /\ \A a, b, c \in A : R!Before(a, b) /\ R!Before(b, c) => R!Before(a, c)
  BY BeforeOrders
<1>2. \A a, b \in A : <<a, b>> \in B <=> R!Before(b, a)
  OBVIOUS
<1>3. X \subseteq A /\ IsFiniteSet(X) /\ e \in X
  BY FS_Subset
<1> HIDE DEF A, B
<1>4. Orders(B, X)
  <2> HIDE DEF X
  <2> QED
    BY <1>1, <1>2, <1>3 DEF Orders
<1>5. PICK m \in X : \A o \in X \ {m} : R!Before(m, o)
  <2> HIDE DEF X
  <2>1. PICK m : IsLast(m, B, X)
    BY <1>3, <1>4, LastExists
  <2>2. m \in X /\ \A o \in X \ {m} : <<o, m>> \in B
    BY <2>1 DEF IsLast
  <2> QED
    BY <1>2, <1>3, <2>2
<1>6. m \in E /\ m \in A /\ x \in A /\ E \subseteq A /\ ~R!Before(x, m) /\ Differs(m)
  BY DEF A
<1>7. ASSUME NEW k \in E, k.pinned
      PROVE  k.digest \in plan.keep /\ k.digest \in admits.keep
  BY <1>7 DEF KeepsOf
<1>8. ASSUME NEW k \in E, R!Before(k, m)
      PROVE  ~Differs(k)
  <2>1. ~R!Before(x, k)
    BY <1>1, <1>6, <1>8
  <2>2. k \notin X
    <3> HIDE DEF X
    <3> QED
      BY <1>1, <1>5, <1>6, <1>8
  <2> QED
    BY <2>1, <2>2
<1> DEFINE first(S, p) == {k \in S : k.digest \in p.keep /\ (k.pinned \/ R!Before(k, m))}
<1>9. first(A, admits) = first(E, plan)
  <2>1. \A k \in E : k \in first(A, admits) <=> k \in first(E, plan)
    BY <1>6, <1>7, <1>8
  <2>2. x \notin first(A, admits)
    BY <1>6
  <2>3. \A k : k \in first(A, admits) => k \in A
    OBVIOUS
  <2>4. \A k : k \in first(E, plan) => k \in E
    OBVIOUS
  <2> HIDE DEF first
  <2> QED
    BY <1>6, <2>1, <2>2, <2>3, <2>4 DEF A
<1>10. /\ m.digest \in plan.keep <=> (m.pinned \/ R!Bytes(first(E, plan)) + m.nbytes <= budget)
       /\ m.digest \in admits.keep <=>
            (m.pinned \/ R!Bytes(first(A, admits)) + m.nbytes <= budget)
  BY <1>6 DEF KeepsOf, A
<1> HIDE DEF first
<1> QED
  BY <1>6, <1>9, <1>10

LEMMA RetentionIsInOrder ==
    ASSUME NEW entries \in Seq(Entry), NEW candidate \in Entry, NEW budget \in Int,
           NEW plan, plan = R!PlanRetention(entries, budget),
           NEW admits, admits = R!AdmitOrRefuse(entries, candidate, budget)
    PROVE  /\ plan.ok => R!KeepsWhatFits(entries, budget, plan)
           /\ admits.ok =>
                 /\ R!KeepsWhatFits(Append(entries, candidate), budget, admits)
                 /\ candidate.digest \in admits.keep
                 /\ admits.bytes <= budget
                 /\ ~candidate.pinned =>
                       \A e \in Range(entries) :
                          e.digest \in plan.keep \ admits.keep => R!Before(candidate, e)
<1>1. R!Refused.ok = FALSE /\ R!Refused.keep = {}
  BY DEF R!Refused
<1>2. plan.ok => R!KeepsWhatFits(entries, budget, plan)
  BY <1>1, RetentionKeeps
<1>3. ASSUME admits.ok
      PROVE  /\ R!KeepsWhatFits(Append(entries, candidate), budget, admits)
             /\ candidate.digest \in admits.keep
             /\ admits.bytes <= budget
             /\ ~candidate.pinned =>
                   \A e \in Range(entries) :
                      e.digest \in plan.keep \ admits.keep => R!Before(candidate, e)
  <2> DEFINE longer == Append(entries, candidate)
  <2>1. /\ admits = R!PlanRetention(longer, budget) /\ admits # R!Refused
        /\ candidate.digest \in admits.keep
    BY <1>1, <1>3 DEF R!AdmitOrRefuse
  <2>2. longer \in Seq(Entry)
    OBVIOUS
  <2>3. /\ Apart(Range(longer)) /\ admits.bytes <= budget
        /\ R!KeepsWhatFits(longer, budget, admits)
    <3> HIDE DEF longer
    <3> QED
      BY <2>1, <2>2, RetentionKeeps
  <2>4. ASSUME ~candidate.pinned, NEW e \in Range(entries),
               e.digest \in plan.keep, e.digest \notin admits.keep
        PROVE  R!Before(candidate, e)
    <3> DEFINE E == Range(entries)
    <3>1. plan # R!Refused
      BY <1>1, <2>4
    <3>2. R!KeepsWhatFits(entries, budget, plan) /\ IsFiniteSet(E)
      BY <3>1, RetentionKeeps
    <3>3. KeepsOf(E, budget, plan)
      BY <3>2 DEF R!KeepsWhatFits, KeepsOf, R!Range, Range
    <3>4. Range(longer) = E \union {candidate}
      <4>1. /\ DOMAIN longer = (DOMAIN entries) \union {Len(entries) + 1}
            /\ longer[Len(entries) + 1] = candidate
            /\ \A i \in DOMAIN entries : longer[i] = entries[i]
        OBVIOUS
      <4> HIDE DEF longer
      <4> QED
        BY <4>1 DEF Range
    <3>5. KeepsOf(E \union {candidate}, budget, admits)
      <4>1. KeepsOf(Range(longer), budget, admits)
        <5> HIDE DEF longer
        <5> QED
          BY <2>3 DEF R!KeepsWhatFits, KeepsOf, R!Range, Range
      <4> HIDE DEF longer, E
      <4> QED
        BY <3>4, <4>1
    <3>6. CASE candidate \in E
      <4>1. PICK i \in DOMAIN entries : entries[i] = candidate
        BY <3>6 DEF Range
      <4>2. /\ i \in DOMAIN longer /\ Len(entries) + 1 \in DOMAIN longer
            /\ i # Len(entries) + 1
            /\ longer[i] = candidate /\ longer[Len(entries) + 1] = candidate
        BY <4>1
      <4>3. \A a, b \in DOMAIN longer : a # b => longer[a].digest # longer[b].digest
        <5> HIDE DEF longer
        <5> QED
          BY <2>1 DEF R!PlanRetention
      <4> HIDE DEF longer
      <4> QED
        BY <4>2, <4>3
    <3>7. CASE candidate \notin E
      <4>1. Apart(E \union {candidate})
        BY <2>3, <3>4
      <4>2. e \in E
        OBVIOUS
      <4> HIDE DEF E
      <4> QED
        BY <2>4, <3>2, <3>3, <3>5, <3>7, <4>1, <4>2, DisplacesOlder
    <3> QED
      BY <3>6, <3>7
  <2> QED
    BY <2>1, <2>3, <2>4
<1> QED
  BY <1>2, <1>3

-----------------------------------------------------------------------------
(* Corpus and Retention: the manifests in their order, those that are warmed
   and those that are pruned. *)

\* Of two prefixes the newer, and of two as new the first.
Newer(prefixes, i, j) ==
    \/ prefixes[i].mtime > prefixes[j].mtime
    \/ prefixes[i].mtime = prefixes[j].mtime /\ i < j

Wanted(p, provider, model) ==
    /\ p.readable /\ p.schema = 1 /\ ~p.identity
    /\ provider \in {0, p.provider} /\ model \in {0, p.model}

Oldest(prefixes, s) == CHOOSE i \in s : \A j \in s \ {i} : Newer(prefixes, j, i)

LEMMA OldestIsLast ==
    ASSUME NEW n \in Nat, NEW prefixes, \A i \in 1..n : prefixes[i].mtime \in Int,
           NEW s \in SUBSET (1..n), s # {}
    PROVE  /\ Oldest(prefixes, s) \in s
           /\ \A j \in s \ {Oldest(prefixes, s)} : Newer(prefixes, j, Oldest(prefixes, s))
<1> DEFINE B == {p \in (1..n) \X (1..n) : Newer(prefixes, p[1], p[2])}
<1>1. \A i, j \in 1..n : <<i, j>> \in B <=> Newer(prefixes, i, j)
  OBVIOUS
<1>2. Orders(B, s)
  <2>1. \A i, j \in 1..n : i # j => Newer(prefixes, i, j) \/ Newer(prefixes, j, i)
    BY DEF Newer
  <2>2. \A i, j, k \in 1..n : Newer(prefixes, i, j) /\ Newer(prefixes, j, k)
                                 => Newer(prefixes, i, k)
    BY DEF Newer
  <2> HIDE DEF B
  <2> QED
    BY <1>1, <2>1, <2>2 DEF Orders
<1>3. IsFiniteSet(s)
  <2>1. IsFiniteSet(1..n)
    BY FS_Interval
  <2> QED
    BY <2>1, FS_Subset
<1> HIDE DEF B
<1>4. PICK m : IsLast(m, B, s)
  BY <1>2, <1>3, LastExists
<1>5. m \in s /\ \A j \in s \ {m} : Newer(prefixes, j, m)
  BY <1>1, <1>4 DEF IsLast
<1> QED
  BY <1>5 DEF Oldest

\* f is what was loaded of each set of prefixes.
LoadsUp(f, prefixes, K, V) ==
    /\ f \in [SUBSET K -> V]
    /\ f[{}] = << >>
    /\ \A s \in SUBSET K : s # {} =>
          f[s] = Append(f[s \ {Oldest(prefixes, s)}], prefixes[Oldest(prefixes, s)])

WantedPlaces(prefixes, n, provider, model) == {i \in 1..n : Wanted(prefixes[i], provider, model)}

\* n prefixes, each with a time.
Dated(prefixes, n, Values) ==
    /\ DOMAIN prefixes = 1..n
    /\ \A i \in 1..n : prefixes[i] \in Values /\ prefixes[i].mtime \in Int

LEMMA LoadRuns ==
    ASSUME NEW n \in Nat, NEW prefixes, NEW Values, Dated(prefixes, n, Values),
           NEW provider, NEW model
    PROVE  \E f : /\ LoadsUp(f, prefixes, WantedPlaces(prefixes, n, provider, model), Seq(Values))
                  /\ f[WantedPlaces(prefixes, n, provider, model)]
                       = Cp!LoadManifests(prefixes, provider, model)
<1> DEFINE K == {i \in 1..n : Wanted(prefixes[i], provider, model)}
           V == Seq(Values)
           W(i, v) == Append(v, prefixes[i])
           old(s) == Oldest(prefixes, s)
           g == [i \in K |-> [v \in V |-> W(i, v)]]
           ch == [s \in SUBSET K |-> old(s)]
           Is(h) == h = [s \in SUBSET K |->
                            IF s = {} THEN << >> ELSE W(old(s), h[s \ {old(s)}])]
           h == CHOOSE h : Is(h)
<1>0. /\ DOMAIN prefixes = 1..n
      /\ \A i \in 1..n : prefixes[i] \in Values /\ prefixes[i].mtime \in Int
  BY DEF Dated
<1>1. Cp!LoadManifests(prefixes, provider, model) = h[K]
  BY <1>0 DEF Cp!LoadManifests, Cp!MapThenFoldSet, Wanted, Oldest, Newer
<1>2. /\ << >> \in V /\ \A i \in K, v \in V : W(i, v) \in V
  BY <1>0
<1>3. \A s \in SUBSET K : s # {} => old(s) \in s
  BY <1>0, OldestIsLast
<1>4. IsFiniteSet(K)
  <2>1. IsFiniteSet(1..n)
    BY FS_Interval
  <2> QED
    BY <2>1, FS_Subset
<1> HIDE DEF W, old, V
<1>5. Chooses(ch, K) /\ \A s \in SUBSET K : ch[s] = old(s)
  BY <1>3 DEF Chooses
<1>6. g \in [K -> [V -> V]] /\ \A i \in K, v \in V : g[i][v] = W(i, v)
  BY <1>2
<1> HIDE DEF g, ch
<1>7. PICK f : SetFolds(f, K, V, << >>, ch, g)
  BY <1>2, <1>4, <1>5, <1>6, SetFoldExists
<1>8. ASSUME NEW s \in SUBSET K, s # {}
      PROVE  f[s] = W(old(s), f[s \ {old(s)}])
  <2>1. ch[s] = old(s) /\ old(s) \in K /\ s \ {old(s)} \in SUBSET K
    BY <1>3, <1>5, <1>8
  <2>2. f[s] = g[old(s)][f[s \ {old(s)}]] /\ f[s \ {old(s)}] \in V
    BY <1>7, <1>8, <2>1 DEF SetFolds
  <2> QED
    BY <1>6, <2>1, <2>2
<1>9. f \in [SUBSET K -> V] /\ f[{}] = << >>
  BY <1>7 DEF SetFolds
<1>10. Is(f)
  <2>1. f = [s \in SUBSET K |-> f[s]]
    BY <1>9
  <2> QED
    BY <1>8, <1>9, <2>1
<1>11. Is(h)
  <2> HIDE DEF Is
  <2> QED
    BY <1>10
<1> HIDE DEF h
<1>12. SetFollows(h, K, V, << >>, ch, g)
  <2>1. ASSUME NEW s \in SUBSET K, s # {}, h[s \ {ch[s]}] \in V
        PROVE  h[s] = g[ch[s]][h[s \ {ch[s]}]]
    <3>1. ch[s] = old(s) /\ old(s) \in K
      BY <1>3, <1>5, <2>1
    <3>2. h[s] = W(old(s), h[s \ {old(s)}])
      BY <1>11, <2>1
    <3> QED
      BY <1>6, <2>1, <3>1, <3>2
  <2>2. h[{}] = << >>
    BY <1>11
  <2> HIDE DEF Is
  <2> QED
    BY <2>1, <2>2 DEF SetFollows
<1>13. h[K] = f[K]
  <2> HIDE DEF Is
  <2> QED
    BY <1>4, <1>5, <1>7, <1>12, SetFoldIsUnique
<1>14. LoadsUp(f, prefixes, K, V)
  BY <1>8, <1>9 DEF LoadsUp, W, old
<1> QED
  BY <1>1, <1>13, <1>14 DEF V, WantedPlaces

\* No manifest is newer than one in front of it.
Sorted(list) == \A i, j \in DOMAIN list : i <= j => list[i].mtime >= list[j].mtime

LEMMA LoadedIsSorted ==
    ASSUME NEW prefixes, prefixes \in Seq(Range(prefixes)),
           \A p \in Range(prefixes) : p.mtime \in Int,
           NEW provider, NEW model,
           NEW loaded, loaded = Cp!LoadManifests(prefixes, provider, model)
    PROVE  loaded \in Seq(Range(prefixes)) /\ Sorted(loaded)
<1> DEFINE n == Len(prefixes)
           Values == Range(prefixes)
           K == {i \in 1..n : Wanted(prefixes[i], provider, model)}
<1>1. /\ n \in Nat /\ DOMAIN prefixes = 1..n
      /\ \A i \in 1..n : prefixes[i] \in Values /\ prefixes[i].mtime \in Int
  BY DEF Range
<1> HIDE DEF n, Values
<1>2. PICK f : LoadsUp(f, prefixes, K, Seq(Values)) /\ f[K] = loaded
  <2>1. \E f : /\ LoadsUp(f, prefixes, K, Seq(Values))
               /\ f[K] = Cp!LoadManifests(prefixes, provider, model)
    <3>1. Dated(prefixes, n, Values) /\ K = WantedPlaces(prefixes, n, provider, model)
      BY <1>1 DEF Dated, WantedPlaces
    <3>2. \E f : /\ LoadsUp(f, prefixes, WantedPlaces(prefixes, n, provider, model), Seq(Values))
                 /\ f[WantedPlaces(prefixes, n, provider, model)]
                      = Cp!LoadManifests(prefixes, provider, model)
      BY <1>1, <3>1, LoadRuns
    <3> QED
      BY <3>1, <3>2
  <2> QED
    BY <2>1
<1> DEFINE Among(list, s) == \A a \in DOMAIN list : \E i \in s : list[a] = prefixes[i]
           G == {s \in SUBSET K : Sorted(f[s]) /\ Among(f[s], s)}
<1>3. ASSUME NEW s \in SUBSET K, \A r \in SUBSET s : r # s => r \in G
      PROVE  s \in G
  <2>1. CASE s = {}
    <3>1. f[s] = << >>
      BY <1>2, <2>1 DEF LoadsUp
    <3> QED
      BY <3>1 DEF Sorted
  <2>2. CASE s # {}
    <3> DEFINE last == Oldest(prefixes, s)
               t == s \ {last}
    <3>1. /\ last \in s /\ last \in 1..n /\ \A j \in t : j \in 1..n
          /\ \A j \in t : prefixes[j].mtime >= prefixes[last].mtime
      <4>1. s \in SUBSET (1..n)
        OBVIOUS
      <4>2. last \in s /\ \A j \in t : Newer(prefixes, j, last)
        <5> HIDE DEF K
        <5> QED
          BY <1>1, <2>2, <4>1, OldestIsLast
      <4> HIDE DEF K, last
      <4> QED
        BY <1>1, <4>1, <4>2 DEF Newer
    <3>2. f[s] = Append(f[t], prefixes[last]) /\ f[t] \in Seq(Values)
      <4>1. t \in SUBSET K
        OBVIOUS
      <4> HIDE DEF K
      <4> QED
        BY <1>2, <2>2, <4>1 DEF LoadsUp
    <3>3. Sorted(f[t]) /\ Among(f[t], t)
      <4>1. t \in SUBSET s /\ t # s
        BY <3>1
      <4> QED
        BY <1>3, <4>1
    <3> DEFINE list == f[t]
               m == Len(list)
    <3>4. /\ m \in Nat /\ DOMAIN list = 1..m /\ DOMAIN f[s] = 1..m + 1
          /\ f[s][m + 1] = prefixes[last]
          /\ \A a \in 1..m : f[s][a] = list[a] /\ f[s][a] \in Values
      <4>1. prefixes[last] \in Values /\ list \in Seq(Values) /\ f[s] = Append(list, prefixes[last])
        BY <1>1, <3>1, <3>2
      <4> HIDE DEF list, last
      <4> QED
        BY <4>1
    <3>5. \A a \in 1..m : \E j \in t : f[s][a] = prefixes[j]
      <4>1. \A a \in DOMAIN list : \E j \in t : list[a] = prefixes[j]
        BY <3>3
      <4> HIDE DEF list, t
      <4> QED
        BY <3>4, <4>1
    <3>6. ASSUME NEW a \in 1..m + 1, NEW b \in 1..m + 1, a <= b
          PROVE  f[s][a].mtime >= f[s][b].mtime
      <4>1. CASE b \in 1..m
        <5>1. a \in 1..m
          BY <3>4, <3>6, <4>1
        <5>2. list[a].mtime >= list[b].mtime
          <6>1. Sorted(list)
            BY <3>3
          <6> HIDE DEF list
          <6> QED
            BY <3>4, <3>6, <4>1, <5>1, <6>1 DEF Sorted
        <5> HIDE DEF list, m
        <5> QED
          BY <3>4, <4>1, <5>1, <5>2
      <4>2. CASE b = m + 1 /\ a \in 1..m
        <5>1. PICK j \in t : f[s][a] = prefixes[j]
          BY <3>5, <4>2
        <5> HIDE DEF t, last, m
        <5> QED
          BY <3>1, <3>4, <4>2, <5>1
      <4>3. CASE b = m + 1 /\ a = m + 1
        <5> HIDE DEF last, m
        <5> QED
          BY <1>1, <3>1, <3>4, <4>3
      <4> QED
        BY <3>4, <3>6, <4>1, <4>2, <4>3
    <3>7. Sorted(f[s])
      <4> HIDE DEF m
      <4> QED
        BY <3>4, <3>6 DEF Sorted
    <3>8. Among(f[s], s)
      <4>1. ASSUME NEW a \in 1..m + 1
            PROVE  \E i \in s : f[s][a] = prefixes[i]
        <5>1. CASE a \in 1..m
          BY <3>5, <5>1
        <5>2. CASE a = m + 1
          BY <3>1, <3>4, <5>2
        <5> QED
          BY <3>4, <5>1, <5>2
      <4> HIDE DEF m
      <4> QED
        BY <3>4, <4>1
    <3> QED
      BY <3>7, <3>8
  <2> QED
    BY <2>1, <2>2
<1>4. K \in G
  <2>1. IsFiniteSet(K)
    <3>1. IsFiniteSet(1..n)
      BY <1>1, FS_Interval
    <3> QED
      BY <3>1, FS_Subset
  <2> HIDE DEF G, K
  <2> QED
    BY <1>3, <2>1, SubsetInduction
<1>5. f[K] \in Seq(Values)
  <2> HIDE DEF K
  <2> QED
    BY <1>2 DEF LoadsUp
<1> QED
  BY <1>2, <1>4, <1>5 DEF Values

LEMMA CountedAlike ==
    ASSUME NEW S
    PROVE  R!Cardinality(S) = Cardinality(S)
  BY DEF R!Cardinality, Cardinality

\* n manifests, newest first.
Manifests(m, n) ==
    /\ DOMAIN m = 1..n
    /\ \A i \in 1..n : m[i].tokens \in Nat /\ m[i].mtime \in Int
    /\ \A i, j \in 1..n : i <= j => m[i].mtime >= m[j].mtime

\* The step of SelectWarm.
Warmed(m, maxTokens, maxWarm, s, i) ==
    IF \/ m[i].tokens <= 0
       \/ s.tokens + m[i].tokens > maxTokens
       \/ R!Cardinality(s.warm) >= maxWarm
    THEN s
    ELSE [warm |-> s.warm \union {i}, tokens |-> s.tokens + m[i].tokens]

\* r is what is warmed after each manifest.
WarmsUp(r, m, n, maxTokens, maxWarm, V) ==
    /\ r \in [0..n -> V]
    /\ r[0] = [warm |-> {}, tokens |-> 0]
    /\ r[n] = R!SelectWarm(m, maxTokens, maxWarm)
    /\ \A i \in 1..n : r[i] = Warmed(m, maxTokens, maxWarm, r[i - 1], i)

LEMMA WarmRuns ==
    ASSUME NEW n \in Nat, NEW m, Manifests(m, n), NEW maxTokens, NEW maxWarm
    PROVE  \E r : WarmsUp(r, m, n, maxTokens, maxWarm, [warm : SUBSET (1..n), tokens : Nat])
<1> DEFINE V == [warm : SUBSET (1..n), tokens : Nat]
           b == [warm |-> {}, tokens |-> 0]
           W(s, i) == Warmed(m, maxTokens, maxWarm, s, i)
           g == [i \in 1..n |-> [s \in V |-> W(s, i)]]
           Is(h) == h = [s \in SUBSET (1..n) |->
                            IF s = {} THEN b
                            ELSE W(h[s \ {Max(s)}], Max(s))]
           h == CHOOSE h : Is(h)
<1>1. R!SelectWarm(m, maxTokens, maxWarm) = h[1..n]
  BY DEF R!SelectWarm, R!MapThenFoldSet, Warmed, R!Max, Max, Manifests
<1>2. b \in V /\ \A i \in 1..n, s \in V : W(s, i) \in V
  BY DEF Warmed, Manifests
<1> HIDE DEF W, V, b
<1>3. g \in [1..n -> [V -> V]]
  BY <1>2
<1>4. \A i \in 1..n, v \in V : g[i][v] = W(v, i)
  OBVIOUS
<1> HIDE DEF g
<1>5. PICK f : Folds(f, n, V, b, g)
  BY <1>2, <1>3, FoldExists
<1>6. \A s \in SUBSET (1..n) : s # {} =>
         s \ {Max(s)} \in SUBSET (1..n) /\ Max(s) \in 1..n
  BY LargestPlace
<1>7. Is(f)
  <2>1. ASSUME NEW s \in SUBSET (1..n)
        PROVE  f[s] = IF s = {} THEN b ELSE W(f[s \ {Max(s)}], Max(s))
    BY <1>4, <1>5, <1>6 DEF Folds
  <2>2. f = [s \in SUBSET (1..n) |-> f[s]]
    BY <1>5 DEF Folds
  <2> QED
    BY <2>1, <2>2
<1>8. Is(h)
  <2> HIDE DEF Is
  <2> QED
    BY <1>7
<1> HIDE DEF h
<1>9. h[1..n] = f[1..n]
  <2>1. Follows(h, n, V, b, g)
    BY <1>4, <1>6, <1>8 DEF Follows
  <2> HIDE DEF Is
  <2> QED
    BY <1>5, <2>1, FoldIsUnique
<1> DEFINE r == [i \in 0..n |-> f[1..i]]
<1>10. r \in [0..n -> V] /\ r[n] = f[1..n] /\ r[0] = b
  BY <1>5 DEF Folds
<1>11. ASSUME NEW i \in 1..n
       PROVE  r[i] = W(r[i - 1], i)
  <2>1. f[1..i] = g[i][f[1..i - 1]]
    BY <1>5, FoldRuns
  <2>2. f[1..i - 1] \in V
    BY <1>5 DEF Folds
  <2> QED
    BY <1>4, <2>1, <2>2
<1> HIDE DEF r
<1> QED
  BY <1>1, <1>9, <1>10, <1>11 DEF W, V, b, WarmsUp

\* Of the first k manifests, s holds some in its limits, and passed over the
\* others for one of them.
WarmsInLimits(s, m, k, maxTokens, maxWarm) ==
    /\ s.warm \subseteq 1..k /\ s.tokens \in Nat
    /\ s.tokens <= maxTokens /\ Cardinality(s.warm) <= maxWarm
    /\ \A i \in 1..k : i \notin s.warm =>
          \/ m[i].tokens = 0
          \/ s.tokens + m[i].tokens > maxTokens
          \/ Cardinality(s.warm) = maxWarm /\ \A j \in s.warm : m[j].mtime >= m[i].mtime

LEMMA WarmStaysInLimits ==
    ASSUME NEW n \in Nat, NEW m, Manifests(m, n), NEW maxTokens \in Nat, NEW maxWarm \in Nat
    PROVE  WarmsInLimits(R!SelectWarm(m, maxTokens, maxWarm), m, n, maxTokens, maxWarm)
<1> DEFINE V == [warm : SUBSET (1..n), tokens : Nat]
<1>1. PICK r : WarmsUp(r, m, n, maxTokens, maxWarm, V)
  BY WarmRuns
<1> DEFINE G == {k \in 0..n : WarmsInLimits(r[k], m, k, maxTokens, maxWarm)}
<1>2. 0 \in G
  <2>1. r[0] = [warm |-> {}, tokens |-> 0]
    BY <1>1 DEF WarmsUp
  <2>2. r[0].warm = {} /\ r[0].tokens = 0 /\ Cardinality(r[0].warm) = 0
    BY <2>1, FS_EmptySet
  <2>3. WarmsInLimits(r[0], m, 0, maxTokens, maxWarm)
    BY <2>2 DEF WarmsInLimits
  <2> QED
    BY <2>3
<1>3. ASSUME NEW k \in 1..n, k - 1 \in G
      PROVE  k \in G
  <2> DEFINE s == r[k - 1]
             t == r[k]
             c == Cardinality(s.warm)
             x == m[k].tokens
  <2>1. /\ s.warm \subseteq 1..k - 1 /\ s.tokens \in Nat /\ s.tokens <= maxTokens /\ c <= maxWarm
        /\ \A i \in 1..k - 1 : i \notin s.warm =>
              \/ m[i].tokens = 0
              \/ s.tokens + m[i].tokens > maxTokens
              \/ c = maxWarm /\ \A j \in s.warm : m[j].mtime >= m[i].mtime
    BY <1>3 DEF WarmsInLimits
  <2>0. R!Cardinality(s.warm) = c
    BY CountedAlike
  <2>2. t = Warmed(m, maxTokens, maxWarm, s, k)
    <3> HIDE DEF V
    <3> QED
      BY <1>1 DEF WarmsUp
  <2>3. /\ x \in Nat /\ 1..k = (1..k - 1) \union {k} /\ k \notin 1..k - 1
        /\ \A i \in 1..k : m[i].tokens \in Nat
        /\ \A j \in 1..k - 1 : m[j].mtime >= m[k].mtime
    BY DEF Manifests
  <2>4. IsFiniteSet(s.warm) /\ c \in Nat
    <3>1. IsFiniteSet(1..k - 1)
      BY FS_Interval
    <3>2. s.warm \in SUBSET (1..k - 1)
      BY <2>1
    <3> HIDE DEF s
    <3> QED
      BY <3>1, <3>2, FS_Subset, FS_CardinalityType
  <2>5. CASE x <= 0 \/ s.tokens + x > maxTokens \/ c >= maxWarm
    <3>1. t = s
      BY <2>0, <2>2, <2>5 DEF Warmed
    <3>2. \/ x = 0 \/ s.tokens + x > maxTokens
          \/ c = maxWarm /\ \A j \in s.warm : m[j].mtime >= m[k].mtime
      <4> HIDE DEF s, c, x
      <4>1. c >= maxWarm => c = maxWarm
        BY <2>1, <2>4
      <4>2. \A j \in s.warm : m[j].mtime >= m[k].mtime
        BY <2>1, <2>3
      <4> QED
        BY <2>3, <2>5, <4>1, <4>2
    <3>3. ASSUME NEW i \in 1..k, i \notin s.warm
          PROVE  \/ m[i].tokens = 0
                 \/ s.tokens + m[i].tokens > maxTokens
                 \/ c = maxWarm /\ \A j \in s.warm : m[j].mtime >= m[i].mtime
      <4>1. CASE i = k
        BY <3>2, <4>1
      <4>2. CASE i \in 1..k - 1
        <5> HIDE DEF s, c
        <5> QED
          BY <2>1, <3>3, <4>2
      <4> QED
        BY <2>3, <4>1, <4>2
    <3>4. s.warm \subseteq 1..k
      <4> HIDE DEF s
      <4> QED
        BY <2>1, <2>3
    <3>5. WarmsInLimits(s, m, k, maxTokens, maxWarm)
      <4> HIDE DEF s
      <4> QED
        BY <2>1, <3>3, <3>4 DEF WarmsInLimits
    <3> QED
      BY <3>1, <3>5
  <2>6. CASE ~(x <= 0 \/ s.tokens + x > maxTokens \/ c >= maxWarm)
    <3>1. t.warm = s.warm \union {k} /\ t.tokens = s.tokens + x
      BY <2>0, <2>2, <2>6 DEF Warmed
    <3>2. Cardinality(t.warm) = c + 1
      <4>1. k \notin s.warm
        <5> HIDE DEF s
        <5> QED
          BY <2>1, <2>3
      <4> HIDE DEF s, t
      <4> QED
        BY <2>4, <3>1, <4>1, FS_AddElement DEF s
    <3>3. t.warm \subseteq 1..k
      <4> HIDE DEF s, t
      <4> QED
        BY <2>1, <2>3, <3>1
    <3>4. /\ t.tokens \in Nat /\ t.tokens >= s.tokens /\ t.tokens <= maxTokens
          /\ Cardinality(t.warm) <= maxWarm
      <4> HIDE DEF s, t, c, x
      <4> QED
        BY <2>1, <2>3, <2>4, <2>6, <3>1, <3>2
    <3>5. ASSUME NEW i \in 1..k, i \notin t.warm
          PROVE  m[i].tokens = 0 \/ t.tokens + m[i].tokens > maxTokens
      <4>1. i \in 1..k - 1 /\ i \notin s.warm /\ m[i].tokens \in Nat
        <5> HIDE DEF s, t
        <5> QED
          BY <2>3, <3>1, <3>5
      <4>2. m[i].tokens = 0 \/ s.tokens + m[i].tokens > maxTokens \/ c = maxWarm
        <5> HIDE DEF s, c
        <5> QED
          BY <2>1, <4>1
      <4>3. c # maxWarm
        <5> HIDE DEF s, c
        <5> QED
          BY <2>4, <2>6
      <4> HIDE DEF s, t, c
      <4> QED
        BY <2>1, <3>4, <4>1, <4>2, <4>3
    <3>6. WarmsInLimits(t, m, k, maxTokens, maxWarm)
      <4> HIDE DEF s, t, c, x
      <4> QED
        BY <3>3, <3>4, <3>5 DEF WarmsInLimits
    <3> QED
      BY <3>6
  <2> QED
    BY <2>5, <2>6
<1>4. n \in G
  <2> HIDE DEF G
  <2>1. \A i \in 1..n : i - 1 \in G => i \in G
    BY <1>3
  <2>2. \A i \in 0..n : i \in G
    BY <1>2, <2>1, UpTo
  <2> QED
    BY <2>2
<1>5. r[n] = R!SelectWarm(m, maxTokens, maxWarm)
  BY <1>1 DEF WarmsUp
<1> QED
  BY <1>4, <1>5

\* Of rest, those that are older than i, or as old and listed before it.
OlderOf(m, rest, i) ==
    {j \in rest : m[j].mtime < m[i].mtime \/ (m[j].mtime = m[i].mtime /\ j < i)}

\* How many are older is a number of its own for each.
LEMMA RanksDiffer ==
    ASSUME NEW n \in Nat, NEW m, Manifests(m, n), NEW rest \in SUBSET (1..n)
    PROVE  /\ IsFiniteSet(rest) /\ Cardinality(rest) \in Nat
           /\ \A i \in rest : Cardinality(OlderOf(m, rest, i)) \in 0..Cardinality(rest) - 1
           /\ \A i, j \in rest : m[i].mtime < m[j].mtime
                 => Cardinality(OlderOf(m, rest, i)) < Cardinality(OlderOf(m, rest, j))
           /\ \A i, j \in rest : i # j
                 => Cardinality(OlderOf(m, rest, i)) # Cardinality(OlderOf(m, rest, j))
<1> DEFINE O(i) == OlderOf(m, rest, i)
           C(i) == Cardinality(O(i))
           N == Cardinality(rest)
           Less(j, i) == m[j].mtime < m[i].mtime \/ (m[j].mtime = m[i].mtime /\ j < i)
<1>1. IsFiniteSet(rest) /\ N \in Nat
  <2>1. IsFiniteSet(1..n)
    BY FS_Interval
  <2>2. IsFiniteSet(rest)
    BY <2>1, FS_Subset
  <2> QED
    BY <2>2, FS_CardinalityType
<1>2. \A i \in rest : i \in Int /\ m[i].mtime \in Int
  BY DEF Manifests
<1>3. \A i \in rest : O(i) \in SUBSET rest /\ IsFiniteSet(O(i)) /\ C(i) \in Nat
  <2> SUFFICES ASSUME NEW i \in rest
               PROVE  O(i) \in SUBSET rest /\ IsFiniteSet(O(i)) /\ C(i) \in Nat
    OBVIOUS
  <2>1. O(i) \in SUBSET rest
    BY DEF OlderOf
  <2>2. IsFiniteSet(O(i))
    BY <1>1, <2>1, FS_Subset
  <2> QED
    BY <2>1, <2>2, FS_CardinalityType
<1>4. ASSUME NEW i \in rest
      PROVE  C(i) \in 0..N - 1
  <2>1. O(i) \in SUBSET (rest \ {i})
    BY <1>2 DEF OlderOf
  <2>2. IsFiniteSet(rest \ {i}) /\ Cardinality(rest \ {i}) = N - 1
    BY <1>1, FS_RemoveElement
  <2>3. C(i) <= N - 1
    <3> HIDE DEF O, N
    <3> QED
      BY <2>1, <2>2, FS_Subset
  <2> HIDE DEF C, N
  <2> QED
    BY <1>1, <1>3, <2>3
<1>5. ASSUME NEW i \in rest, NEW j \in rest, Less(i, j)
      PROVE  C(i) < C(j)
  <2>1. i \notin O(i) /\ O(i) \union {i} \in SUBSET O(j)
    <3>1. \A k \in O(i) : k \in rest /\ Less(k, i)
      BY DEF OlderOf
    <3>2. i \notin O(i)
      BY <1>2 DEF OlderOf
    <3>3. ASSUME NEW k \in O(i)
          PROVE  Less(k, j)
      <4>1. k \in rest /\ Less(k, i)
        BY <3>1
      <4>2. /\ i \in Int /\ m[i].mtime \in Int /\ j \in Int /\ m[j].mtime \in Int
            /\ k \in Int /\ m[k].mtime \in Int
        BY <1>2, <4>1
      <4> HIDE DEF O
      <4> QED
        BY <1>5, <4>1, <4>2
    <3>4. \A k \in rest : Less(k, j) => k \in O(j)
      BY DEF OlderOf
    <3> HIDE DEF O, Less
    <3> QED
      BY <1>5, <3>1, <3>2, <3>3, <3>4
  <2>2. Cardinality(O(i) \union {i}) = C(i) + 1
    <3> HIDE DEF O
    <3> QED
      BY <1>3, <2>1, FS_AddElement
  <2>3. Cardinality(O(i) \union {i}) <= C(j)
    <3> HIDE DEF O
    <3> QED
      BY <1>3, <2>1, FS_Subset
  <2> HIDE DEF C
  <2> QED
    BY <1>3, <2>2, <2>3
<1>6. ASSUME NEW i \in rest, NEW j \in rest, i # j
      PROVE  C(i) # C(j)
  <2>1. Less(i, j) \/ Less(j, i)
    BY <1>2, <1>6
  <2>2. C(i) < C(j) \/ C(j) < C(i)
    <3> HIDE DEF C, Less
    <3> QED
      BY <1>5, <2>1
  <2> HIDE DEF C
  <2> QED
    BY <1>3, <2>2
<1>7. ASSUME NEW i \in rest, NEW j \in rest, m[i].mtime < m[j].mtime
      PROVE  C(i) < C(j)
  <2>1. Less(i, j)
    BY <1>7
  <2> HIDE DEF C, Less
  <2> QED
    BY <1>5, <2>1
<1> QED
  BY <1>1, <1>4, <1>6, <1>7

PrunesInLimits(pruned, m, n, maxEntries, maxAge, now) ==
    LET kept == (1..n) \ pruned
    IN  /\ \A i \in kept, j \in pruned : m[j].mtime <= m[i].mtime
        /\ maxEntries > 0 => Cardinality(kept) <= maxEntries
        /\ maxAge > 0 => \A i \in kept : m[i].mtime >= now - maxAge

\* What pruning leaves is within its limits, and removes nothing younger than
\* what it leaves.
LEMMA PruneLeavesTheYounger ==
    ASSUME NEW n \in Nat, NEW m, Manifests(m, n),
           NEW maxEntries \in Nat, NEW maxAge \in Nat, NEW now \in Int,
           NEW pruned, pruned = R!SelectPrune(m, maxEntries, maxAge, now)
    PROVE  PrunesInLimits(pruned, m, n, maxEntries, maxAge, now)
<1> DEFINE old == {i \in 1..n : maxAge > 0 /\ m[i].mtime < now - maxAge}
           rest == (1..n) \ old
           O(i) == OlderOf(m, rest, i)
           C(i) == Cardinality(O(i))
           N == Cardinality(rest)
           kept == (1..n) \ pruned
<1>1. pruned = old \union {i \in rest : maxEntries > 0 /\ C(i) < N - maxEntries}
  <2>1. DOMAIN m = 1..n
    BY DEF Manifests
  <2>2. pruned = old \union {i \in rest : maxEntries > 0
                              /\ R!Cardinality(O(i)) < R!Cardinality(rest) - maxEntries}
    BY <2>1 DEF R!SelectPrune, OlderOf
  <2>3. R!Cardinality(rest) = N /\ \A i \in rest : R!Cardinality(O(i)) = C(i)
    BY CountedAlike
  <2> HIDE DEF O, old, rest
  <2> QED
    BY <2>2, <2>3
<1>2. /\ IsFiniteSet(rest) /\ N \in Nat
      /\ \A i \in rest : C(i) \in 0..N - 1
      /\ \A i, j \in rest : m[i].mtime < m[j].mtime => C(i) < C(j)
      /\ \A i, j \in rest : i # j => C(i) # C(j)
  <2>1. rest \in SUBSET (1..n)
    OBVIOUS
  <2> HIDE DEF rest
  <2> QED
    BY <2>1, RanksDiffer
<1>3. \A i \in 1..n : m[i].mtime \in Int
  BY DEF Manifests
<1>4. /\ kept \subseteq rest
      /\ \A i \in kept : maxEntries > 0 => C(i) >= N - maxEntries
  <2>1. \A i \in rest : C(i) \in Int
    BY <1>2
  <2> HIDE DEF C, N
  <2> QED
    BY <1>1, <1>2, <2>1
<1>5. ASSUME NEW i \in kept, NEW j \in pruned
      PROVE  m[j].mtime <= m[i].mtime
  <2>1. i \in rest /\ j \in 1..n /\ m[i].mtime \in Int /\ m[j].mtime \in Int
    <3> HIDE DEF C, N
    <3> QED
      BY <1>1, <1>3, <1>4
  <2>2. CASE j \in old
    <3>1. maxAge > 0 /\ m[j].mtime < now - maxAge /\ ~(m[i].mtime < now - maxAge)
      BY <2>1, <2>2
    <3> HIDE DEF old, rest, kept
    <3> QED
      BY <2>1, <3>1
  <2>3. CASE j \notin old
    <3>1. j \in rest /\ maxEntries > 0 /\ C(j) < N - maxEntries
      <4> HIDE DEF C, N, old, rest
      <4> QED
        BY <1>1, <2>3
    <3>2. C(i) >= N - maxEntries
      <4> HIDE DEF C, N, rest, kept
      <4> QED
        BY <1>4, <3>1
    <3>3. C(i) \in Int /\ C(j) \in Int
      <4> HIDE DEF C, rest
      <4> QED
        BY <1>2, <2>1, <3>1
    <3>4. ~(m[i].mtime < m[j].mtime)
      <4> HIDE DEF C, N, rest, kept
      <4> QED
        BY <1>2, <2>1, <3>1, <3>2, <3>3
    <3> QED
      BY <2>1, <3>4
  <2> QED
    BY <2>2, <2>3
<1>6. ASSUME maxEntries > 0
      PROVE  Cardinality(kept) <= maxEntries
  <2> DEFINE lo == IF N - maxEntries > 0 THEN N - maxEntries ELSE 0
             ranks == lo..N - 1
             f == [i \in kept |-> C(i)]
  <2>1. lo \in Nat /\ lo >= N - maxEntries /\ lo >= 0
    <3> HIDE DEF N
    <3> QED
      BY <1>2
  <2>2. \A i \in kept : C(i) \in ranks
    <3>1. ASSUME NEW i \in kept
          PROVE  C(i) \in ranks
      <4>1. C(i) \in 0..N - 1 /\ C(i) >= N - maxEntries
        <5> HIDE DEF C, N, kept, rest
        <5> QED
          BY <1>2, <1>4, <1>6, <3>1
      <4> HIDE DEF C, N
      <4> QED
        BY <1>2, <4>1
    <3> QED
      BY <3>1
  <2>3. f \in Injection(kept, ranks)
    <3>1. \A i, j \in kept : i # j => C(i) # C(j)
      <4> HIDE DEF C, kept, rest
      <4> QED
        BY <1>2, <1>4
    <3>2. f \in [kept -> ranks]
      <4> HIDE DEF C, kept, ranks
      <4> QED
        BY <2>2
    <3> HIDE DEF C, kept, ranks
    <3> QED
      BY <3>1, <3>2 DEF Injection, IsInjective
  <2>4. IsFiniteSet(ranks) /\ Cardinality(ranks) <= maxEntries
    <3>1. N - 1 \in Int /\ lo \in Int
      BY <1>2, <2>1
    <3>2. IsFiniteSet(ranks) /\ Cardinality(ranks) = IF lo > N - 1 THEN 0 ELSE (N - 1) - lo + 1
      <4> HIDE DEF N, lo
      <4> QED
        BY <3>1, FS_Interval
    <3> HIDE DEF N, lo, ranks
    <3> QED
      BY <1>2, <2>1, <3>2
  <2>5. Cardinality(kept) <= Cardinality(ranks) /\ IsFiniteSet(kept)
    <3> HIDE DEF f, kept, ranks
    <3> QED
      BY <2>3, <2>4, FS_Injection
  <2>6. Cardinality(kept) \in Nat /\ Cardinality(ranks) \in Nat
    <3> HIDE DEF kept, ranks
    <3> QED
      BY <2>4, <2>5, FS_CardinalityType
  <2> HIDE DEF kept, ranks
  <2> QED
    BY <2>4, <2>5, <2>6
<1>7. ASSUME maxAge > 0, NEW i \in kept
      PROVE  m[i].mtime >= now - maxAge
  <2>1. i \in rest
    <3> HIDE DEF kept, rest
    <3> QED
      BY <1>4
  <2>2. i \in 1..n /\ ~(m[i].mtime < now - maxAge)
    BY <1>7, <2>1
  <2> HIDE DEF kept, rest
  <2> QED
    BY <1>3, <2>2
<1> HIDE DEF kept
<1> QED
  BY <1>5, <1>6, <1>7 DEF kept, PrunesInLimits

ManifestsOf(loaded) ==
    [i \in DOMAIN loaded |-> [tokens |-> Cp!EstTokens(loaded[i]), mtime |-> loaded[i].mtime]]

\* What the warmer and the pruner make of the manifests they loaded.
LEMMA SelectionsAreInLimits ==
    ASSUME NEW c \in Selections,
           NEW loaded, loaded = Cp!LoadManifests(c.prefixes, c.provider, 0),
           NEW manifests, manifests = ManifestsOf(loaded)
    PROVE  /\ Manifests(manifests, Len(loaded))
           /\ WarmsInLimits(R!SelectWarm(manifests, c.tokens, c.warm),
                            manifests, Len(loaded), c.tokens, c.warm)
           /\ PrunesInLimits(R!SelectPrune(manifests, c.entries, c.age, 3),
                             manifests, Len(loaded), c.entries, c.age, 3)
<1> DEFINE Values == Range(c.prefixes)
           n == Len(loaded)
<1>1. /\ c.prefixes \in Seq(Values)
      /\ \A p \in Values : /\ p.mtime \in Int
                      /\ p.prompted \in Nat /\ p.systemBytes \in Nat /\ p.toolBytes \in Nat
      /\ c.tokens \in Nat /\ c.warm \in Nat /\ c.entries \in Nat /\ c.age \in Nat
  BY SelectionAssumption
<1>2. loaded \in Seq(Values) /\ Sorted(loaded)
  BY <1>1, LoadedIsSorted
<1>3. \A p \in Values : Cp!EstTokens(p) \in Nat
  <2> SUFFICES ASSUME NEW p \in Values
               PROVE  Cp!EstTokens(p) \in Nat
    OBVIOUS
  <2>1. p.prompted \in Nat /\ p.systemBytes \in Nat /\ p.toolBytes \in Nat
    BY <1>1
  <2>2. (2 * (p.systemBytes + p.toolBytes)) \div 7 \in Nat
    BY <2>1
  <2> QED
    BY <2>1, <2>2 DEF Cp!EstTokens
<1> HIDE DEF Values
<1>4. n \in Nat /\ DOMAIN loaded = 1..n /\ \A i \in 1..n : loaded[i] \in Values
  BY <1>2
<1> HIDE DEF n
<1>5. Manifests(manifests, n)
  <2>1. /\ DOMAIN manifests = 1..n
        /\ \A i \in 1..n : /\ manifests[i].tokens = Cp!EstTokens(loaded[i])
                           /\ manifests[i].mtime = loaded[i].mtime
    BY <1>4 DEF ManifestsOf
  <2>2. \A i \in 1..n : manifests[i].tokens \in Nat /\ manifests[i].mtime \in Int
    BY <1>1, <1>3, <1>4, <2>1
  <2>3. \A i, j \in 1..n : i <= j => manifests[i].mtime >= manifests[j].mtime
    BY <1>2, <1>4, <2>1 DEF Sorted
  <2> QED
    BY <2>1, <2>2, <2>3 DEF Manifests
<1>6. 3 \in Int
  OBVIOUS
<1> QED
  BY <1>1, <1>4, <1>5, <1>6, WarmStaysInLimits, PruneLeavesTheYounger DEF n

LEMMA RetentionsAreInOrder ==
    ASSUME NEW c \in Retentions,
           NEW plan, plan = R!PlanRetention(c.entries, c.budget),
           NEW admits, admits = R!AdmitOrRefuse(c.entries, c.candidate, c.budget)
    PROVE  /\ plan.ok => R!KeepsWhatFits(c.entries, c.budget, plan)
           /\ admits.ok =>
                 /\ R!KeepsWhatFits(Append(c.entries, c.candidate), c.budget, admits)
                 /\ c.candidate.digest \in admits.keep
                 /\ admits.bytes <= c.budget
                 /\ ~c.candidate.pinned =>
                       \A e \in Range(c.entries) :
                          e.digest \in plan.keep \ admits.keep => R!Before(c.candidate, e)
<1>1. c.entries \in Seq(Entry) /\ c.candidate \in Entry /\ c.budget \in Int
  BY RetentionAssumption DEF Entry
<1> QED
  BY <1>1, RetentionIsInOrder

(* Retention keeps, in order, whatever still fits beside the pins, and a
   candidate displaces only what is older; the warmer stays in its budgets and
   passes over a manifest only for one of them; pruning meets its limits and
   removes nothing younger than what it leaves: for any number of entries and
   prefixes, any sizes, times and limits. *)
THEOREM KeptIsWhatItMay == Spec => []KeepsWhatItMay
<1>1. CallInv => KeepsWhatItMay
  <2> SUFFICES ASSUME CallInv
               PROVE  KeepsWhatItMay
    OBVIOUS
  <2>1. /\ call.rule = "retention" => call.of \in Retentions
        /\ call.rule = "selection" => call.of \in Selections
    BY DEF CallInv
  <2>2. CASE call.rule = "retention"
    BY <2>1, <2>2, RetentionsAreInOrder DEF KeepsWhatItMay, Of
  <2>3. CASE call.rule = "selection"
    <3> DEFINE c == call.of
               loaded == Cp!LoadManifests(c.prefixes, c.provider, 0)
               manifests == ManifestsOf(loaded)
               warmed == R!SelectWarm(manifests, c.tokens, c.warm)
               pruned == R!SelectPrune(manifests, c.entries, c.age, 3)
               kept == DOMAIN manifests \ pruned
    <3>1. /\ Manifests(manifests, Len(loaded))
          /\ WarmsInLimits(warmed, manifests, Len(loaded), c.tokens, c.warm)
          /\ PrunesInLimits(pruned, manifests, Len(loaded), c.entries, c.age, 3)
      BY <2>1, <2>3, SelectionsAreInLimits
    <3> HIDE DEF manifests
    <3>2. DOMAIN manifests = 1..Len(loaded)
      BY <3>1 DEF Manifests
    <3> HIDE DEF warmed, pruned, loaded, c
    <3>3. /\ warmed.tokens <= c.tokens
          /\ Cardinality(warmed.warm) <= c.warm
          /\ \A i \in DOMAIN manifests \ warmed.warm :
                \/ manifests[i].tokens = 0
                \/ warmed.tokens + manifests[i].tokens > c.tokens
                \/ /\ Cardinality(warmed.warm) = c.warm
                   /\ \A j \in warmed.warm : manifests[j].mtime >= manifests[i].mtime
      BY <3>1, <3>2 DEF WarmsInLimits
    <3>4. /\ \A i \in kept, j \in pruned : manifests[j].mtime <= manifests[i].mtime
          /\ c.entries > 0 => Cardinality(kept) <= c.entries
          /\ c.age > 0 => \A i \in kept : manifests[i].mtime >= 3 - c.age
      BY <3>1, <3>2 DEF PrunesInLimits
    <3> QED
      BY <2>3, <3>3, <3>4
      DEF KeepsWhatItMay, Of, kept, warmed, pruned, manifests, loaded, c, ManifestsOf
  <2> QED
    BY <2>2, <2>3 DEF KeepsWhatItMay, Of
<1> QED
  BY <1>1, CallsAreOfTheirFamily, PTL

-----------------------------------------------------------------------------
\* bf16 at its own widths.
Bf == INSTANCE Mappers WITH Kept <- 16, Dropped <- 16, Exponent <- 8

-----------------------------------------------------------------------------
\* r is what a fold with the steps g comes to after each place, and x at the end.
RunsTo(r, n, V, b, g, x) ==
    /\ r \in [0..n -> V]
    /\ r[0] = b
    /\ r[n] = x
    /\ \A i \in 1..n : r[i] = g[i][r[i - 1]]

\* Every fold over places has such a run.
LEMMA FoldsRun ==
    ASSUME NEW n \in Nat, NEW V, NEW b, NEW g, NEW f, Folds(f, n, V, b, g),
           NEW h, Follows(h, n, V, b, g)
    PROVE  \E r : RunsTo(r, n, V, b, g, h[1..n])
<1>1. h[1..n] = f[1..n]
  BY FoldIsUnique
<1> DEFINE r == [i \in 0..n |-> f[1..i]]
<1>2. /\ r \in [0..n -> V] /\ r[n] = f[1..n]
      /\ r[0] = b
  BY DEF Folds
<1>3. ASSUME NEW i \in 1..n
      PROVE  r[i] = g[i][r[i - 1]]
  BY FoldRuns
<1> HIDE DEF r
<1> QED
  BY <1>1, <1>2, <1>3 DEF RunsTo

-----------------------------------------------------------------------------
(* The container. *)
Byte == 0..255

Segment == [name : STRING, item : Nat, cells : Int, layerStart : Int, layerEnd : Int,
            offset : Nat, nbytes : Int, sha : Seq(Byte)]

Parted == [seg : Segment, data : Seq(Byte)]

Layout == [payload : Seq(Byte), table : Seq(Segment)]

\* The fold of Placed puts a part behind what it has put so far.
PutsBehind(done, part) ==
    LET at == Ct!Align(Len(done.payload))
    IN  [payload |-> done.payload \o Ct!Pad(at - Len(done.payload)) \o part.data,
         table |-> Append(done.table, [part.seg EXCEPT !.offset = at, !.sha = part.data])]

Nothing == [payload |-> <<>>, table |-> <<>>]

\* r is what has been placed after each part.
PlacesUp(r, parts, n) ==
    /\ r \in [0..n -> Layout]
    /\ r[0] = Nothing
    /\ r[n] = Ct!Placed(parts)
    /\ \A i \in 1..n : r[i] = PutsBehind(r[i - 1], parts[i])

\* The place of the next part is aligned, and not a part's length further.
LEMMA AlignIsNext ==
    ASSUME NEW n \in Nat
    PROVE  /\ Ct!Align(n) \in Nat /\ Ct!Align(n) % 64 = 0
           /\ Ct!Align(n) >= n /\ Ct!Align(n) < n + 64
           /\ n % 64 = 0 => Ct!Align(n) = n
<1>1. CASE n % 64 = 0
  BY <1>1 DEF Ct!Align
<1>2. CASE n % 64 # 0
  <2>1. n % 64 \in 1..63 /\ Ct!Align(n) = n + 64 - (n % 64)
    BY <1>2 DEF Ct!Align
  <2>2. (n + 64 - (n % 64)) % 64 = 0
    OBVIOUS
  <2> QED
    BY <1>2, <2>1, <2>2
<1> QED
  BY <1>1, <1>2

\* One list behind another.
LEMMA Joined ==
    ASSUME NEW S, NEW a \in Seq(S), NEW b \in Seq(S)
    PROVE  /\ a \o b \in Seq(S)
           /\ Len(a \o b) = Len(a) + Len(b)
           /\ \A i \in 1..Len(a) : (a \o b)[i] = a[i]
           /\ \A i \in 1..Len(b) : (a \o b)[Len(a) + i] = b[i]
  OBVIOUS

\* What one part adds to a layout.
Adds(done, part, next) ==
    LET at == Ct!Align(Len(done.payload))
        n  == Len(done.table)
    IN  /\ next \in Layout
        /\ Len(next.payload) = at + Len(part.data)
        /\ Len(next.table) = n + 1
        /\ \A i \in 1..n : next.table[i] = done.table[i]
        /\ next.table[n + 1] = [part.seg EXCEPT !.offset = at, !.sha = part.data]
        /\ \A b \in 1..Len(done.payload) : next.payload[b] = done.payload[b]
        /\ \A b \in 1..Len(part.data) : next.payload[at + b] = part.data[b]

(* One part is placed behind what is there, at the next aligned place. *)
LEMMA PlacesOne ==
    ASSUME NEW done \in Layout, NEW part \in Parted
    PROVE  Adds(done, part, PutsBehind(done, part))
<1> DEFINE L    == Len(done.payload)
           at   == Ct!Align(L)
           pad  == Ct!Pad(at - L)
           seg  == [part.seg EXCEPT !.offset = at, !.sha = part.data]
           next == PutsBehind(done, part)
<1>1. done.payload \in Seq(Byte) /\ done.table \in Seq(Segment) /\ L \in Nat
      /\ part.data \in Seq(Byte) /\ part.seg \in Segment
  BY DEF Layout, Parted
<1>2. at \in Nat /\ at >= L
  <2> HIDE DEF L
  <2> QED
    BY <1>1, AlignIsNext
<1>3. pad \in Seq(Byte) /\ Len(pad) = at - L
  <2> HIDE DEF L, at
  <2> QED
    BY <1>1, <1>2 DEF Ct!Pad, Byte
<1>4. seg \in Segment
  <2> HIDE DEF at
  <2> QED
    BY <1>1, <1>2 DEF Segment
<1>5. next.payload = done.payload \o pad \o part.data /\ next.table = Append(done.table, seg)
      /\ next = [payload |-> next.payload, table |-> next.table]
  BY DEF PutsBehind
<1> HIDE DEF next, seg, at, pad
<1> DEFINE front == done.payload \o pad
<1>11. /\ front \in Seq(Byte) /\ Len(front) = at
       /\ \A b \in 1..L : front[b] = done.payload[b]
  <2> HIDE DEF Byte
  <2>1. front \in Seq(Byte) /\ Len(front) = L + Len(pad)
        /\ \A b \in 1..L : front[b] = done.payload[b]
    BY <1>1, <1>3, Joined
  <2> QED
    BY <1>1, <1>2, <1>3, <2>1
<1>12. next.payload = front \o part.data
  BY <1>5
<1> HIDE DEF front, L
<1>6. /\ next.payload \in Seq(Byte) /\ Len(next.payload) = at + Len(part.data)
      /\ \A b \in 1..L : next.payload[b] = done.payload[b]
      /\ \A b \in 1..Len(part.data) : next.payload[at + b] = part.data[b]
  <2> DEFINE data == part.data
  <2> HIDE DEF Byte, data
  <2>1. data \in Seq(Byte)
    BY <1>1 DEF data
  <2>2. /\ front \o data \in Seq(Byte) /\ Len(front \o data) = Len(front) + Len(data)
        /\ \A b \in 1..Len(front) : (front \o data)[b] = front[b]
        /\ \A b \in 1..Len(data) : (front \o data)[Len(front) + b] = data[b]
    <3>1. front \in Seq(Byte)
      BY <1>11
    <3> QED
      BY <2>1, <3>1, Joined
  <2>3. \A b \in 1..L : b \in 1..at
    BY <1>1, <1>2
  <2> QED
    BY <1>11, <1>12, <2>2, <2>3 DEF data
<1>7. next.table \in Seq(Segment) /\ Len(next.table) = Len(done.table) + 1
      /\ (\A i \in 1..Len(done.table) : next.table[i] = done.table[i])
      /\ next.table[Len(done.table) + 1] = seg
  BY <1>1, <1>4, <1>5
<1>10. next \in Layout
  BY <1>5, <1>6, <1>7 DEF Layout
<1> QED
  BY <1>6, <1>7, <1>10 DEF next, seg, at, L, Adds

(* Placed puts its parts down one by one. *)
LEMMA PlacedRuns ==
    ASSUME NEW parts, NEW n \in Nat, DOMAIN parts = 1..n,
           \A i \in 1..n : parts[i] \in Parted
    PROVE  \E r : PlacesUp(r, parts, n)
<1> DEFINE V == Layout
           g == [i \in 1..n |-> [v \in V |-> PutsBehind(v, parts[i])]]
           Is(h) == h = [s \in SUBSET (1..n) |->
                            IF s = {} THEN Nothing ELSE PutsBehind(h[s \ {Max(s)}], parts[Max(s)])]
           h == CHOOSE h : Is(h)
<1>1. Ct!Placed(parts) = h[1..n]
  BY DEF Ct!Placed, Ct!FoldLeft, Ct!MapThenFoldSet, PutsBehind, Nothing, Ct!Max, Max
<1>2. Nothing \in V /\ \A i \in 1..n, v \in V : PutsBehind(v, parts[i]) \in V
  <2>1. Nothing \in V
    BY DEF Nothing, Layout
  <2>2. ASSUME NEW i \in 1..n, NEW v \in V
        PROVE  PutsBehind(v, parts[i]) \in V
    <3>1. Adds(v, parts[i], PutsBehind(v, parts[i]))
      BY PlacesOne
    <3> QED
      BY <3>1 DEF Adds
  <2> QED
    BY <2>1, <2>2
<1> HIDE DEF V
<1>3. g \in [1..n -> [V -> V]]
  BY <1>2
<1>4. \A i \in 1..n, v \in V : g[i][v] = PutsBehind(v, parts[i])
  OBVIOUS
<1> HIDE DEF g
<1>5. PICK f : Folds(f, n, V, Nothing, g)
  BY <1>2, <1>3, FoldExists
<1>6. \A s \in SUBSET (1..n) : s # {} =>
         s \ {Max(s)} \in SUBSET (1..n) /\ Max(s) \in 1..n
  BY LargestPlace
<1>7. Is(f)
  <2>1. ASSUME NEW s \in SUBSET (1..n)
        PROVE  f[s] = IF s = {} THEN Nothing ELSE PutsBehind(f[s \ {Max(s)}], parts[Max(s)])
    BY <1>4, <1>5, <1>6 DEF Folds
  <2>2. f = [s \in SUBSET (1..n) |-> f[s]]
    BY <1>5 DEF Folds
  <2> QED
    BY <2>1, <2>2
<1>8. Is(h)
  <2> HIDE DEF Is
  <2> QED
    BY <1>7
<1> HIDE DEF h
<1>9. Follows(h, n, V, Nothing, g)
  BY <1>4, <1>6, <1>8 DEF Follows
<1> HIDE DEF Is
<1>10. PICK r : RunsTo(r, n, V, Nothing, g, h[1..n])
  BY <1>5, <1>9, FoldsRun
<1> QED
  BY <1>1, <1>4, <1>10 DEF V, PlacesUp, RunsTo

\* Part i of what was written is in its place, and the next behind it.
InPlace(p, parts, i) ==
    LET s == p.table[i]
        d == parts[i].data
    IN  /\ s = [parts[i].seg EXCEPT !.offset = s.offset, !.sha = d]
        /\ s.offset \in Nat /\ s.offset % 64 = 0
        /\ s.offset + Len(d) <= Len(p.payload)
        /\ \A b \in 1..Len(d) : p.payload[s.offset + b] = d[b]

Behind(p, parts, i, j) ==
    p.table[i].offset + Len(parts[i].data) <= p.table[j].offset

LaidOut(p, parts, n) ==
    /\ p \in Layout /\ Len(p.table) = n
    /\ \A i \in 1..n : InPlace(p, parts, i)
    /\ \A i, j \in 1..n : i < j => Behind(p, parts, i, j)

(* A part more leaves what was laid out as it was, and is laid out behind it. *)
LEMMA LaysOutOne ==
    ASSUME NEW parts, NEW k \in Nat \ {0}, parts[k] \in Parted,
           \A i \in 1..k - 1 : parts[i] \in Parted,
           NEW done, LaidOut(done, parts, k - 1)
    PROVE  LaidOut(PutsBehind(done, parts[k]), parts, k)
<1> DEFINE next == PutsBehind(done, parts[k])
           L    == Len(done.payload)
           at   == Ct!Align(L)
           part == parts[k]
<1>1. done \in Layout /\ Len(done.table) = k - 1 /\ L \in Nat /\ part \in Parted
      /\ part.seg \in Segment /\ part.data \in Seq(Byte)
  BY DEF LaidOut, Layout, Parted
<1>2. at \in Nat /\ at % 64 = 0 /\ at >= L
  <2> HIDE DEF L
  <2> QED
    BY <1>1, AlignIsNext
<1>3. /\ next \in Layout
      /\ Len(next.payload) = at + Len(part.data)
      /\ Len(next.table) = k
      /\ \A i \in 1..k - 1 : next.table[i] = done.table[i]
      /\ next.table[k] = [part.seg EXCEPT !.offset = at, !.sha = part.data]
      /\ \A b \in 1..L : next.payload[b] = done.payload[b]
      /\ \A b \in 1..Len(part.data) : next.payload[at + b] = part.data[b]
  <2>1. k - 1 + 1 = k
    OBVIOUS
  <2>2. Adds(done, part, next)
    BY <1>1, PlacesOne
  <2> QED
    BY <1>1, <2>1, <2>2 DEF Adds
<1> HIDE DEF next, part, L, at
<1>4. next.table[k].offset = at /\ Len(part.data) \in Nat
  BY <1>1, <1>3 DEF Segment
<1>5. InPlace(next, parts, k)
  <2>1. next.table[k] = [part.seg EXCEPT !.offset = next.table[k].offset, !.sha = part.data]
    BY <1>3, <1>4
  <2>2. at + Len(part.data) <= Len(next.payload)
    BY <1>1, <1>2, <1>3, <1>4
  <2> QED
    BY <1>2, <1>3, <1>4, <2>1, <2>2 DEF InPlace, part
<1>6. ASSUME NEW i \in 1..k - 1
      PROVE  /\ InPlace(next, parts, i) /\ Behind(next, parts, i, k)
             /\ next.table[i] = done.table[i]
  <2>1. next.table[i] = done.table[i] /\ InPlace(done, parts, i)
    BY <1>3 DEF LaidOut
  <2>2. parts[i].data \in Seq(Byte) /\ Len(parts[i].data) \in Nat
    BY DEF Parted
  <2> DEFINE o == done.table[i].offset
             d == parts[i].data
  <2>3. o \in Nat /\ o + Len(d) <= L /\ \A b \in 1..Len(d) : done.payload[o + b] = d[b]
    BY <2>1 DEF InPlace, L
  <2>4. ASSUME NEW b \in 1..Len(d)
        PROVE  next.payload[o + b] = d[b]
    <3> HIDE DEF o, d
    <3>1. o + b \in 1..L
      BY <1>1, <2>2, <2>3 DEF d
    <3> QED
      BY <1>3, <2>3, <3>1
  <2>5. o + Len(d) <= Len(next.payload) /\ o + Len(d) <= at
    <3> DEFINE e == o + Len(d)
               x == Len(part.data)
               y == Len(next.payload)
    <3>1. e \in Nat /\ e <= L
      <4>1. o \in Nat /\ o + Len(d) <= L /\ Len(d) \in Nat
        BY <2>2, <2>3
      <4> HIDE DEF o, d
      <4> QED
        BY <4>1
    <3>2. L <= at /\ at \in Nat /\ L \in Nat
      BY <1>1, <1>2
    <3>3. y = at + x /\ x \in Nat
      BY <1>3, <1>4
    <3> HIDE DEF e, x, y
    <3>4. e <= y /\ e <= at
      BY <3>1, <3>2, <3>3
    <3> QED
      BY <3>4 DEF e, y
  <2>6. InPlace(next, parts, i)
    BY <2>1, <2>4, <2>5 DEF InPlace
  <2>7. Behind(next, parts, i, k)
    BY <1>4, <2>1, <2>5 DEF Behind
  <2> QED
    BY <2>1, <2>6, <2>7
<1>7. \A i \in 1..k : i = k \/ i \in 1..k - 1
  OBVIOUS
<1>8. \A i \in 1..k : InPlace(next, parts, i)
  BY <1>5, <1>6, <1>7
<1>9. ASSUME NEW i \in 1..k, NEW j \in 1..k, i < j
      PROVE  Behind(next, parts, i, j)
  <2>1. i \in 1..k - 1
    BY <1>9
  <2>2. CASE j = k
    BY <1>6, <2>1, <2>2
  <2>3. CASE j \in 1..k - 1
    <3>1. Behind(done, parts, i, j)
      BY <1>9, <2>1, <2>3 DEF LaidOut
    <3> QED
      BY <1>6, <2>1, <2>3, <3>1 DEF Behind
  <2> QED
    BY <1>7, <2>2, <2>3
<1> QED
  BY <1>3, <1>8, <1>9 DEF LaidOut, next

\* What write_segments places is laid out, part by part.
LEMMA PlacedIsLaidOut ==
    ASSUME NEW parts \in Seq(Parted)
    PROVE  LaidOut(Ct!Placed(parts), parts, Len(parts))
<1> DEFINE n == Len(parts)
<1>1. n \in Nat /\ DOMAIN parts = 1..n /\ \A i \in 1..n : parts[i] \in Parted
  OBVIOUS
<1>2. PICK r : PlacesUp(r, parts, n)
  <2> HIDE DEF n
  <2> QED
    BY <1>1, PlacedRuns
<1> HIDE DEF n
<1> DEFINE G == {k \in 0..n : LaidOut(r[k], parts, k)}
<1>3. 0 \in G
  <2>1. r[0] \in Layout /\ r[0].table = <<>>
    BY <1>1, <1>2 DEF PlacesUp, Nothing
  <2>2. LaidOut(r[0], parts, 0)
    BY <2>1 DEF LaidOut
  <2> QED
    BY <1>1, <2>2
<1>4. ASSUME NEW k \in 1..n, k - 1 \in G
      PROVE  k \in G
  <2>1. LaidOut(r[k - 1], parts, k - 1) /\ k \in Nat \ {0} /\ k \in 0..n
    BY <1>1, <1>4
  <2>2. parts[k] \in Parted /\ \A i \in 1..k - 1 : parts[i] \in Parted
    BY <1>1
  <2>3. r[k] = PutsBehind(r[k - 1], parts[k])
    BY <1>2 DEF PlacesUp
  <2>4. LaidOut(r[k], parts, k)
    BY <2>1, <2>2, <2>3, LaysOutOne
  <2> QED
    BY <2>1, <2>4
<1>5. n \in G
  <2> HIDE DEF G
  <2>1. \A i \in 1..n : i - 1 \in G => i \in G
    BY <1>4
  <2>2. \A i \in 0..n : i \in G
    BY <1>1, <1>3, <2>1, UpTo
  <2> QED
    BY <1>1, <2>2
<1> QED
  BY <1>2, <1>5 DEF PlacesUp, n

\* A byte that is changed is another byte.
LEMMA AnotherByte ==
    ASSUME NEW x \in Byte
    PROVE  (x + 1) % 256 \in Byte /\ (x + 1) % 256 # x
<1>1. x \in Int /\ 0 <= x /\ x <= 255
  BY DEF Byte
<1>2. CASE x = 255
  <2>1. (x + 1) % 256 = 0
    BY <1>2
  <2> QED
    BY <1>2, <2>1 DEF Byte
<1>3. CASE x < 255
  <2>1. (x + 1) % 256 = x + 1
    BY <1>1, <1>3
  <2> QED
    BY <1>1, <1>3, <2>1 DEF Byte
<1> QED
  BY <1>1, <1>2, <1>3

\* The bytes of a place, where they are those of a list.
LEMMA BytesAre ==
    ASSUME NEW payload \in Seq(Byte), NEW o \in Nat, NEW d \in Seq(Byte),
           o + Len(d) <= Len(payload), \A b \in 1..Len(d) : payload[o + b] = d[b]
    PROVE  SubSeq(payload, o + 1, o + Len(d)) = d
<1> DEFINE s == SubSeq(payload, o + 1, o + Len(d))
<1>1. Len(d) \in Nat /\ Len(payload) \in Nat
  OBVIOUS
<1>2. s \in Seq(Byte) /\ Len(s) = Len(d) /\ \A b \in 1..Len(d) : s[b] = payload[o + b]
  <2> HIDE DEF Byte
  <2>1. o + 1 \in 1..Len(payload) + 1 /\ o + Len(d) \in o..Len(payload)
    BY <1>1
  <2>2. Len(s) = Len(d)
    BY <1>1, <2>1
  <2>3. \A b \in 1..Len(d) : s[b] = payload[o + b]
    BY <1>1, <2>1
  <2>4. \A b \in 1..Len(s) : s[b] \in Byte
    <3>1. \A b \in 1..Len(d) : d[b] \in Byte
      OBVIOUS
    <3> HIDE DEF s
    <3> QED
      BY <2>2, <2>3, <3>1
  <2>5. s \in Seq(Byte)
    BY <1>1, <2>1
  <2> QED
    BY <2>2, <2>3, <2>5
<1> HIDE DEF s
<1>3. s = d
  BY <1>2
<1> QED
  BY <1>3 DEF s

\* What a table of parts that were written is known to be.
LEMMA WrittenIsLaidOut ==
    ASSUME NEW parts \in Seq(Parted), Ct!WritesSegments(parts)
    PROVE  LET p == Ct!Placed(parts)
           IN  /\ p.payload \in Seq(Byte) /\ p.table \in Seq(Segment)
               /\ Len(p.table) = Len(parts) /\ Ct!TableOk(p.table, Len(p.payload))
               /\ \A i \in DOMAIN p.table :
                     /\ p.table[i].offset \in Nat /\ parts[i].data \in Seq(Byte)
                     /\ p.table[i].nbytes = Len(parts[i].data)
                     /\ p.table[i].sha = parts[i].data
                     /\ SubSeq(p.payload, p.table[i].offset + 1, p.table[i].offset + p.table[i].nbytes)
                           = parts[i].data
               /\ \A i, j \in DOMAIN p.table :
                     i < j => p.table[i].offset + p.table[i].nbytes <= p.table[j].offset
<1> DEFINE p == Ct!Placed(parts)
           n == Len(parts)
<1>1. /\ n \in Nat /\ DOMAIN parts = 1..n /\ \A i \in 1..n : parts[i] \in Parted
      /\ \A i \in 1..n : parts[i].seg.nbytes = Len(parts[i].data)
      /\ Ct!TableOk(p.table, Len(p.payload))
  BY DEF Ct!WritesSegments
<1>2. LaidOut(p, parts, n)
  BY PlacedIsLaidOut
<1> HIDE DEF p, n
<1>3. p.payload \in Seq(Byte) /\ p.table \in Seq(Segment) /\ Len(p.table) = n
      /\ DOMAIN p.table = 1..n
  BY <1>2 DEF LaidOut, Layout
<1>4. ASSUME NEW i \in 1..n
      PROVE  /\ p.table[i].offset \in Nat /\ parts[i].data \in Seq(Byte)
             /\ p.table[i].nbytes = Len(parts[i].data)
             /\ p.table[i].sha = parts[i].data
             /\ SubSeq(p.payload, p.table[i].offset + 1, p.table[i].offset + p.table[i].nbytes)
                   = parts[i].data
  <2> DEFINE s == p.table[i]
             d == parts[i].data
             o == s.offset
  <2>1. /\ s = [parts[i].seg EXCEPT !.offset = o, !.sha = d]
        /\ o \in Nat /\ o + Len(d) <= Len(p.payload)
        /\ \A b \in 1..Len(d) : p.payload[o + b] = d[b]
    BY <1>2 DEF LaidOut, InPlace
  <2>2. d \in Seq(Byte) /\ parts[i].seg \in Segment /\ parts[i].seg.nbytes = Len(d)
    BY <1>1 DEF Parted
  <2>3. s.nbytes = Len(d) /\ s.sha = d
    BY <2>1, <2>2 DEF Segment
  <2> HIDE DEF o, d
  <2>4. SubSeq(p.payload, o + 1, o + Len(d)) = d
    BY <1>3, <2>1, <2>2, BytesAre
  <2> QED
    BY <2>1, <2>2, <2>3, <2>4 DEF o, d
<1>5. ASSUME NEW i \in 1..n, NEW j \in 1..n, i < j
      PROVE  p.table[i].offset + p.table[i].nbytes <= p.table[j].offset
  <2>1. Behind(p, parts, i, j)
    BY <1>2, <1>5 DEF LaidOut
  <2> QED
    BY <1>4, <2>1 DEF Behind
<1> QED
  BY <1>1, <1>3, <1>4, <1>5 DEF p, n

(* What write_segments accepts verifies, extracts and reads back, part by part;
   no byte belongs to two segments. *)
LEMMA WrittenReadsBack ==
    ASSUME NEW parts \in Seq(Parted)
    PROVE  Ct!ReadsBack(parts)
<1> SUFFICES ASSUME Ct!WritesSegments(parts)
             PROVE  LET f     == Ct!WriteSegments(parts)
                        table == f.header.blob.table
                    IN  /\ Ct!Verify(f) /\ Ct!Extracts(f) /\ ~Ct!VerifyHeader(f)
                        /\ \A i \in DOMAIN parts :
                              Ct!Bytes(f, table[i].offset, table[i].nbytes) = parts[i].data
                        /\ \A i, j \in DOMAIN table : i # j =>
                              (table[i].offset + 1 .. Ct!End(table[i]))
                                 \intersect (table[j].offset + 1 .. Ct!End(table[j])) = {}
  BY DEF Ct!ReadsBack
<1> DEFINE p     == Ct!Placed(parts)
           n     == Len(parts)
           f     == Ct!WriteSegments(parts)
           blob  == f.header.blob
           table == p.table
<1>1. /\ p.payload \in Seq(Byte) /\ table \in Seq(Segment)
      /\ Len(table) = n /\ Ct!TableOk(table, Len(p.payload))
      /\ \A i \in DOMAIN table :
            /\ table[i].offset \in Nat /\ parts[i].data \in Seq(Byte)
            /\ table[i].nbytes = Len(parts[i].data)
            /\ table[i].sha = parts[i].data
            /\ SubSeq(p.payload, table[i].offset + 1, table[i].offset + table[i].nbytes)
                  = parts[i].data
      /\ \A i, j \in DOMAIN table :
            i < j => table[i].offset + table[i].nbytes <= table[j].offset
  BY WrittenIsLaidOut
<1>2. /\ f.magic = TRUE /\ f.version = 2 /\ f.payload = p.payload /\ f.cut = 0
      /\ f.header.digest = blob
      /\ blob.encoding = "segmented" /\ blob.nbytes = Len(p.payload) /\ blob.sha = p.payload
      /\ blob.aligned = TRUE /\ blob.table = table /\ blob.representation = Ct!TableDigest(table)
  BY DEF Ct!WriteSegments, Ct!File
<1> HIDE DEF f, p
<1>3. SubSeq(p.payload, 0 + 1, 0 + Len(p.payload)) = p.payload
  <2>1. Len(p.payload) \in Nat
    BY <1>1
  <2>2. 0 + Len(p.payload) <= Len(p.payload)
        /\ \A b \in 1..Len(p.payload) : p.payload[0 + b] = p.payload[b]
    BY <2>1
  <2> QED
    BY <1>1, <2>2, BytesAre
<1>4. Ct!HeaderOk(f) /\ Ct!Extracts(f) /\ ~Ct!VerifyHeader(f)
  <2>1. Len(p.payload) \in Nat /\ Len(p.payload) <= Len(p.payload) - 0
    BY <1>1
  <2>2. Ct!HeaderOk(f)
    BY <1>2, <2>1 DEF Ct!HeaderOk, Ct!Reads
  <2>3. Ct!Extracts(f)
    BY <1>2, <1>3, <2>1 DEF Ct!Extracts, Ct!Bytes, Ct!Reads
  <2> QED
    BY <1>2, <2>2, <2>3 DEF Ct!VerifyHeader
<1>5. DOMAIN table = 1..n /\ DOMAIN parts = 1..n
  BY <1>1
<1>6. \A i \in DOMAIN table : /\ Ct!Bytes(f, table[i].offset, table[i].nbytes) = table[i].sha
                             /\ table[i].sha = parts[i].data
  BY <1>1, <1>2 DEF Ct!Bytes
<1>7. Ct!Verify(f)
  BY <1>1, <1>2, <1>3, <1>4, <1>6 DEF Ct!Verify, Ct!Bytes
<1>8. ASSUME NEW i \in DOMAIN table, NEW j \in DOMAIN table, i # j
      PROVE  (table[i].offset + 1 .. Ct!End(table[i]))
                \intersect (table[j].offset + 1 .. Ct!End(table[j])) = {}
  <2>1. /\ table[i].offset \in Nat /\ table[i].nbytes \in Nat
        /\ table[j].offset \in Nat /\ table[j].nbytes \in Nat
    <3>1. ASSUME NEW k \in DOMAIN table
          PROVE  table[k].offset \in Nat /\ table[k].nbytes \in Nat
      <4>1. parts[k].data \in Seq(Byte) /\ table[k].nbytes = Len(parts[k].data)
            /\ table[k].offset \in Nat
        BY <1>1
      <4> HIDE DEF Byte, table
      <4>2. Len(parts[k].data) \in Nat
        BY <4>1
      <4> QED
        BY <4>1, <4>2
    <3> QED
      BY <3>1
  <2>2. \/ table[i].offset + table[i].nbytes <= table[j].offset
        \/ table[j].offset + table[j].nbytes <= table[i].offset
    <3>1. i \in Int /\ j \in Int /\ (i < j \/ j < i)
      BY <1>5, <1>8
    <3> QED
      BY <1>1, <3>1
  <2> DEFINE a == table[i].offset
             b == table[j].offset
             m == table[i].nbytes
             k == table[j].nbytes
  <2> HIDE DEF a, b, m, k
  <2>3. a \in Nat /\ b \in Nat /\ m \in Nat /\ k \in Nat /\ (a + m <= b \/ b + k <= a)
    BY <2>1, <2>2 DEF a, b, m, k
  <2>4. (a + 1 .. a + m) \intersect (b + 1 .. b + k) = {}
    BY <2>3
  <2> QED
    BY <2>4 DEF Ct!End, a, b, m, k
<1> QED
  BY <1>2, <1>4, <1>5, <1>6, <1>7, <1>8 DEF f

(* Parts that are sound one by one, with names of their own, are placed. *)
LEMMA SoundIsPlaced ==
    ASSUME NEW parts \in Seq(Parted)
    PROVE  Ct!AlwaysPlaces(parts)
<1> SUFFICES ASSUME parts # <<>>,
                    \A i \in DOMAIN parts : /\ Ct!Valid(parts[i].seg)
                                            /\ parts[i].seg.nbytes = Len(parts[i].data),
                    Ct!IsInjective([i \in DOMAIN parts |-> parts[i].seg.name])
             PROVE  Ct!WritesSegments(parts)
  BY DEF Ct!AlwaysPlaces
<1> DEFINE p     == Ct!Placed(parts)
           n     == Len(parts)
           table == p.table
<1>1. n \in Nat /\ DOMAIN parts = 1..n /\ \A i \in 1..n : parts[i] \in Parted
  OBVIOUS
<1>2. LaidOut(p, parts, n)
  BY PlacedIsLaidOut
<1> HIDE DEF p
<1>3. p.payload \in Seq(Byte) /\ table \in Seq(Segment) /\ Len(table) = n
      /\ DOMAIN table = 1..n
  BY <1>2 DEF LaidOut, Layout
<1>4. ASSUME NEW i \in 1..n
      PROVE  /\ Ct!Valid(table[i]) /\ table[i].offset % 64 = 0
             /\ table[i].name = parts[i].seg.name
             /\ table[i].offset \in Nat /\ table[i].nbytes \in Nat
             /\ Ct!End(table[i]) <= Len(p.payload)
             /\ Ct!End(table[i]) = table[i].offset + Len(parts[i].data)
  <2>1. /\ table[i] = [parts[i].seg EXCEPT !.offset = table[i].offset, !.sha = parts[i].data]
        /\ table[i].offset \in Nat /\ table[i].offset % 64 = 0
        /\ table[i].offset + Len(parts[i].data) <= Len(p.payload)
    BY <1>2 DEF LaidOut, InPlace
  <2>2. parts[i].seg \in Segment /\ parts[i].data \in Seq(Byte) /\ parts[i].seg.nbytes = Len(parts[i].data)
        /\ Ct!Valid(parts[i].seg)
    BY <1>1 DEF Parted
  <2> DEFINE seg == parts[i].seg
  <2>3. /\ table[i].name = seg.name /\ table[i].nbytes = seg.nbytes
        /\ table[i].cells = seg.cells /\ table[i].item = seg.item
        /\ table[i].layerStart = seg.layerStart /\ table[i].layerEnd = seg.layerEnd
    <3> HIDE DEF table
    <3> QED
      BY <2>1, <2>2 DEF Segment
  <2> HIDE DEF table
  <2>4. Ct!Valid(table[i])
    <3>1. table[i].offset >= 0
      BY <2>1
    <3> HIDE DEF seg
    <3>2. Ct!Valid(seg)
      BY <2>2 DEF seg
    <3> QED
      BY <2>3, <3>1, <3>2 DEF Ct!Valid
  <2> QED
    BY <2>1, <2>2, <2>3, <2>4 DEF Ct!End
<1>5. ASSUME NEW i \in 1..n, NEW j \in 1..n, Ct!InFrontOf(table, i, j)
      PROVE  table[j].offset >= Ct!End(table[i])
  <2>1. \A k, m \in 1..n : k < m => table[k].offset + Len(parts[k].data) <= table[m].offset
    BY <1>2 DEF LaidOut, Behind
  <2>2. Ct!Sooner(table, i, j)
    BY <1>5 DEF Ct!InFrontOf
  <2>3. i < j
    <3> SUFFICES ASSUME ~(i < j) PROVE FALSE
      OBVIOUS
    <3>1. table[i].offset < table[j].offset
      BY <2>2 DEF Ct!Sooner
    <3>2. j < i
      BY <1>1, <1>4, <3>1
    <3>3. Len(parts[j].data) \in Nat
      BY <1>1 DEF Parted
    <3> HIDE DEF table
    <3>4. table[j].offset + Len(parts[j].data) <= table[i].offset
      BY <2>1, <3>2
    <3> QED
      BY <1>4, <3>1, <3>3, <3>4
  <2> HIDE DEF table
  <2>4. table[i].offset + Len(parts[i].data) <= table[j].offset
    BY <2>1, <2>3
  <2> QED
    BY <1>4, <2>4
<1>6. Ct!IsInjective([i \in DOMAIN table |-> table[i].name])
  <2>1. [i \in DOMAIN table |-> table[i].name] = [i \in DOMAIN parts |-> parts[i].seg.name]
    BY <1>1, <1>3, <1>4
  <2> QED
    BY <2>1
<1>7. table # <<>>
  BY <1>1, <1>3
<1>8. Ct!TableOk(table, Len(p.payload))
  <2> HIDE DEF table, n
  <2> QED
    BY <1>3, <1>4, <1>5, <1>6, <1>7 DEF Ct!TableOk
<1> QED
  BY <1>8 DEF Ct!WritesSegments, p

(* A byte more. *)
LEMMA AppendIs ==
    ASSUME NEW p \in Seq(Byte)
    PROVE  /\ Append(p, 0) \in Seq(Byte) /\ Len(Append(p, 0)) = Len(p) + 1
           /\ \A i \in 1..Len(p) : Append(p, 0)[i] = p[i]
<1>1. 0 \in Byte
  BY DEF Byte
<1> HIDE DEF Byte
<1> QED
  BY <1>1

\* The text of a header, and the file of it.
Text(e, p, table) ==
    [encoding |-> e, nbytes |-> Len(p), sha |-> p, aligned |-> TRUE,
     table |-> table, representation |-> Ct!TableDigest(table)]

Filed(v, p, b) ==
    [magic |-> TRUE, version |-> v, padding |-> "spaces", payload |-> p, cut |-> 0,
     header |-> [blob |-> b, digest |-> b]]

(* What a file is before anything in it is altered. *)
LEMMA FileIs ==
    ASSUME NEW v, NEW e, NEW p \in Seq(Byte), NEW table
    PROVE  /\ Ct!File(v, e, p, table) = Filed(v, p, Text(e, p, table))
           /\ Len(p) \in Nat /\ DOMAIN p = 1..Len(p)
BY DEF Ct!File, Filed, Text

(* What may be altered in a file, one thing at a time. *)
LEMMA AlteredIs ==
    ASSUME NEW f, NEW g \in Ct!Altered(f)
    PROVE  \/ g = [f EXCEPT !.magic = FALSE]
           \/ g = [f EXCEPT !.padding = "another"]
           \/ g = [f EXCEPT !.payload = Append(@, 0)]
           \/ \E w \in 0..3 : g = [f EXCEPT !.version = w]
           \/ \E c \in Ct!Rewritten(f.header.blob) : g = [f EXCEPT !.header.blob = c]
           \/ \E c \in Ct!Rewritten(f.header.blob) : g = [f EXCEPT !.header.digest = c]
           \/ \E i \in DOMAIN f.payload : g = [f EXCEPT !.payload[i] = (@ + 1) % 256]
           \/ \E n \in 1..Len(f.payload) + 12 : g = [f EXCEPT !.cut = n]
BY DEF Ct!Altered

(* Whatever is altered in a file, its payload is a list of bytes. *)
LEMMA AlteredIsBytes ==
    ASSUME NEW v, NEW e, NEW p \in Seq(Byte), NEW table,
           NEW g \in Ct!Altered(Ct!File(v, e, p, table))
    PROVE  g.payload \in Seq(Byte)
<1> DEFINE f == Ct!File(v, e, p, table)
           b == Text(e, p, table)
<1>1. /\ f = [magic |-> TRUE, version |-> v, padding |-> "spaces", payload |-> p,
              cut |-> 0, header |-> [blob |-> b, digest |-> b]]
      /\ Len(p) \in Nat /\ DOMAIN p = 1..Len(p)
  BY FileIs DEF Filed, Text
<1>2. \/ g.payload = f.payload
      \/ g = [f EXCEPT !.payload = Append(@, 0)]
      \/ \E i \in DOMAIN f.payload : g = [f EXCEPT !.payload[i] = (@ + 1) % 256]
  <2>1. f.payload = p
    BY <1>1
  <2> HIDE DEF f, b
  <2>2. g = [f EXCEPT !.magic = FALSE] => g.payload = f.payload
    BY <1>1
  <2>3. g = [f EXCEPT !.padding = "another"] => g.payload = f.payload
    BY <1>1
  <2>4. \A w : g = [f EXCEPT !.version = w] => g.payload = f.payload
    BY <1>1
  <2>5. \A c : g = [f EXCEPT !.header.blob = c] => g.payload = f.payload
    BY <1>1
  <2>6. \A c : g = [f EXCEPT !.header.digest = c] => g.payload = f.payload
    BY <1>1
  <2>7. \A n : g = [f EXCEPT !.cut = n] => g.payload = f.payload
    BY <1>1
  <2> QED
    BY <2>2, <2>3, <2>4, <2>5, <2>6, <2>7 DEF Ct!Altered, f
<1> HIDE DEF f, b
<1>3. CASE g.payload = f.payload
  BY <1>1, <1>3
<1>4. CASE g = [f EXCEPT !.payload = Append(@, 0)]
  <2>1. g.payload = Append(p, 0)
    BY <1>1, <1>4
  <2> QED
    BY <2>1, AppendIs
<1>5. CASE \E i \in DOMAIN f.payload : g = [f EXCEPT !.payload[i] = (@ + 1) % 256]
  <2>1. PICK i \in DOMAIN f.payload : g = [f EXCEPT !.payload[i] = (@ + 1) % 256]
    BY <1>5
  <2>2. g.payload = [p EXCEPT ![i] = (@ + 1) % 256] /\ i \in 1..Len(p)
    BY <1>1, <2>1
  <2>3. p[i] \in Byte
    <3> HIDE DEF Byte
    <3> QED
      BY <2>2
  <2>4. (p[i] + 1) % 256 \in Byte
    BY <2>3, AnotherByte
  <2> HIDE DEF Byte
  <2> QED
    BY <2>2, <2>4
<1> QED
  BY <1>2, <1>3, <1>4, <1>5

(* A header with a field of another value is another header. *)
LEMMA RewrittenDiffers ==
    ASSUME NEW v, NEW e, e # "another", NEW p \in Seq(Byte), NEW table,
           NEW c \in Ct!Rewritten(Text(e, p, table))
    PROVE  c # Text(e, p, table)
<1> DEFINE b == Text(e, p, table)
<1>1. /\ b = [encoding |-> e, nbytes |-> Len(p), sha |-> p, aligned |-> TRUE,
              table |-> table, representation |-> Ct!TableDigest(table)]
      /\ Len(p) \in Nat
  BY DEF Text
<1>2. \/ c = [b EXCEPT !.encoding = "another"]
      \/ c = [b EXCEPT !.nbytes = @ + 1]
      \/ c = [b EXCEPT !.sha = Append(@, 0)]
      \/ c = [b EXCEPT !.aligned = FALSE]
  BY DEF Ct!Rewritten
<1> HIDE DEF b
<1>3. CASE c = [b EXCEPT !.encoding = "another"]
  <2>1. c.encoding = "another" /\ b.encoding = e
    BY <1>1, <1>3
  <2> QED
    BY <2>1 DEF b
<1>4. CASE c = [b EXCEPT !.nbytes = @ + 1]
  <2>1. c.nbytes = Len(p) + 1 /\ b.nbytes = Len(p)
    BY <1>1, <1>4
  <2>2. c.nbytes # b.nbytes
    BY <1>1, <2>1
  <2> QED
    BY <2>2 DEF b
<1>5. CASE c = [b EXCEPT !.sha = Append(@, 0)]
  <2>1. c.sha = Append(p, 0) /\ b.sha = p
    BY <1>1, <1>5
  <2>2. Len(Append(p, 0)) = Len(p) + 1
    BY AppendIs
  <2>3. Append(p, 0) # p
    BY <1>1, <2>2
  <2> QED
    BY <2>1, <2>3 DEF b
<1>6. CASE c = [b EXCEPT !.aligned = FALSE]
  <2>1. c.aligned = FALSE /\ b.aligned = TRUE
    BY <1>1, <1>6
  <2> QED
    BY <2>1 DEF b
<1> QED
  BY <1>2, <1>3, <1>4, <1>5, <1>6

(* A file with one thing altered whose header and payload are found in order is
   one that no digest tells from the file itself. *)
LEMMA AlteredIsSpared ==
    ASSUME NEW v, NEW e, e # "another", NEW p \in Seq(Byte), NEW table,
           NEW g \in Ct!Altered(Ct!File(v, e, p, table)), v \in {1, 2},
           Ct!HeaderOk(g), Ct!Bytes(g, 0, g.header.blob.nbytes) = g.header.blob.sha
    PROVE  Ct!Spared(Ct!File(v, e, p, table), g)
<1> DEFINE f == Ct!File(v, e, p, table)
           b == Text(e, p, table)
<1>1. /\ f = [magic |-> TRUE, version |-> v, padding |-> "spaces", payload |-> p,
              cut |-> 0, header |-> [blob |-> b, digest |-> b]]
      /\ b.nbytes = Len(p) /\ b.sha = p
      /\ Len(p) \in Nat /\ DOMAIN p = 1..Len(p)
  BY FileIs DEF Filed, Text
<1>2. /\ g.magic /\ g.version \in {1, 2} /\ g.header.digest = g.header.blob
      /\ g.header.blob.nbytes <= Len(g.payload) - g.cut
  BY DEF Ct!HeaderOk, Ct!Reads
<1>3. \A c \in Ct!Rewritten(b) : c # b
  BY RewrittenDiffers
<1>4. \/ g = [f EXCEPT !.magic = FALSE]
      \/ g = [f EXCEPT !.padding = "another"]
      \/ g = [f EXCEPT !.payload = Append(@, 0)]
      \/ \E w \in 0..3 : g = [f EXCEPT !.version = w]
      \/ \E c \in Ct!Rewritten(b) : g = [f EXCEPT !.header.blob = c]
      \/ \E c \in Ct!Rewritten(b) : g = [f EXCEPT !.header.digest = c]
      \/ \E i \in DOMAIN f.payload : g = [f EXCEPT !.payload[i] = (@ + 1) % 256]
      \/ \E n \in 1..Len(f.payload) + 12 : g = [f EXCEPT !.cut = n]
  <2>1. g \in Ct!Altered(f) /\ f.header.blob = b
    BY <1>1
  <2> HIDE DEF f, b
  <2> QED
    BY <2>1, AlteredIs
<1> HIDE DEF f, b
<1>5. CASE g = [f EXCEPT !.magic = FALSE]
  BY <1>1, <1>2, <1>5
<1>6. CASE g = [f EXCEPT !.padding = "another"]
  <2>1. g.header = f.header /\ g.cut = f.cut /\ g.payload = p /\ f.payload = p
    BY <1>1, <1>6
  <2> QED
    BY <1>2, <2>1 DEF Ct!Spared, f
<1>7. CASE g = [f EXCEPT !.payload = Append(@, 0)]
  <2>1. g.header = f.header /\ g.cut = f.cut /\ g.payload = Append(p, 0) /\ f.payload = p
    BY <1>1, <1>7
  <2>2. /\ Append(p, 0) \in Seq(Byte) /\ Len(Append(p, 0)) = Len(p) + 1
        /\ \A i \in 1..Len(p) : Append(p, 0)[i] = p[i]
    BY AppendIs
  <2>3. DOMAIN Append(p, 0) = 1..Len(p) + 1
    BY <2>2
  <2>4. \A i \in DOMAIN p : i \in DOMAIN Append(p, 0) /\ Append(p, 0)[i] = p[i]
    BY <1>1, <2>2, <2>3
  <2> QED
    BY <1>2, <2>1, <2>2, <2>4 DEF Ct!Spared, f
<1>8. CASE \E w \in 0..3 : g = [f EXCEPT !.version = w]
  <2>1. g.header = f.header /\ g.cut = f.cut /\ g.payload = p /\ f.payload = p
    BY <1>1, <1>8
  <2> QED
    BY <1>2, <2>1 DEF Ct!Spared, f
<1>9. CASE \E c \in Ct!Rewritten(b) : g = [f EXCEPT !.header.blob = c]
  <2>1. PICK c \in Ct!Rewritten(b) : g = [f EXCEPT !.header.blob = c]
    BY <1>9
  <2>2. g.header.blob = c /\ g.header.digest = b
    BY <1>1, <2>1
  <2> QED
    BY <1>2, <1>3, <2>2
<1>10. CASE \E c \in Ct!Rewritten(b) : g = [f EXCEPT !.header.digest = c]
  <2>1. PICK c \in Ct!Rewritten(b) : g = [f EXCEPT !.header.digest = c]
    BY <1>10
  <2>2. g.header.blob = b /\ g.header.digest = c
    BY <1>1, <2>1
  <2> QED
    BY <1>2, <1>3, <2>2
<1>11. CASE \E i \in DOMAIN f.payload : g = [f EXCEPT !.payload[i] = (@ + 1) % 256]
  <2>1. PICK i \in DOMAIN f.payload : g = [f EXCEPT !.payload[i] = (@ + 1) % 256]
    BY <1>11
  <2> DEFINE q == [p EXCEPT ![i] = (@ + 1) % 256]
  <2>2. g.header = f.header /\ g.payload = q /\ f.payload = p
    BY <1>1, <2>1
  <2>3. i \in 1..Len(p) /\ p[i] \in Byte
    <3>1. i \in 1..Len(p)
      BY <1>1, <2>2
    <3> HIDE DEF Byte
    <3> QED
      BY <3>1
  <2>4. (p[i] + 1) % 256 \in Byte /\ (p[i] + 1) % 256 # p[i]
    BY <2>3, AnotherByte
  <2>5. q[i] = (p[i] + 1) % 256
    BY <2>3
  <2>6. q \in Seq(Byte) /\ Len(q) = Len(p)
    <3> HIDE DEF Byte
    <3> QED
      BY <2>3, <2>4
  <2> HIDE DEF q
  <2>7. SubSeq(q, 0 + 1, 0 + Len(q)) = q
    <3>1. 0 + Len(q) <= Len(q) /\ \A k \in 1..Len(q) : q[0 + k] = q[k]
      BY <1>1, <2>6
    <3> QED
      BY <2>6, <3>1, BytesAre
  <2>8. SubSeq(g.payload, 0 + 1, 0 + Len(p)) = p
    <3>1. g.header.blob.nbytes = Len(p) /\ g.header.blob.sha = p
      BY <1>1, <2>2
    <3> QED
      BY <3>1 DEF Ct!Bytes
  <2> QED
    BY <2>2, <2>4, <2>5, <2>6, <2>7, <2>8
<1>12. CASE \E n \in 1..Len(f.payload) + 12 : g = [f EXCEPT !.cut = n]
  <2>1. PICK n \in 1..Len(f.payload) + 12 : g = [f EXCEPT !.cut = n]
    BY <1>12
  <2>2. g.header.blob.nbytes = Len(p) /\ g.payload = p /\ g.cut = n /\ f.payload = p
    BY <1>1, <2>1
  <2>3. n \in Int /\ n >= 1
    BY <1>1, <2>2
  <2> QED
    BY <1>1, <1>2, <2>2, <2>3
<1> QED
  BY <1>4, <1>5, <1>6, <1>7, <1>8, <1>9, <1>10, <1>11, <1>12 DEF f

\* A file that reads, with the header b and the bytes of p.
InOrder(g, b, p) ==
    /\ Ct!HeaderOk(g) /\ Ct!Extracts(g) /\ g.header.blob = b
    /\ \A o \in Nat, n \in Nat :
          o + n <= Len(p) => Ct!Bytes(g, o, n) = SubSeq(p, o + 1, o + n)

(* What no digest tells from the file itself is in order, and has its bytes. *)
LEMMA SparedIsInOrder ==
    ASSUME NEW v, NEW e, NEW p \in Seq(Byte), NEW table, NEW g,
           Ct!Spared(Ct!File(v, e, p, table), g), g.payload \in Seq(Byte)
    PROVE  InOrder(g, Text(e, p, table), p)
<1> DEFINE f == Ct!File(v, e, p, table)
           b == Text(e, p, table)
           q == g.payload
<1>1. /\ f = [magic |-> TRUE, version |-> v, padding |-> "spaces", payload |-> p,
              cut |-> 0, header |-> [blob |-> b, digest |-> b]]
      /\ b.nbytes = Len(p) /\ b.sha = p /\ b.aligned = TRUE
      /\ Len(p) \in Nat /\ DOMAIN p = 1..Len(p)
  BY FileIs DEF Filed, Text
<1>2. /\ g.magic /\ g.version \in {1, 2} /\ g.header = f.header /\ g.cut = f.cut
      /\ \A i \in DOMAIN f.payload : i \in DOMAIN q /\ q[i] = f.payload[i]
  BY DEF Ct!Spared
<1> HIDE DEF f, b
<1>3. /\ g.header.blob = b /\ g.header.digest = b /\ g.cut = 0
      /\ \A i \in 1..Len(p) : i \in DOMAIN q /\ q[i] = p[i]
  BY <1>1, <1>2
<1>4. q \in Seq(Byte) /\ DOMAIN q = 1..Len(q) /\ Len(q) \in Nat
  OBVIOUS
<1> HIDE DEF q
<1>5. Len(p) <= Len(q)
  <2> SUFFICES ASSUME ~(Len(p) <= Len(q)) PROVE FALSE
    OBVIOUS
  <2>1. Len(p) \in 1..Len(p)
    BY <1>1, <1>4
  <2> QED
    BY <1>1, <1>3, <1>4, <2>1
<1>6. ASSUME NEW o \in Nat, NEW n \in Nat, o + n <= Len(p)
      PROVE  Ct!Bytes(g, o, n) = SubSeq(p, o + 1, o + n)
  <2> DEFINE d == SubSeq(p, o + 1, o + n)
  <2>1. d \in Seq(Byte) /\ Len(d) = n /\ \A k \in 1..n : d[k] = p[o + k]
    <3>1. o + 1 \in 1..Len(p) + 1 /\ o + n \in o..Len(p)
      BY <1>1, <1>6
    <3> HIDE DEF Byte
    <3>2. Len(d) = n
      BY <1>1, <1>6, <3>1
    <3>3. \A k \in 1..n : d[k] = p[o + k]
      BY <1>1, <1>6, <3>1
    <3>4. d \in Seq(Byte)
      BY <1>1, <1>6, <3>1
    <3> QED
      BY <3>2, <3>3, <3>4
  <2> HIDE DEF d
  <2>2. o + Len(d) <= Len(q)
    BY <1>1, <1>4, <1>5, <1>6, <2>1
  <2>3. \A k \in 1..Len(d) : q[o + k] = d[k]
    <3> SUFFICES ASSUME NEW k \in 1..n PROVE q[o + k] = d[k]
      BY <2>1
    <3>1. o + k \in 1..Len(p)
      BY <1>1, <1>6
    <3> QED
      BY <1>3, <2>1, <3>1
  <2>4. SubSeq(q, o + 1, o + Len(d)) = d
    BY <1>4, <2>1, <2>2, <2>3, BytesAre
  <2> QED
    BY <2>1, <2>4 DEF Ct!Bytes, q, d
<1>7. Ct!HeaderOk(g)
  BY <1>1, <1>2, <1>3, <1>4, <1>5 DEF Ct!HeaderOk, Ct!Reads, q
<1>8. Ct!Extracts(g)
  <2>1. SubSeq(p, 0 + 1, 0 + Len(p)) = p
    <3>1. 0 + Len(p) <= Len(p) /\ \A k \in 1..Len(p) : p[0 + k] = p[k]
      BY <1>1
    <3> QED
      BY <3>1, BytesAre
  <2>2. Ct!Bytes(g, 0, Len(p)) = p
    BY <1>1, <1>6, <2>1
  <2>3. b.nbytes <= Len(g.payload) - g.cut
    BY <1>1, <1>3, <1>4, <1>5 DEF q
  <2> QED
    BY <1>1, <1>2, <1>3, <2>2, <2>3 DEF Ct!Extracts, Ct!Reads
<1> QED
  BY <1>3, <1>6, <1>7, <1>8 DEF b, InOrder

(* A file with one thing altered verifies where no digest covers it, and
   nowhere else. *)
LEMMA DamagedIsRefused ==
    ASSUME NEW parts \in Seq(Parted)
    PROVE  Ct!DamageIsSeen(parts)
<1> DEFINE p == Ct!Placed(parts)
           f == Ct!WriteSegments(parts)
           o == Ct!WriteOpaque(f.payload)
<1> SUFFICES ASSUME Ct!WritesSegments(parts)
             PROVE  /\ \A g \in Ct!Altered(f) : Ct!Verify(g) <=> Ct!Spared(f, g)
                    /\ \A g \in Ct!Altered(o) :
                          Ct!VerifyHeader(g) /\ Ct!Extracts(g) <=> Ct!Spared(o, g)
  BY DEF Ct!DamageIsSeen
<1>1. /\ p.payload \in Seq(Byte) /\ Ct!TableOk(p.table, Len(p.payload))
      /\ p.table \in Seq(Segment)
      /\ \A i \in DOMAIN p.table :
            /\ p.table[i].offset \in Nat /\ parts[i].data \in Seq(Byte)
            /\ p.table[i].nbytes = Len(parts[i].data)
            /\ p.table[i].sha = parts[i].data
            /\ SubSeq(p.payload, p.table[i].offset + 1, p.table[i].offset + p.table[i].nbytes)
                  = parts[i].data
  BY WrittenIsLaidOut
<1>2. f = Ct!File(2, "segmented", p.payload, p.table)
  BY DEF Ct!WriteSegments
<1>3. f.payload = p.payload
  BY <1>1, <1>2, FileIs DEF Filed, Text
<1>4. o = Ct!File(1, "opaque", p.payload, <<>>)
  BY <1>3 DEF Ct!WriteOpaque
<1>5. /\ f.header.blob.encoding = "segmented" /\ f.header.blob.nbytes = Len(p.payload)
      /\ f.header.blob.table = p.table
      /\ f.header.blob.representation = Ct!TableDigest(p.table)
      /\ f.header.blob.sha = p.payload
      /\ f.header.blob = Text("segmented", p.payload, p.table)
  <2> DEFINE b == Text("segmented", p.payload, p.table)
  <2>1. f = Filed(2, p.payload, b)
    BY <1>1, <1>2, FileIs
  <2>2. /\ b.encoding = "segmented" /\ b.nbytes = Len(p.payload) /\ b.table = p.table
        /\ b.representation = Ct!TableDigest(p.table) /\ b.sha = p.payload
    BY DEF Text
  <2> HIDE DEF b, f, p
  <2>3. f.header.blob = b
    BY <2>1 DEF Filed
  <2> QED
    BY <2>2, <2>3 DEF b
<1>6. o.header.blob.encoding = "opaque" /\ o.header.blob = Text("opaque", p.payload, <<>>)
  <2> DEFINE b == Text("opaque", p.payload, <<>>)
  <2>1. o = Filed(1, p.payload, b)
    BY <1>1, <1>4, FileIs
  <2>2. b.encoding = "opaque"
    BY DEF Text
  <2> HIDE DEF b, o, p
  <2>3. o.header.blob = b
    BY <2>1 DEF Filed
  <2> QED
    BY <2>2, <2>3 DEF b
<1> HIDE DEF f, o, p
<1>7. ASSUME NEW g \in Ct!Altered(f), Ct!Verify(g)
      PROVE  Ct!Spared(f, g)
  <2>1. Ct!HeaderOk(g) /\ Ct!Bytes(g, 0, g.header.blob.nbytes) = g.header.blob.sha
    BY <1>7 DEF Ct!Verify
  <2> QED
    BY <1>1, <1>2, <1>7, <2>1, AlteredIsSpared
<1>8. ASSUME NEW g \in Ct!Altered(o), Ct!VerifyHeader(g), Ct!Extracts(g)
      PROVE  Ct!Spared(o, g)
  <2>1. Ct!HeaderOk(g) /\ Ct!Bytes(g, 0, g.header.blob.nbytes) = g.header.blob.sha
    BY <1>8 DEF Ct!VerifyHeader, Ct!Extracts
  <2> QED
    BY <1>1, <1>4, <1>8, <2>1, AlteredIsSpared
<1>9. ASSUME NEW g \in Ct!Altered(f), Ct!Spared(f, g)
      PROVE  Ct!Verify(g)
  <2>1. g.payload \in Seq(Byte)
    BY <1>1, <1>2, <1>9, AlteredIsBytes
  <2>2. /\ Ct!HeaderOk(g) /\ Ct!Extracts(g) /\ g.header.blob = f.header.blob
        /\ \A k \in Nat, n \in Nat :
              k + n <= Len(p.payload) => Ct!Bytes(g, k, n) = SubSeq(p.payload, k + 1, k + n)
    <3>1. p.payload \in Seq(Byte) /\ Ct!Spared(Ct!File(2, "segmented", p.payload, p.table), g)
      BY <1>1, <1>2, <1>9
    <3> HIDE DEF Byte
    <3>2. InOrder(g, Text("segmented", p.payload, p.table), p.payload)
      BY <2>1, <3>1, SparedIsInOrder
    <3> QED
      BY <1>5, <3>2 DEF InOrder
  <2>3. Ct!Bytes(g, 0, g.header.blob.nbytes) = g.header.blob.sha
    BY <2>2 DEF Ct!Extracts
  <2>4. ASSUME NEW i \in DOMAIN p.table
        PROVE  Ct!Bytes(g, p.table[i].offset, p.table[i].nbytes) = p.table[i].sha
    <3>1. p.table[i].offset + p.table[i].nbytes <= Len(p.payload)
      BY <1>1, <2>4 DEF Ct!TableOk, Ct!End
    <3>2. p.table[i].offset \in Nat /\ p.table[i].nbytes \in Nat
      <4>1. /\ p.table[i].offset \in Nat /\ parts[i].data \in Seq(Byte)
            /\ p.table[i].nbytes = Len(parts[i].data)
        BY <1>1, <2>4
      <4> HIDE DEF Byte
      <4>2. Len(parts[i].data) \in Nat
        BY <4>1
      <4> QED
        BY <4>1, <4>2
    <3>3. Ct!Bytes(g, p.table[i].offset, p.table[i].nbytes)
            = SubSeq(p.payload, p.table[i].offset + 1, p.table[i].offset + p.table[i].nbytes)
      BY <2>2, <3>1, <3>2
    <3> QED
      BY <1>1, <2>4, <3>3
  <2> QED
    BY <1>1, <1>5, <2>2, <2>3, <2>4 DEF Ct!Verify
<1>10. ASSUME NEW g \in Ct!Altered(o), Ct!Spared(o, g)
       PROVE  Ct!VerifyHeader(g) /\ Ct!Extracts(g)
  <2>1. g.payload \in Seq(Byte)
    BY <1>1, <1>4, <1>10, AlteredIsBytes
  <2>2. Ct!HeaderOk(g) /\ Ct!Extracts(g) /\ g.header.blob = o.header.blob
    <3>1. p.payload \in Seq(Byte) /\ Ct!Spared(Ct!File(1, "opaque", p.payload, <<>>), g)
      BY <1>1, <1>4, <1>10
    <3> HIDE DEF Byte
    <3>2. InOrder(g, Text("opaque", p.payload, <<>>), p.payload)
      BY <2>1, <3>1, SparedIsInOrder
    <3> QED
      BY <1>6, <3>2 DEF InOrder
  <2> QED
    BY <1>6, <2>2 DEF Ct!VerifyHeader
<1> QED
  BY <1>7, <1>8, <1>9, <1>10

\* The powers of ten that fit ten digits, in their order.
Power == [d \in 0..10 |-> 10^d]

(* A larger power of ten has more zeros. *)
LEMMA PowersGrow ==
    /\ \A d \in 0..10 : Power[d] = 10^d /\ Power[d] \in Nat
    /\ \A d, e \in 0..10 : d <= e => Power[d] <= Power[e]
<1>1. \A d \in 0..10 : Power[d] = 10^d
  BY DEF Power
<1>2. 10^0 \in Nat /\ 10^1 \in Nat /\ 10^2 \in Nat /\ 10^3 \in Nat /\ 10^4 \in Nat /\ 10^5 \in Nat
  BY SMT
<1>3. 10^6 \in Nat /\ 10^7 \in Nat /\ 10^8 \in Nat /\ 10^9 \in Nat /\ 10^10 \in Nat
  BY SMT
<1>4. 10^0 <= 10^1 /\ 10^1 <= 10^2 /\ 10^2 <= 10^3 /\ 10^3 <= 10^4 /\ 10^4 <= 10^5
  BY SMT
<1>5. 10^5 <= 10^6 /\ 10^6 <= 10^7 /\ 10^7 <= 10^8 /\ 10^8 <= 10^9 /\ 10^9 <= 10^10
  BY SMT
<1>6. /\ Power[0] = 10^0 /\ Power[1] = 10^1 /\ Power[2] = 10^2 /\ Power[3] = 10^3
      /\ Power[4] = 10^4 /\ Power[5] = 10^5 /\ Power[6] = 10^6 /\ Power[7] = 10^7
      /\ Power[8] = 10^8 /\ Power[9] = 10^9 /\ Power[10] = 10^10
  BY <1>1
<1> DEFINE p == Power
<1>7. /\ p[0] \in Nat /\ p[1] \in Nat /\ p[2] \in Nat /\ p[3] \in Nat /\ p[4] \in Nat
      /\ p[5] \in Nat /\ p[6] \in Nat /\ p[7] \in Nat /\ p[8] \in Nat /\ p[9] \in Nat
      /\ p[10] \in Nat
  BY <1>2, <1>3, <1>6, SMT
<1>8. /\ p[0] <= p[1] /\ p[1] <= p[2] /\ p[2] <= p[3] /\ p[3] <= p[4] /\ p[4] <= p[5]
      /\ p[5] <= p[6] /\ p[6] <= p[7] /\ p[7] <= p[8] /\ p[8] <= p[9] /\ p[9] <= p[10]
  BY <1>4, <1>5, <1>6, SMT
<1> HIDE DEF p
<1>9. \A d \in 0..10 : d \in {0, 1, 2, 3, 4, 5, 6, 7, 8, 9, 10}
  OBVIOUS
<1>10. \A d \in 0..10 : p[d] \in Nat
  BY <1>7, <1>9
<1>11. \A d, e \in 0..10 : d <= e => p[d] <= p[e]
  BY <1>7, <1>8, <1>9, SMT
<1> QED
  BY <1>1, <1>10, <1>11 DEF p

\* Numbers of up to ten digits have as many as Digits tells, and a larger one no fewer.
LEMMA DigitsAre ==
    ASSUME NEW n \in Nat, n < 10^10
    PROVE  /\ Ct!Digits(n) \in 1..10
           /\ n < Power[Ct!Digits(n)]
           /\ Ct!Digits(n) = 1 \/ n >= Power[Ct!Digits(n) - 1]
<1> DEFINE d == Ct!Digits(n)
           Fits(e) == n < Power[e] /\ (e = 1 \/ n >= Power[e - 1])
<1>1. \A e \in 1..10 : Power[e] = 10^e /\ Power[e - 1] = 10^(e - 1)
  <2>1. \A e \in 1..10 : e \in 0..10 /\ e - 1 \in 0..10
    OBVIOUS
  <2>2. \A k \in 0..10 : Power[k] = 10^k
    BY PowersGrow
  <2> QED
    BY <2>1, <2>2, Zenon
<1>2. \E e \in 1..10 : Fits(e)
  <2> DEFINE G == {k \in 0..9 : n >= Power[k]}
  <2>1. SUFFICES ASSUME ~\E e \in 1..10 : Fits(e) PROVE FALSE
    OBVIOUS
  <2>2. \A k \in 0..10 : Power[k] \in Nat
    BY PowersGrow
  <2>3. n >= Power[1]
    <3>1. 1 \in 1..10
      OBVIOUS
    <3>2. ~(n < Power[1])
      BY <2>1, <3>1
    <3> HIDE DEF Fits
    <3> QED
      BY <2>2, <3>2
  <2>4. ASSUME NEW k \in 1..9, n >= Power[k]
        PROVE  n >= Power[k + 1]
    <3>1. k + 1 \in 1..10 /\ k + 1 - 1 = k
      OBVIOUS
    <3>2. ~(n < Power[k + 1])
      BY <2>1, <2>4, <3>1
    <3> HIDE DEF Fits
    <3>3. Power[k + 1] \in Nat
      BY <2>2, <3>1
    <3> QED
      BY <3>2, <3>3
  <2>5. n >= Power[10]
    <3> DEFINE p == Power
    <3> HIDE DEF p, Fits
    <3>1. n >= p[1]
      BY <2>3 DEF p
    <3>2. \A k \in 1..9 : n >= p[k] => n >= p[k + 1]
      BY <2>4 DEF p
    <3>3. n >= p[5]
      BY <3>1, <3>2
    <3>4. n >= p[10]
      BY <3>2, <3>3
    <3> QED
      BY <3>4 DEF p
  <2>6. 10 \in 0..10
    OBVIOUS
  <2>7. Power[10] = 10^10 /\ Power[10] \in Nat
    BY <2>6, PowersGrow, SMT
  <2> HIDE DEF Fits
  <2> QED
    BY <2>5, <2>7, SMT
<1>3. \E e \in 1..10 : n < 10^e /\ (e = 1 \/ n >= 10^(e - 1))
  BY <1>1, <1>2
<1>4. d \in 1..10 /\ n < 10^d /\ (d = 1 \/ n >= 10^(d - 1))
  <2> HIDE DEF Fits
  <2> QED
    BY <1>3 DEF Ct!Digits
<1> HIDE DEF d, Fits
<1> QED
  BY <1>1, <1>4 DEF d

(* A number that is not smaller has no fewer digits. *)
LEMMA DigitsGrow ==
    ASSUME NEW m \in Nat, NEW n \in Nat, m <= n, n < 10^10
    PROVE  Ct!Digits(m) <= Ct!Digits(n)
<1> DEFINE d == Ct!Digits(m)
           e == Ct!Digits(n)
<1>0. m < 10^10
  BY SMT
<1>1. /\ d \in 1..10 /\ (d = 1 \/ m >= Power[d - 1])
      /\ e \in 1..10 /\ n < Power[e]
  BY <1>0, DigitsAre
<1> HIDE DEF d, e
<1>2. SUFFICES ASSUME d > e PROVE FALSE
  BY <1>1 DEF d, e
<1>3. d - 1 \in 0..10 /\ e \in 0..10 /\ e <= d - 1
  BY <1>1, <1>2
<1>4. Power[e] \in Nat /\ Power[d - 1] \in Nat /\ Power[e] <= Power[d - 1]
  BY <1>3, PowersGrow
<1> DEFINE p == Power[e]
           q == Power[d - 1]
<1> HIDE DEF p, q
<1>5. p \in Nat /\ q \in Nat /\ p <= q /\ n < p /\ m >= q
  BY <1>1, <1>2, <1>4 DEF p, q
<1> QED
  BY <1>5, SMT

\* One pass of _resolve_offset.
Settled(length, o) == Ct!Align(12 + length + Ct!Digits(o))

\* Between two places that are aligned there is at most one step.
LEMMA SettledSteps ==
    ASSUME NEW length \in Nat, length < 2^32, NEW o \in Nat, o < 10^10
    PROVE  /\ Settled(length, o) \in Nat /\ Settled(length, o) < 10^10
           /\ Settled(length, o) % 64 = 0
           /\ Settled(length, o) >= 12 + length + Ct!Digits(o)
           /\ Settled(length, o) < 12 + length + Ct!Digits(o) + 64
<1> DEFINE d == Ct!Digits(o)
<1>1. d \in 1..10
  BY DigitsAre
<1> HIDE DEF d
<1> DEFINE at == 12 + length + d
<1>2. at \in Nat /\ at < 2^32 + 22
  BY <1>1, SMT
<1>3. Ct!Align(at) \in Nat /\ Ct!Align(at) % 64 = 0 /\ Ct!Align(at) >= at /\ Ct!Align(at) < at + 64
  <2> HIDE DEF at
  <2> QED
    BY <1>2, AlignIsNext
<1>4. Ct!Align(at) < 10^10
  <2> DEFINE a == Ct!Align(at)
  <2> HIDE DEF a
  <2>1. a \in Nat /\ a < at + 64
    BY <1>3 DEF a
  <2>2. a < 10^10
    BY <1>2, <2>1, SMT
  <2> QED
    BY <2>2 DEF a
<1> QED
  BY <1>3, <1>4 DEF Settled, d

(* Alignment keeps the order of two places. *)
LEMMA AlignGrows ==
    ASSUME NEW m \in Nat, NEW n \in Nat, m <= n, n <= m + 9
    PROVE  /\ Ct!Align(m) <= Ct!Align(n)
           /\ Ct!Align(n) \in {Ct!Align(m), Ct!Align(m) + 64}
<1> DEFINE a == Ct!Align(m)
           b == Ct!Align(n)
<1>1. a \in Nat /\ a % 64 = 0 /\ a >= m /\ a < m + 64
  BY AlignIsNext
<1>2. b \in Nat /\ b % 64 = 0 /\ b >= n /\ b < n + 64
  BY AlignIsNext
<1> HIDE DEF a, b
<1>3. b - a < 73 + 64 /\ b - a > -64 /\ (b - a) % 64 = 0
  BY <1>1, <1>2
<1>4. b - a < 73
  BY <1>1, <1>2
<1>5. b - a \in {0, 64}
  BY <1>1, <1>2, <1>3, <1>4
<1> QED
  BY <1>1, <1>2, <1>5 DEF a, b

\* The offset the passes come to is one that they leave, for every header whose
\* length a file can state.
LEMMA OffsetsSettle ==
    ASSUME NEW length \in Nat, length < 2^32
    PROVE  Ct!OffsetSettles(length)
<1> DEFINE S(o) == Settled(length, o)
           Is(f) == f = [n \in 0..5 - 1 |-> IF n = 0 THEN 0 ELSE S(f[n - 1])]
           offset == CHOOSE f : Is(f)
           o1 == S(0)
           o2 == S(o1)
           o3 == S(o2)
           o4 == S(o3)
<1>1. Ct!ResolveOffset(length) = IF S(offset[5 - 1]) = offset[5 - 1] THEN offset[5 - 1] ELSE -1
  BY DEF Ct!ResolveOffset, Settled
<1>2. offset[4] = o4
  <2> HIDE DEF S
  <2> DEFINE f == [n \in 0..4 |-> IF n = 0 THEN 0 ELSE IF n = 1 THEN o1 ELSE IF n = 2 THEN o2
                                  ELSE IF n = 3 THEN o3 ELSE o4]
  <2>1. f[0] = 0 /\ f[1] = o1 /\ f[2] = o2 /\ f[3] = o3 /\ f[4] = o4
    OBVIOUS
  <2>2. \A n \in 0..4 : n \in {0, 1, 2, 3, 4}
    OBVIOUS
  <2>3. \A n \in 0..4 : f[n] = IF n = 0 THEN 0 ELSE S(f[n - 1])
    <3> HIDE DEF f
    <3>1. 1 - 1 = 0 /\ 2 - 1 = 1 /\ 3 - 1 = 2 /\ 4 - 1 = 3
      OBVIOUS
    <3> QED
      BY <2>1, <2>2, <3>1
  <2>4. f = [n \in 0..4 |-> f[n]]
    OBVIOUS
  <2> HIDE DEF f
  <2>5. Is(f)
    BY <2>3, <2>4
  <2>6. Is(offset)
    <3> HIDE DEF Is
    <3> QED
      BY <2>5
  <2> HIDE DEF offset
  <2>7. \A n \in 0..4 : offset[n] = IF n = 0 THEN 0 ELSE S(offset[n - 1])
    BY <2>6
  <2> HIDE DEF Is
  <2>8. offset[0] = 0 /\ offset[1] = S(offset[0]) /\ offset[2] = S(offset[1])
        /\ offset[3] = S(offset[2]) /\ offset[4] = S(offset[3])
    BY <2>7
  <2> QED
    BY <2>8
<1> HIDE DEF offset, Is
<1> DEFINE d0 == Ct!Digits(0)
           d1 == Ct!Digits(o1)
           d2 == Ct!Digits(o2)
<1>3. /\ o1 \in Nat /\ o1 < 10^10 /\ o1 = S(0)
      /\ o2 \in Nat /\ o2 < 10^10 /\ o2 = S(o1)
      /\ o3 \in Nat /\ o3 < 10^10 /\ o3 = S(o2)
  <2> HIDE DEF S
  <2>1. \A o \in Nat : o < 10^10 => S(o) \in Nat /\ S(o) < 10^10
    BY SettledSteps DEF S
  <2>2. 0 \in Nat /\ 0 < 10^10
    OBVIOUS
  <2> QED
    BY <2>1, <2>2
<1>4. \A m, n \in Nat : m < 10^10 /\ n < 10^10 /\ Ct!Digits(m) <= Ct!Digits(n)
                           => S(m) <= S(n) /\ S(n) \in {S(m), S(m) + 64}
  <2> TAKE m \in Nat, n \in Nat
  <2> HAVE m < 10^10 /\ n < 10^10 /\ Ct!Digits(m) <= Ct!Digits(n)
  <2>1. Ct!Digits(m) \in 1..10 /\ Ct!Digits(n) \in 1..10
    BY DigitsAre
  <2> DEFINE a == 12 + length + Ct!Digits(m)
             b == 12 + length + Ct!Digits(n)
  <2>2. a \in Nat /\ b \in Nat /\ a <= b /\ b <= a + 9
    BY <2>1
  <2> HIDE DEF a, b
  <2>3. Ct!Align(a) <= Ct!Align(b) /\ Ct!Align(b) \in {Ct!Align(a), Ct!Align(a) + 64}
    BY <2>2, AlignGrows
  <2> QED
    BY <2>3 DEF a, b, Settled
<1>5. o1 <= o2 /\ o2 \in {o1, o1 + 64}
  <2>1. Ct!Digits(0) <= Ct!Digits(o1)
    BY <1>3, DigitsGrow
  <2> HIDE DEF S, o1
  <2>2. 0 \in Nat /\ 0 < 10^10
    OBVIOUS
  <2>3. S(0) <= S(o1) /\ S(o1) \in {S(0), S(0) + 64}
    BY <1>3, <1>4, <2>1, <2>2
  <2> QED
    BY <1>3, <2>3
<1>6. o2 <= o3 /\ o3 \in {o1, o1 + 64}
  <2>1. Ct!Digits(o1) <= Ct!Digits(o2)
    BY <1>3, <1>5, DigitsGrow
  <2>2. Ct!Digits(0) <= Ct!Digits(o2)
    BY <1>3, DigitsGrow
  <2> HIDE DEF S, o1, o2, o3
  <2>3. 0 \in Nat /\ 0 < 10^10
    OBVIOUS
  <2>4. S(o1) <= S(o2)
    BY <1>3, <1>4, <2>1
  <2>5. S(o2) \in {S(0), S(0) + 64}
    BY <1>3, <1>4, <2>2, <2>3
  <2> QED
    BY <1>3, <2>4, <2>5
<1>7. o3 = o2 \/ o2 = o1
  <2> HIDE DEF o1, o2, o3
  <2> QED
    BY <1>3, <1>5, <1>6
<1>8. o4 = o3 /\ S(o4) = o4
  <2> HIDE DEF S
  <2> QED
    BY <1>7
<1>9. o4 \in Nat /\ o4 < 10^10
  <2> HIDE DEF o3, o4
  <2> QED
    BY <1>3, <1>8
<1>10. Ct!ResolveOffset(length) = o4
  <2> HIDE DEF o4, S
  <2> QED
    BY <1>1, <1>2, <1>8
<1>11. /\ S(o4) % 64 = 0
       /\ S(o4) >= 12 + length + Ct!Digits(o4)
       /\ S(o4) < 12 + length + Ct!Digits(o4) + 64
  <2> HIDE DEF o4
  <2> QED
    BY <1>9, SettledSteps
<1> QED
  <2> HIDE DEF S, o4
  <2> QED
    BY <1>8, <1>10, <1>11 DEF Ct!OffsetSettles

(* Over every sequence of parts and every length of a header: what
   write_segments accepts reads back, sound parts are accepted, and the offset
   of the payload settles; and a file with one thing altered verifies exactly
   where that is one supported version for the other, the padding, or what
   follows the payload (container.py, segments.py). *)
THEOREM ContainersReadBack == Spec => []ContainerReadsBack
<1>1. CallInv => ContainerReadsBack
  <2> SUFFICES ASSUME CallInv
               PROVE  ContainerReadsBack
    OBVIOUS
  <2>1. ASSUME call.rule = "container"
        PROVE  Ct!ReadsBack(call.of) /\ Ct!AlwaysPlaces(call.of) /\ Ct!DamageIsSeen(call.of)
    <3>1. call.of \in Segmentations
      BY <2>1 DEF CallInv
    <3>2. call.of \in Seq(Parted)
      BY <3>1, SegmentationAssumption DEF Parted, Segment, Byte
    <3> QED
      BY <3>2, WrittenReadsBack, SoundIsPlaced, DamagedIsRefused
  <2>2. ASSUME call.rule = "headerLength"
        PROVE  Ct!OffsetSettles(call.of)
    <3>1. call.of \in Lengths
      BY <2>2 DEF CallInv
    <3>2. call.of \in Nat /\ call.of \div 2^16 < 2^16
      BY <3>1, LengthAssumption
    <3>3. call.of < 2^32
      BY <3>2, SMT
    <3> QED
      BY <3>2, <3>3, OffsetsSettle
  <2> QED
    BY <2>1, <2>2 DEF ContainerReadsBack, Of
<1> QED
  BY <1>1, CallsAreOfTheirFamily, PTL

-----------------------------------------------------------------------------
(* Rounding. *)
Away(b, u) == IF b * 8 > u THEN b * 8 - u ELSE u - b * 8

RoundedWell(u) ==
    LET kept == Ma!ConvertBf16(u)
    IN  IF Ma!NotANumber(u) THEN Ma!NotANumber(kept * 8)
        ELSE /\ kept = Ma!QuantiseBf16(u)
             /\ Away(kept, u) <= 4
             /\ Away(kept, u) = 4 => kept % 2 = 0

(* The constants of a bf16 of 5 bits out of 8. *)
LEMMA NarrowPowers ==
    /\ Ma!Width = 256 /\ Ma!Exponents = 96 /\ Ma!QuietNaN = 14
    /\ \A u \in Nat : /\ Ma!NotANumber(u) <=> u % 128 > 96
                      /\ Ma!Rounding(u) = u + 3 + ((u \div 8) % 2)
<1>1. 2^(5 + 3) = 256 /\ 2^2 = 4 /\ 2^(5 + 3 - 1 - 2) = 32 /\ 2^3 = 8 /\ 2^(5 - 2 - 2) = 2 /\ 2^(3 - 1) = 4
  OBVIOUS
<1>2. Ma!Width = 256 /\ Ma!Exponents = 96
  BY <1>1 DEF Ma!Width, Ma!Exponents
<1>3. Ma!QuietNaN = 14
  BY <1>1, <1>2 DEF Ma!QuietNaN
<1>4. \A u \in Nat : Ma!NotANumber(u) <=> u % 128 > 96
  BY <1>2 DEF Ma!NotANumber
<1>5. \A u \in Nat : Ma!Rounding(u) = u + 3 + ((u \div 8) % 2)
  BY <1>1 DEF Ma!Rounding
<1> QED
  BY <1>2, <1>3, <1>4, <1>5

(* Every number of 8 bits is rounded to a nearest one of 5. *)
LEMMA RoundsWell == \A u \in 0..255 : RoundedWell(u)
<1> SUFFICES ASSUME NEW u \in 0..255 PROVE RoundedWell(u)
  OBVIOUS
<1> DEFINE q == u \div 8
           r == u % 8
<1>1. q \in 0..31 /\ r \in 0..7 /\ u = 8 * q + r
  OBVIOUS
<1>2. 2^3 = 8 /\ 2^5 = 32
  OBVIOUS
<1> HIDE DEF q, r
<1> DEFINE up == IF r > 4 \/ (r = 4 /\ q % 2 = 1) THEN q + 1 ELSE q
<1>3. (u + 3 + (q % 2)) \div 8 = up
  BY <1>1
<1>4. Ma!Rounding(u) = u + 3 + (q % 2)
  BY NarrowPowers DEF q
<1>5. CASE Ma!NotANumber(u)
  <2>1. Ma!ConvertBf16(u) = 14
    BY <1>5, NarrowPowers DEF Ma!ConvertBf16
  <2>2. Ma!NotANumber(14 * 8)
    BY NarrowPowers
  <2> QED
    BY <1>5, <2>1, <2>2 DEF RoundedWell
<1>6. CASE ~Ma!NotANumber(u)
  <2>1. u % 128 <= 96
    BY <1>6, NarrowPowers
  <2>2. up \in 0..31
    <3>1. q # 31
      BY <1>1, <2>1
    <3> QED
      BY <1>1, <3>1
  <2>3. Ma!ConvertBf16(u) = up
    <3>1. Ma!ConvertBf16(u) = ((u + 3 + (q % 2)) \div 8) % 32
      BY <1>2, <1>4, <1>6 DEF Ma!ConvertBf16
    <3> HIDE DEF up
    <3> QED
      BY <1>3, <2>2, <3>1
  <2>4. Ma!QuantiseBf16(u) = up
    <3>1. Ma!QuantiseBf16(u) = ((u + 3 + (q % 2)) % 256) \div 8
      BY <1>2, <1>4, NarrowPowers DEF Ma!QuantiseBf16
    <3> DEFINE x == u + 3 + (q % 2)
    <3> HIDE DEF up, x
    <3>2. x \in Nat /\ x \div 8 = up
      BY <1>1, <1>3 DEF x
    <3>3. x < 256
      BY <2>2, <3>2
    <3>4. x % 256 = x
      BY <3>2, <3>3
    <3> QED
      BY <3>1, <3>2, <3>4 DEF x
  <2>5. Away(up, u) <= 4 /\ (Away(up, u) = 4 => up % 2 = 0)
    BY <1>1 DEF Away
  <2> HIDE DEF up
  <2> QED
    BY <1>6, <2>3, <2>4, <2>5 DEF RoundedWell
<1> QED
  BY <1>5, <1>6

(* bf16 of a number is a nearest one, the even one of two, whichever conversion
   is asked, and of a NaN a NaN (dtypes.convert, llamacpp_ggsq.quantise). *)
THEOREM RoundedIsNearest == Spec => []RoundsToNearest
<1>1. CallInv => RoundsToNearest
  <2> SUFFICES ASSUME CallInv, call.rule = "round"
               PROVE  RoundedWell(call.of)
    BY DEF RoundsToNearest, Of, RoundedWell, Away
  <2> QED
    BY RoundsWell DEF CallInv
<1> QED
  BY <1>1, CallsAreOfTheirFamily, PTL

WideAway(b, u) == IF b * 2^16 > u THEN b * 2^16 - u ELSE u - b * 2^16

WideRoundedWell(u) ==
    LET kept == Bf!ConvertBf16(u)
    IN  IF Bf!NotANumber(u) THEN Bf!NotANumber(kept * 2^16)
        ELSE /\ kept = Bf!QuantiseBf16(u)
             /\ WideAway(kept, u) <= 2^15
             /\ WideAway(kept, u) = 2^15 => kept % 2 = 0

(* The constants of bf16 itself: 16 bits out of 32, 8 of them the exponent. *)
LEMMA WidePowers ==
    /\ Bf!Width = 2^32 /\ Bf!Exponents = 255 * 2^23 /\ Bf!QuietNaN = 255 * 2^7 + 2^6
    /\ \A u \in Nat : /\ Bf!NotANumber(u) <=> u % 2^31 > 255 * 2^23
                      /\ Bf!Rounding(u) = u + 2^15 - 1 + ((u \div 2^16) % 2)
<1>1. 16 + 16 = 32 /\ 2^8 - 1 = 255 /\ 16 + 16 - 1 - 8 = 23 /\ 16 - 2 - 8 = 6 /\ 16 - 1 = 15
  BY SMT
<1>2. Bf!Width = 2^32 /\ Bf!Exponents = 255 * 2^23
  BY <1>1, SMT DEF Bf!Width, Bf!Exponents
<1>3. (255 * 2^23) \div 2^16 = 255 * 2^7 /\ 2^32 \div 2 = 2^31
  BY SMT
<1>4. Bf!QuietNaN = 255 * 2^7 + 2^6
  BY <1>1, <1>2, <1>3, SMT DEF Bf!QuietNaN
<1>5. ASSUME NEW u \in Nat
      PROVE  Bf!NotANumber(u) <=> u % 2^31 > 255 * 2^23
  BY <1>2, <1>3, SMT DEF Bf!NotANumber
<1>6. ASSUME NEW u \in Nat
      PROVE  Bf!Rounding(u) = u + 2^15 - 1 + ((u \div 2^16) % 2)
  BY <1>1, SMT DEF Bf!Rounding
<1> QED
  BY <1>2, <1>4, <1>5, <1>6, Zenon

(* bf16 of every float32 is a nearest one, the even one of two, whichever of the
   two conversions is asked, and of a NaN a NaN: RoundsToNearest at the widths
   dtypes.py has (dtypes.convert, llamacpp_ggsq.quantise). *)
THEOREM WideRoundsWell == ASSUME NEW u \in Nat, u < 2^32 PROVE WideRoundedWell(u)
<1> DEFINE q == u \div 2^16
           r == u % 2^16
<1>1. q \in Nat /\ r \in Nat /\ r < 2^16 /\ q < 2^16 /\ u = 2^16 * q + r
  BY SMT
<1> HIDE DEF q, r
<1> DEFINE up == IF r > 2^15 \/ (r = 2^15 /\ q % 2 = 1) THEN q + 1 ELSE q
           x  == u + 2^15 - 1 + (q % 2)
<1>3. x \in Nat /\ x \div 2^16 = up
  BY <1>1, SMT
<1>4. Bf!Rounding(u) = x
  BY WidePowers, Zenon DEF q
<1>5. CASE Bf!NotANumber(u)
  <2>1. Bf!ConvertBf16(u) = 255 * 2^7 + 2^6
    BY <1>5, WidePowers, Zenon DEF Bf!ConvertBf16
  <2> DEFINE w == (255 * 2^7 + 2^6) * 2^16
  <2>2. w \in Nat /\ w % 2^31 > 255 * 2^23
    BY SMT
  <2> HIDE DEF w
  <2>3. Bf!NotANumber(w)
    BY <2>2, WidePowers, Zenon
  <2> QED
    BY <1>5, <2>1, <2>3, Zenon DEF WideRoundedWell, w
<1>6. CASE ~Bf!NotANumber(u)
  <2>1. ~(u % 2^31 > 255 * 2^23)
    BY <1>6, WidePowers, Zenon
  <2>2. up \in Nat /\ up < 2^16
    <3>1. q # 2^16 - 1
      <4> SUFFICES ASSUME q = 2^16 - 1 PROVE FALSE
        OBVIOUS
      <4>1. u >= 2^31 /\ u - 2^31 >= 2^31 - 2^16 /\ u - 2^31 < 2^31
        BY <1>1, SMT
      <4>2. u % 2^31 = u - 2^31
        BY <4>1, SMT
      <4> QED
        BY <2>1, <4>1, <4>2, SMT
    <3> QED
      BY <1>1, <3>1, SMT
  <2>3. Bf!ConvertBf16(u) = up
    <3>1. Bf!ConvertBf16(u) = (x \div 2^16) % 2^16
      BY <1>4, <1>6, Zenon DEF Bf!ConvertBf16
    <3> HIDE DEF up, x
    <3>2. up % 2^16 = up
      BY <2>2, SMT
    <3> QED
      BY <1>3, <3>1, <3>2, Zenon
  <2>4. Bf!QuantiseBf16(u) = up
    <3>1. Bf!QuantiseBf16(u) = (x % 2^32) \div 2^16
      BY <1>4, WidePowers, Zenon DEF Bf!QuantiseBf16
    <3> HIDE DEF up, x
    <3>2. x < 2^32
      BY <1>3, <2>2, SMT
    <3>3. x % 2^32 = x
      BY <1>3, <3>2, SMT
    <3> QED
      BY <1>3, <3>1, <3>3, Zenon
  <2>5. WideAway(up, u) <= 2^15 /\ (WideAway(up, u) = 2^15 => up % 2 = 0)
    BY <1>1, SMT DEF WideAway
  <2> HIDE DEF up
  <2> QED
    BY <1>6, <2>3, <2>4, <2>5, Zenon DEF WideRoundedWell
<1> QED
  BY <1>5, <1>6, Zenon

=============================================================================
