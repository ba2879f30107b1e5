---------------------------- MODULE Requirements -----------------------------
(****************************************************************************)
(* What must hold before an artifact is restored: requirements.py, and the  *)
(* schema of a hybrid model's state with the evidence its unproven classes  *)
(* need: hybrid_schema.py.  Pure functions.                                 *)
(*                                                                          *)
(* 0 stands for a name, digest or number that is absent.  A list of         *)
(* problems is the set of what is wrong, and empty admits.                  *)
(*                                                                          *)
(* A proof is [class, outcome, build, binary, model, proven, expires,       *)
(* record, sha, wellFormed]; `wellFormed` stands for the checks of its      *)
(* trials, method and digests.  Evidence is [build, binary, model, proofs,  *)
(* records, asOf]: what it was checked against, the set of its proofs, what *)
(* the cited records hash to now (0 when they were not produced), and the   *)
(* instant of the check.                                                    *)
(****************************************************************************)
EXTENDS Integers, FiniteSets, Sequences

CONSTANTS NoEvidence, NoGeometry, MaxValidity

StateClasses == {"draft", "speculative"}
Outcomes == {"restored_and_matched", "diverged"}

(* RestorationProof.validate *)
ProofValid(p) ==
    /\ p.wellFormed
    /\ p.class \in StateClasses
    /\ p.outcome \in Outcomes
    /\ 0 \notin {p.build, p.binary, p.model, p.sha, p.record}
    /\ p.proven < p.expires /\ p.expires - p.proven <= MaxValidity

(* RestorationEvidence._out_of_scope, negated *)
InScope(e, p, class) ==
    /\ p.class = class
    /\ ProofValid(p)
    /\ p.build = e.build /\ p.binary = e.binary /\ p.model = e.model
    /\ p.proven <= e.asOf /\ e.asOf < p.expires
    /\ e.records[p.record] = p.sha

\* Mutant of Verdict: the first demonstration settles it.
VerdictOfAny(e, class) ==
    LET outcomes == {p.outcome : p \in {q \in e.proofs : InScope(e, q, class)}}
    IN  IF 0 \in {e.build, e.binary, e.model}        THEN "unproven"
        ELSE IF "restored_and_matched" \in outcomes  THEN "restored"
        ELSE IF "diverged" \in outcomes              THEN "diverged"
        ELSE "unproven"

(* RestorationEvidence.verdict: one record of a divergence outweighs any
   number of demonstrations. *)
Verdict(e, class) ==
    LET outcomes == {p.outcome : p \in {q \in e.proofs : InScope(e, q, class)}}
    IN  IF 0 \in {e.build, e.binary, e.model}        THEN "unproven"
        ELSE IF "diverged" \in outcomes              THEN "diverged"
        ELSE IF outcomes = {"restored_and_matched"}  THEN "restored"
        ELSE "unproven"

-----------------------------------------------------------------------------
(* requirements.for_artifact: an artifact is [hybrid, checkpoints, version,
   kv, model, format, carries]. *)
ForArtifact(a) ==
    [version |-> a.version, persistence |-> a.checkpoints > 0,
     format |-> IF a.checkpoints > 0 THEN a.format ELSE 0,
     kv |-> a.kv, model |-> a.model, gated |-> a.carries]

(* _gated_state_problems; `who` is what the caller says of the runtime,
   [identity, build, binary, model]. *)
GatedProblems(class, props, who, wanted, e) ==
    LET build == IF who.build # 0 THEN who.build ELSE props.build
        tests == IF e = NoEvidence THEN {<<"unproven", TRUE>>}
                 ELSE {<<"build", build # 0 /\ e.build # build>>,
                       <<"binary", who.binary = 0 \/ e.binary # who.binary>>,
                       <<"model", wanted = 0 \/ e.model # wanted>>,
                       <<"verdict", Verdict(e, class) # "restored">>}
    IN  IF class \notin StateClasses THEN {"class"}
        ELSE {t[1] : t \in {u \in tests \union
                                {<<"support", class \notin props.supports>>,
                                 <<"unknownBuild", build = 0>>} : u[2]}}

(* check(): requirements against the /props of the runtime *)
Check(req, props, who, e) ==
    LET wanted == IF who.model # 0 THEN who.model ELSE req.model
        found  == IF who.identity # 0 THEN who.identity ELSE props.model
        tests  == {<<"version", req.version # 0 /\ props.version # req.version>>,
                   <<"persistence", req.persistence /\ ~props.persistence>>,
                   <<"format", /\ req.persistence /\ props.persistence
                               /\ req.format # 0 /\ props.format # req.format>>,
                   <<"identity", wanted # 0 /\ found # wanted>>,
                   <<"kv", req.kv # 0 /\ props.kv \notin {0, req.kv}>>}
    IN  {t[1] : t \in {u \in tests : u[2]}}
        \union UNION {GatedProblems(c, props, who, wanted, e) : c \in req.gated}

-----------------------------------------------------------------------------
(* hybrid_schema: the state is [formOk, geometry, layers, checkpoints,
   attention, recurrent], the geometry [ok, nLayer, heads, recurrentWidth,
   weights]; formOk and ok stand for the checks of single fields. *)
GeometryProblems(g) ==
    {t[1] : t \in {u \in {<<"fields", ~g.ok>>,
                          <<"layers", g.nLayer <= 0>>,
                          <<"heads", Len(g.heads) # g.nLayer>>,
                          <<"noHeads", \E i \in DOMAIN g.heads : g.heads[i] <= 0>>} : u[2]}}

(* RecurrentLayerMap.validate *)
LayerMapOk(layers, nLayer) ==
    /\ \A i \in DOMAIN layers : layers[i] \in 0..nLayer - 1
    /\ \A i, j \in DOMAIN layers : i < j => layers[i] < layers[j]

(* CheckpointRecord.validate *)
CheckpointProblems(c, e) ==
    {t[1] : t \in {u \in {<<"tokens", c.tokens <= 0>>,
                          <<"positions", c.posMin < 0 \/ c.posMax < c.posMin>>,
                          <<"segments", c.segments = {}>>} : u[2]}}
    \union {k \in c.carries : IF e = NoEvidence THEN TRUE ELSE Verdict(e, k) # "restored"}

(* HybridState.validate: evidence for other weights is dropped, and is a
   problem of its own. *)
HybridProblems(s, e) ==
    LET g     == s.geometry
        tied  == IF e = NoEvidence \/ g = NoGeometry THEN FALSE ELSE e.model = g.weights
        bound == IF tied THEN e ELSE NoEvidence
    IN  {t[1] : t \in {u \in {<<"form", ~s.formOk>>,
                              <<"noGeometry", g = NoGeometry>>,
                              <<"attention", s.attention = {}>>,
                              <<"noCheckpoint", s.checkpoints = {}>>,
                              <<"evidence", e # NoEvidence /\ ~tied>>} : u[2]}}
        \union (IF g = NoGeometry THEN {}
                ELSE GeometryProblems(g)
                     \union (IF /\ g.recurrentWidth > 0
                                /\ \/ ~LayerMapOk(s.layers, g.nLayer)
                                   \/ s.recurrent = {}
                             THEN {"recurrent"} ELSE {}))
        \union UNION {CheckpointProblems(c, bound) : c \in s.checkpoints}

(* from_dict: a stored state that brings its own evidence, at its top or in
   a checkpoint, is refused; so is one whose fields cannot be read. *)
EvidenceKeys == {"evidence", "proof", "proofs", "restoration_proof",
                 "restoration_proofs", "admission", "admitted_state_classes"}

FromDict(keys, checkpointKeys, readable) ==
    IF \/ keys \intersect EvidenceKeys # {}
       \/ \E k \in checkpointKeys : k \intersect EvidenceKeys # {}
       \/ ~readable
    THEN "refused" ELSE "state"

-----------------------------------------------------------------------------
(* A demonstration that state of this class is restored by that build and
   binary with that model: recorded, unchanged and unexpired at that instant,
   and not contradicted by another one. *)
Demonstrated(class, build, binary, model, e) ==
    LET about == {p \in e.proofs : /\ <<p.class, p.build, p.binary, p.model>>
                                        = <<class, build, binary, model>>
                                   /\ e.asOf \in p.proven .. p.expires - 1
                                   /\ p.expires - p.proven <= MaxValidity
                                   /\ p.wellFormed
                                   /\ 0 \notin {p.sha, p.record}
                                   /\ e.records[p.record] = p.sha}
    IN  /\ \E p \in about : p.outcome = "restored_and_matched"
        /\ \A p \in about : p.outcome # "diverged"
=============================================================================
