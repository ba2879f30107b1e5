--------------------------------- MODULE Rules ---------------------------------
(****************************************************************************)
(* The decisions of kv_rosetta that keep no state of their own, called with *)
(* what their callers may hand them.  Each module of pure functions is one  *)
(* family of calls; a step makes one call and a second one returns, so that *)
(* every invariant ranges over all inputs of its family.                    *)
(****************************************************************************)
EXTENDS Integers, Sequences, FiniteSets, Folding, TLC

CONSTANTS
    None,            \* what is absent, refused or cut off
    Retentions,      \* [entries, candidate, budget]
    Selections,      \* [prefixes, provider, tokens, warm, entries, age]
    Compositions,    \* sequences of regions
    Transfers,       \* [source, target, policy, logits]
    Restores,        \* [artifact, props, who, evidence]
    Hybrids,         \* [state, evidence, keys, checkpointKeys]
    Segmentations,   \* sequences of parts
    Lengths,         \* of the rest of a header
    PlainStates, HybridStates, LayeredStates,
    Tokenizations,   \* [source, target]
    Geometries,      \* [source, target]: layers or heads
    Translations,    \* [cache, pairs, weights, positions, from, to, applied]
    LayerScores,     \* [layers, k, scores, infinite]: a score for each set of
                     \* layers, and the one of no layer
    Headers, Tables, Texts,
    Appendices,      \* [noise, a, start, size]
    Prompts,         \* [ids, media, cut]
    Requests,        \* [objects, shard, live, request, computed]
    Injections,      \* [buffer, slots, rows]
    Lookups,         \* [prefix, runtime, other, by, kept, encoding]
    TextTokens(_, _), BareName(_)

\* Digests, sizes and times of use are numbers.
ASSUME RetentionAssumption ==
    \A c \in Retentions :
        LET Entry == [digest : Nat, nbytes : Int, used : Int, pinned : BOOLEAN]
        IN  c.entries \in Seq(Entry) /\ c.candidate \in Entry /\ c.budget \in Int

\* And so are the counts and the times of the prefixes, and their limits.
ASSUME SelectionAssumption ==
    \A c \in Selections :
        /\ c.prefixes \in Seq(Range(c.prefixes))
        /\ \A p \in Range(c.prefixes) :
              /\ p.mtime \in Int
              /\ {p.prompted, p.systemBytes, p.toolBytes} \subseteq Nat
        /\ {c.tokens, c.warm, c.entries, c.age} \subseteq Nat

\* Evidence is checked at an instant, and a proof of it is for a stretch of time.
ASSUME EvidenceAssumption ==
    \A c \in Restores \union Hybrids : c.evidence # None =>
        /\ c.evidence.asOf \in Int
        /\ \A p \in c.evidence.proofs : p.proven \in Int /\ p.expires \in Int

\* A policy asks for a number of positions, and the measures of one are numbers.
ASSUME TransferAssumption ==
    \A c \in Transfers :
        /\ c.policy.holdout \in Nat /\ c.policy.max \in Int /\ c.policy.delta \in Int \union {None}
        /\ c.logits = None \/ c.logits \in Seq([agrees : BOOLEAN, kl : Nat, delta : Int])

\* The regions to be placed, each with the chain of digests it was cached behind.
ASSUME CompositionAssumption ==
    Compositions \subseteq Seq([name : Nat, start : Int, end : Int, tokens : Nat,
                               after : Seq(Nat), wellFormed : BOOLEAN])

\* A store lists objects whose digests are ordered, for a shard that is one.
ASSUME RequestAssumption ==
    \A c \in Requests :
        /\ c.objects \in Seq(Range(c.objects))
        /\ \A o \in Range(c.objects) : o.digest \in Nat /\ o.tokens \in Seq(Nat)
        /\ c.shard # None /\ c.shard.size \in Nat \ {0} /\ c.shard.rank \in 0..c.shard.size - 1
        /\ c.request \in Seq(Nat) /\ c.computed \in Nat

\* Slots are numbers.
ASSUME InjectionAssumption ==
    \A c \in Injections :
        /\ c.buffer \in Seq(Range(c.buffer)) /\ c.rows \in Seq(Range(c.rows))
        /\ c.slots \in Seq(Int)

\* A model is in a directory of its own: the pattern of its shards finds all
\* that is there, and a model that is one file has no other beside it.
ASSUME LookupAssumption ==
    \A c \in Lookups : \A r \in {c.runtime, c.by} :
        /\ "weights" \in DOMAIN r
        /\ r.weights.dir \in Seq(Range(r.weights.dir))
        /\ IF r.weights.first.total = 0 THEN r.weights.dir = <<r.weights.first>>
           ELSE \A f \in Range(r.weights.dir) :
                   StartsWith(f.stem, r.weights.first.stem) /\ f.total = r.weights.first.total

\* The bytes of a part are bytes, and its name, sizes and places are what they
\* are in the table: strings and whole numbers.
ASSUME SegmentationAssumption ==
    LET Byte    == 0..255
        Segment == [name : STRING, item : Nat, cells : Int, layerStart : Int,
                    layerEnd : Int, offset : Nat, nbytes : Int, sha : Seq(Byte)]
    IN  Segmentations \subseteq Seq([seg : Segment, data : Seq(Byte)])

\* The length of a header is a field of four bytes.
ASSUME LengthAssumption == \A n \in Lengths : n \in Nat /\ n \div 2^16 < 2^16

\* What is absent is nothing that a walk over the entries of a header has found.
ASSUME HeaderAssumption ==
    \A h \in Headers :
        /\ h.entries \in Seq(Range(h.entries))
        /\ None \notin {<<>>} \union {<<e.value>> : e \in Range(h.entries)}

\* Where the magic occurs by chance, no appendix ends with the file; the lengths
\* of an appendix are unsigned.
ASSUME AppendixAssumption ==
    \A c \in Appendices :
        /\ c.noise \in Seq(Range(c.noise))
        /\ "ok" \notin {n.says : n \in Range(c.noise)}
        /\ c.start \in Nat /\ c.size \in Nat
        /\ c.a.records \in Seq(Range(c.a.records)) /\ c.a.count \in Nat
        /\ \A b \in Range(c.a.records) : {b.target, b.dft, b.spec} \subseteq Nat

\* Tokens are numbers, and so is how many media there are.
ASSUME PromptAssumption ==
    \A c \in Prompts : c.ids \in Seq(Nat) /\ c.media \in Nat \union {None} /\ c.cut \in Nat

\* A row of a table has a byte at least.
ASSUME TableAssumption ==
    \A c \in Tables : /\ c.table.offset \in Nat /\ c.table.rows \in Nat
                      /\ c.table.width \in Nat \ {0}

\* A model has a layer and a head.
ASSUME GeometryAssumption == \A c \in Geometries : {c.source, c.target} \subseteq Nat \ {0}

\* One layer at least is asked for, of those there are.
ASSUME LayersAssumption ==
    \A c \in LayerScores :
        /\ IsFiniteSet(c.layers) /\ c.layers \subseteq Int /\ c.k \in Nat \ {0}
        /\ c.scores \in [(SUBSET c.layers) \ {{}} -> Int] /\ c.infinite \in Int

\* A cache is as its runtime wrote it, its keys turned by the places of their
\* tokens if the rotation is applied; a target token overlaps one of the source's.
ASSUME TranslationAssumption ==
    \A c \in Translations :
        LET layers == DOMAIN c.cache.k
            tokens == DOMAIN c.cache.k[0]
            pair   == DOMAIN c.cache.v[0][0].turn
        IN  /\ layers = 0..Cardinality(layers) - 1
            /\ tokens \subseteq Nat /\ pair \subseteq Int
            /\ {c.from.theta, c.to.theta} \subseteq Nat /\ {c.from.dims, c.to.dims} \subseteq Int
            /\ \A l \in layers :
                  /\ DOMAIN c.cache.v[l] = tokens
                  /\ \A t \in tokens :
                        /\ c.cache.v[l][t] = [from |-> {<<l, t>>}, turn |-> [d \in pair |-> 0]]
                        /\ c.cache.k[l][t] =
                              [from |-> {<<l, t>>},
                               turn |-> [d \in pair |-> IF c.applied /\ d <= c.from.dims
                                                        THEN t * c.from.theta ELSE 0]]
            /\ c.applied \in BOOLEAN
            /\ c.weights \in Seq(Range(c.weights))
            /\ \A t \in DOMAIN c.weights : \E u \in tokens : c.weights[t][u + 1] > 0
            /\ \A t \in IF c.weights = <<>> THEN tokens ELSE 0..Len(c.weights) - 1 :
                  c.positions[t] \in Int

ASSUME TextAssumption == \A c \in Texts : c.before \in Seq(Int) /\ c.after \in Seq(Int)

Idle == [rule |-> "idle"]

VARIABLE call

R == INSTANCE Retention
Co == INSTANCE Compose
T == INSTANCE Transfer WITH NaN <- 99, NotMeasured <- None, F16 <- 1, Q8 <- 2
Rq == INSTANCE Requirements WITH NoEvidence <- None, NoGeometry <- None, MaxValidity <- 2
Ct == INSTANCE Container WITH Alignment <- 64, MaxPasses <- 5, Preamble <- 12
Sz == INSTANCE Sizing WITH MaxSeqIds <- 64, MaxLayers <- 512, MaxCount <- 1024,
                           MaxBuffer <- 2^20, MaxTotal <- 2^22, MaxWords <- 2^24
Ma == INSTANCE Mappers WITH Kept <- 5, Dropped <- 3, Exponent <- 2
Mf == INSTANCE ModelFile WITH Cut <- None, Refused <- None, Page <- 4,
                              Eos <- 0, NGram <- 3, Bare <- BareName
Cn == INSTANCE Connector WITH Unreadable <- None
Cp == INSTANCE Corpus WITH Tokens <- TextTokens, Missing <- None

\* What is sized has no more layers, prompt words, checkpoints and bytes than a
\* reader takes, and a row of f32 is whole.  A layer slides only in an
\* architecture whose window is known.
ASSUME SizeAssumption ==
    LET Arch  == [hybrid : BOOLEAN, recurrent : BOOLEAN, ext : {-1, 0, 12}, swa : BOOLEAN]
        Layer == [heads : Int, key : Int, value : Int, sliding : BOOLEAN]
    IN  /\ \A c \in PlainStates :
              /\ c.g \in [nLayer : Int, heads : Int, key : Int, value : Int, arch : Arch]
              /\ c.g.nLayer <= 512
              /\ c.cells \in Int /\ c.tokens \in Int /\ c.tokens <= 2^24
        /\ \A c \in HybridStates :
              /\ c.g \in [nLayer : Int, recurrentLayers : Int, heads : Int, key : Int,
                          value : Int, conv : Int, ssm : Int, arch : Arch]
              /\ c.g.nLayer + c.g.recurrentLayers <= 512
              /\ c.g.conv % 4 = 0 /\ c.g.ssm % 4 = 0
              /\ c.cells \in Int /\ c.tokens \in Int /\ c.tokens <= 2^24
              /\ c.checkpoints \in Int /\ c.checkpoints <= 1024
              /\ c.checkpoints * (8 + Sz!RecurrentTail(c.g, 1)) <= 2^20
        /\ \A c \in LayeredStates :
              /\ c.g \in [layers : Seq(Layer), window : Int, arch : Arch]
              /\ Len(c.g.layers) <= 512
              /\ (\E l \in Range(c.g.layers) : l.sliding) => c.g.arch.swa
              /\ c.cells \in Int /\ c.cells <= 2^24 /\ c.swa \in Nat \union {-1}
              /\ c.checkpoints \in Seq(Int) /\ Len(c.checkpoints) <= 1024
              /\ Sz!LayeredStateBytes(c.g, c.cells, c.swa, c.checkpoints, c.type, c.cells) <= 2^20

\* Pieces have a length, and those of one text come to its length.
ASSUME TokenizationAssumption ==
    \A c \in Tokenizations :
        LET length(x) == Ma!Start(x.pieces, Len(x.pieces))
        IN  /\ c.source.pieces \in Seq(Nat) /\ c.target.pieces \in Seq(Nat)
            /\ c.source.text = c.target.text => length(c.source) = length(c.target)

-----------------------------------------------------------------------------
Init == call = Idle

PlanRetention == call = Idle /\ \E of \in Retentions : call' = [rule |-> "retention", of |-> of]
SelectManifests == call = Idle /\ \E of \in Selections : call' = [rule |-> "selection", of |-> of]
PlanComposition == call = Idle /\ \E of \in Compositions : call' = [rule |-> "composition", of |-> of]
PlanTransfer == call = Idle /\ \E of \in Transfers : call' = [rule |-> "transfer", of |-> of]
CheckRestore == call = Idle /\ \E of \in Restores : call' = [rule |-> "restore", of |-> of]
CheckHybrid == call = Idle /\ \E of \in Hybrids : call' = [rule |-> "hybrid", of |-> of]
WriteContainer == call = Idle /\ \E of \in Segmentations : call' = [rule |-> "container", of |-> of]
WriteHeader == call = Idle /\ \E of \in Lengths : call' = [rule |-> "headerLength", of |-> of]
SizePlain == call = Idle /\ \E of \in PlainStates : call' = [rule |-> "plain", of |-> of]
SizeHybrid == call = Idle /\ \E of \in HybridStates : call' = [rule |-> "hybridSize", of |-> of]
SizeLayered == call = Idle /\ \E of \in LayeredStates : call' = [rule |-> "layered", of |-> of]
AlignTokens == call = Idle /\ \E of \in Tokenizations : call' = [rule |-> "align", of |-> of]
FitGeometry == call = Idle /\ \E of \in Geometries : call' = [rule |-> "geometry", of |-> of]
TranslateCache == call = Idle /\ \E of \in Translations : call' = [rule |-> "translate", of |-> of]
SelectLayers == call = Idle /\ \E of \in LayerScores : call' = [rule |-> "layers", of |-> of]
Round == call = Idle /\ \E of \in 0..2^8 - 1 : call' = [rule |-> "round", of |-> of]
ReadHeader == call = Idle /\ \E of \in Headers : call' = [rule |-> "header", of |-> of]
FindAppendix == call = Idle /\ \E of \in Appendices : call' = [rule |-> "appendix", of |-> of]
ReadPrompt == call = Idle /\ \E of \in Prompts : call' = [rule |-> "prompt", of |-> of]
AskForPages == call = Idle /\ \E of \in Tables : call' = [rule |-> "pages", of |-> of]
HashTexts == call = Idle /\ \E of \in Texts : call' = [rule |-> "texts", of |-> of]
MatchRequest == call = Idle /\ \E of \in Requests : call' = [rule |-> "request", of |-> of]
MoveRows == call = Idle /\ \E of \in Injections : call' = [rule |-> "rows", of |-> of]
LookUp == call = Idle /\ \E of \in Lookups : call' = [rule |-> "lookup", of |-> of]

Return == call # Idle /\ call' = Idle

Next ==
    \/ PlanRetention \/ SelectManifests \/ PlanComposition \/ PlanTransfer
    \/ CheckRestore \/ CheckHybrid
    \/ WriteContainer \/ WriteHeader
    \/ SizePlain \/ SizeHybrid \/ SizeLayered
    \/ AlignTokens \/ FitGeometry \/ TranslateCache \/ SelectLayers \/ Round
    \/ ReadHeader \/ FindAppendix \/ ReadPrompt \/ AskForPages \/ HashTexts
    \/ MatchRequest \/ MoveRows \/ LookUp
    \/ Return

Spec == Init /\ [][Next]_call

Of(rule, Holds(_)) == call.rule = rule => Holds(call.of)

-----------------------------------------------------------------------------
(* Retention keeps, in order, whatever still fits beside the pins; what a
   candidate displaces is older than it, and it displaces nothing unless it is
   kept itself (retention.plan_retention, admit_or_refuse).  The warmer stays
   in its budgets and passes over a manifest only for one of them, and pruning
   removes no manifest younger than one it keeps (daemon/budget.py). *)
KeepsWhatItMay ==
    /\ Of("retention", LAMBDA c :
          LET plan   == R!PlanRetention(c.entries, c.budget)
              admits == R!AdmitOrRefuse(c.entries, c.candidate, c.budget)
          IN  /\ plan.ok => R!KeepsWhatFits(c.entries, c.budget, plan)
              /\ admits.ok =>
                    /\ R!KeepsWhatFits(Append(c.entries, c.candidate), c.budget, admits)
                    /\ c.candidate.digest \in admits.keep
                    /\ admits.bytes <= c.budget
                    /\ ~c.candidate.pinned =>
                          \A e \in Range(c.entries) :
                             e.digest \in plan.keep \ admits.keep => R!Before(c.candidate, e))
    /\ Of("selection", LAMBDA c :
          LET loaded    == Cp!LoadManifests(c.prefixes, c.provider, 0)
              manifests == [i \in DOMAIN loaded |-> [tokens |-> Cp!EstTokens(loaded[i]),
                                                    mtime |-> loaded[i].mtime]]
              warmed == R!SelectWarm(manifests, c.tokens, c.warm)
              pruned == R!SelectPrune(manifests, c.entries, c.age, 3)
              kept   == DOMAIN manifests \ pruned
          IN  /\ warmed.tokens <= c.tokens
              /\ Cardinality(warmed.warm) <= c.warm
              /\ \A i \in DOMAIN manifests \ warmed.warm :
                    \/ manifests[i].tokens = 0
                    \/ warmed.tokens + manifests[i].tokens > c.tokens
                    \/ /\ Cardinality(warmed.warm) = c.warm
                       /\ \A j \in warmed.warm : manifests[j].mtime >= manifests[i].mtime
              /\ \A i \in kept, j \in pruned : manifests[j].mtime <= manifests[i].mtime
              /\ c.entries > 0 => Cardinality(kept) <= c.entries
              /\ c.age > 0 => \A i \in kept : manifests[i].mtime >= 3 - c.age)

(* An exact composition is exact in one order only, and appending agrees with
   planning anew (compose.plan, compose.appendable). *)
ComposesInOneOrder ==
    Of("composition", LAMBDA c : Co!HasOneOrder(c) /\ Co!AppendAgrees(c))

(* A transfer that is used is of this model and prompt, and either the bytes
   are reusable as they are or each position of the holdout was measured
   within the bounds the plan was made with (transfer.plan, transfer.execute,
   gate.admit). *)
TransferIsSound ==
    Of("transfer", LAMBDA c :
          T!Execute(T!Plan(c.source, c.target, c.policy), TRUE, TRUE, c.logits)
              => T!UsedIsSound(c.source, c.target, c.policy, c.logits))

(* An artifact that carries draft or speculative state is restored only where
   a recorded, unexpired and uncontradicted demonstration is about that very
   build, binary and model; a hybrid state is valid only when the classes its
   checkpoints carry were demonstrated on its own weights, and it was stored
   without evidence of its own.  One with checkpoints is restored only by a
   runtime that persists them in its format
   (requirements.check, HybridState.validate, from_dict). *)
GatedStateIsDemonstrated ==
    /\ Of("restore", LAMBDA c :
          LET req   == Rq!ForArtifact(c.artifact)
              build == IF c.who.build # 0 THEN c.who.build ELSE c.props.build
              model == IF c.who.model # 0 THEN c.who.model ELSE req.model
          IN  Rq!Check(req, c.props, c.who, c.evidence) = {} =>
                  /\ \A class \in c.artifact.carries :
                        /\ c.evidence # None
                        /\ Rq!Demonstrated(class, build, c.who.binary, model, c.evidence)
                  /\ c.artifact.checkpoints > 0 =>
                        /\ c.props.persistence
                        /\ c.artifact.format \in {0, c.props.format})
    /\ Of("hybrid", LAMBDA c :
          /\ Rq!FromDict(c.keys, c.checkpointKeys, TRUE) = "state"
          /\ Rq!HybridProblems(c.state, c.evidence) = {}
          =>  /\ "evidence" \notin c.keys \union UNION c.checkpointKeys
              /\ \A k \in UNION {p.carries : p \in c.state.checkpoints} :
                  /\ c.evidence # None
                  /\ Rq!Demonstrated(k, c.evidence.build, c.evidence.binary,
                                     c.state.geometry.weights, c.evidence))

(* What write_segments accepts reads back, and every table of sound parts is
   accepted.  A file with one thing altered, or its end cut off, verifies only
   where that is one supported version for the other, the padding, or what
   follows the payload, which no digest covers; the same holds of an opaque
   file that an import checks by its header and then extracts
   (container.write_segments, segments.validate, container.verify,
   verify_header, extract_payload).  Whatever the length of its header, the
   payload's offset settles behind it (container._resolve_offset). *)
ContainerReadsBack ==
    /\ Of("container", LAMBDA c : Ct!ReadsBack(c) /\ Ct!AlwaysPlaces(c) /\ Ct!DamageIsSeen(c))
    /\ Of("headerLength", LAMBDA n : Ct!OffsetSettles(n))

GrowsByTheToken(c) ==
    LET at(n) == Sz!StateBytes(c.g, n, c.type, n)
    IN  c.cells > 0 /\ at(c.cells) # -1 =>
           at(c.cells + 1) = at(c.cells) + Sz!BytesPerToken(c.g, c.type)

SizesItsWindow(c) ==
    LET at(swa) == Sz!LayeredStateBytes(c.g, c.cells, swa, c.checkpoints, c.type, c.cells)
        own     == Sz!SlidingCells(c.g, c.cells)
    IN  /\ c.swa # 0 /\ at(c.swa) # -1
        /\ \A i \in DOMAIN c.checkpoints : c.checkpoints[i] <= own
        => at(own) # -1

(* The number of bytes predicted for a state is the number the readers of its
   sections come to, for plain, hybrid and sliding-window models, with and
   without checkpoints; save that a plain or hybrid state without cells is
   shorter by the tail it does not write, and a plain one whose architecture
   extends its cells longer by what they carry, of which nothing is foreseen.
   With one more cell it is larger by the bytes of a token; and where a sliding
   section is foreseen, that of the model's own window can be, with checkpoints
   no larger than it (sizing.state_bytes and its siblings, the readers of
   llamacpp_ggsq). *)
SizeIsExact ==
    /\ Of("plain", LAMBDA c : /\ Sz!PlainIsExact(c.g, c.cells, c.type, c.tokens)
                              /\ GrowsByTheToken(c))
    /\ Of("hybridSize", LAMBDA c : Sz!HybridIsExact(c.g, c.cells, c.checkpoints, c.type, c.tokens))
    /\ Of("layered", LAMBDA c : /\ Sz!LayeredIsExact(c.g, c.cells, c.swa, c.checkpoints, c.type)
                                /\ SizesItsWindow(c))

WeighsShared(c) ==
    LET w == Ma!Align(c.source, c.target)
        bytes(pieces, i) == Ma!Start(pieces, i - 1) .. Ma!Stop(pieces, i - 1) - 1
    IN  w # <<>> =>
           \A t \in DOMAIN w :
              /\ \A s \in DOMAIN w[t] :
                    w[t][s] = Cardinality(bytes(c.target.pieces, t)
                                             \intersect bytes(c.source.pieces, s))
              /\ Ma!Total(w[t]) = c.target.pieces[t]

FitsInOrder(c) ==
    LET layer  == Ma!DepthLayerMap(c.source, c.target)
        heads  == Ma!Regroup(c.source, c.target, "mean")
        common == c.source * c.target
        pairs  == [t \in 1..c.target |-> <<t - 1, layer[t - 1]>>]
    IN  /\ Ma!Convertible(pairs, c.source, c.target)
        /\ \A t, u \in DOMAIN layer : t <= u => layer[t] <= layer[u]
        /\ layer[0] = 0
        /\ c.target > 1 => layer[c.target - 1] = c.source - 1
        /\ {} \notin Range(heads) =>
              \A q \in 0..common - 1 : q \div c.target \in heads[q \div c.source]

ImprovesEachTime(c) ==
    LET chosen == Ma!SelectSourceLayers(c.layers, c.k, c.scores, c.infinite)
        upTo(n) == IF n = 0 THEN c.infinite ELSE c.scores[Range(SubSeq(chosen, 1, n))]
    IN  /\ Len(chosen) <= c.k /\ IsInjective(chosen)
        /\ \A n \in DOMAIN chosen : upTo(n) < upTo(n - 1)
        /\ \A l \in c.layers : upTo(Len(chosen)) <= c.scores[{l}]

TurnedRight(c, out, i, t) ==
    LET k == out.k[c.pairs[i][1]][t]
        v == out.v[c.pairs[i][1]][t]
        read == IF c.weights = <<>> THEN {t}
                ELSE {s \in DOMAIN c.cache.k[0] : c.weights[t + 1][s + 1] > 0}
    IN  /\ k.from = {c.pairs[i][2]} \X read /\ v.from = k.from
        /\ \A d \in DOMAIN k.turn :
              /\ v.turn[d] = 0
              /\ k.turn[d] = IF c.applied /\ d <= c.to.dims
                             THEN c.positions[t] * c.to.theta ELSE 0

TurnsAsAsked(c) ==
    Ma!Plannable(c.pairs, Cardinality(DOMAIN c.cache.k)) =>
    LET out == Ma!Translate(c.cache, c.pairs, c.weights, c.positions, c.from, c.to, c.applied)
    IN  \A i \in DOMAIN c.pairs : \A t \in DOMAIN out.k[c.pairs[i][1]] : TurnedRight(c, out, i, t)

(* A target token weighs each source token by the bytes they share, and by no
   others (align.align); a query head finds the head it read among those its
   new head is made of, and layers keep their order and their ends
   (geometry.convert); the layers chosen for a fit are different ones, each of
   which improved it, and fit no worse than any layer alone
   (linear.select_source_layers); keys that were turned by the source's
   rotation come out turned by exactly the target's, values are never turned,
   and each target token is made of the source tokens it overlaps, of the layer
   its own was mapped from (translate.translate). *)
MapsKeepPlaces ==
    /\ Of("align", WeighsShared) /\ Of("geometry", FitsInOrder)
    /\ Of("layers", ImprovesEachTime) /\ Of("translate", TurnsAsAsked)

(* bf16 of a number is a nearest one, the even one of two, whichever of the
   two conversions is asked; and dtypes.convert keeps a NaN a NaN. *)
RoundsToNearest ==
    Of("round", LAMBDA u :
          LET kept == Ma!ConvertBf16(u)
              away(b) == IF b * 8 > u THEN b * 8 - u ELSE u - b * 8
          IN  IF Ma!NotANumber(u) THEN Ma!NotANumber(kept * 8)
              ELSE /\ kept = Ma!QuantiseBf16(u)
                   /\ away(kept) <= 4
                   /\ away(kept) = 4 => kept % 2 = 0)

(* The architecture read on the request path is the one admission accepted, and
   reuse is claimed just where that one is named and, however it is written, not
   among those that cannot (gguf.read_string_key, supports_prefix_reuse);
   the appendix found by a search is usable just when it is at its declared
   place, in a file neither shorter nor longer (parse_checkpoint_appendix,
   checkpoint_appendix_at); a prompt is read as the tokens that were packed, or
   as none, never as part of them (decode_prompt_tokens); the pages asked for
   hold every byte of the rows and each is asked for once (pages_for_rows,
   coalesce); and no row depends on what stood in front of an end of text
   (rows_for_sequence). *)
ReadsAgree ==
    /\ Of("header", LAMBDA h :
          /\ Mf!QuickReadAgrees(h, "arch")
          /\ LET all == Mf!ReadStringKey(h, "arch", TRUE)
             IN  all # None =>
                    /\ Mf!SupportsPrefixReuse(Mf!ReadStringKey(h, "arch", FALSE), {}, {<<"x">>})
                           <=> BareName(all) \notin {<<>>, <<"x">>})
    /\ Of("appendix", LAMBDA c :
          LET own == [says |-> Sz!ParseStream(c.a, c.start, c.size), version |-> c.a.version]
              usable(size) == Sz!AppendixAt(c.a, c.start, size) = "ok"
          IN  /\ usable(c.size) <=> Sz!ParseAppendix(Append(c.noise, own)) = "ok"
              /\ usable(c.size) => \A size \in 0..c.size + 8 : usable(size) => size = c.size)
    /\ Of("prompt", LAMBDA c :
          LET packed == IF c.media = None THEN c.ids
                        ELSE <<-1, 1, Len(c.ids)>> \o c.ids \o <<c.media>>
              read == Sz!DecodePrompt(SubSeq(packed, 1, Len(packed) - c.cut))
          IN  c.media # None => read \in {<<>>, <<-1>>} \union IF c.media = 0 \/ c.cut > 0
                                                               THEN {c.ids} ELSE {})
    /\ Of("pages", LAMBDA c : Mf!RowsAreCovered(c.rows, c.table))
    /\ Of("texts", LAMBDA c : Mf!TextsAreApart(c.before, c.after))

(* A request is served the longest artifact of its own model and shard that is
   a prefix of it, whatever order the store lists them in, and an artifact is
   looked up by what changes its bytes, beside the others of its prompt and
   model (select_artifact, resolve, coexist); rows put in the paged buffer are
   read back and no other row changes (inject, extract). *)
FoundIsOwn ==
    /\ Of("request", LAMBDA c :
          LET new == Cn!NewTokens(c.objects, c.shard, c.live, c.request, c.computed)
          IN  /\ Cn!ServesTheLongest(c.objects, c.shard, c.live, c.request)
              /\ new > 0 => c.computed + new <= Len(c.request))
    /\ Of("rows", LAMBDA c : Cn!InjectedIsExtracted(c.buffer, c.slots, c.rows))
    /\ Of("lookup", LAMBDA c :
          LET Named(r) == [r EXCEPT !.weights =
                              Mf!ModelContentDigest(Mf!ShardsOf(@.dir, @.first))]
              runtime == Named(c.runtime)
              by      == Named(c.by)
              mine    == Cp!Key(c.prefix, runtime, c.encoding, 0)
              theirs  == Cp!Key(c.other, by, c.kept, 0)
              own     == <<c.other, by, c.kept>>
              stored  == [key \in {Cp!KeyDigest(theirs)} |-> own]
              both    == [key \in {Cp!KeyDigest(mine), Cp!KeyDigest(theirs)} |->
                             IF key = Cp!KeyDigest(mine) THEN <<c.prefix, runtime, c.encoding>>
                             ELSE own]
          IN  /\ Cp!FoundIsOwn(c.prefix, runtime, c.other, by, c.kept, c.encoding,
                               Cp!Resolve(c.prefix, runtime, stored, c.encoding))
              /\ Cp!StaysBeside(mine, theirs, own, Cp!Resolve(c.other, by, both, c.kept))
              /\ runtime.weights = by.weights =>
                    [i \in DOMAIN c.runtime.weights.dir |-> c.runtime.weights.dir[i].bytes]
                  = [i \in DOMAIN c.by.weights.dir |-> c.by.weights.dir[i].bytes])
=============================================================================
