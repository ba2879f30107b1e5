-------------------------------- MODULE Mappers --------------------------------
(****************************************************************************)
(* One model's cache rendered for another: kv_rosetta/mappers/align.py,     *)
(* geometry.py, mappers/translate.py with mappers/rope.py, the selection of *)
(* source layers in mappers/linear.py, and the rounding to bf16 in          *)
(* dtypes.py and adapters/llamacpp_ggsq.py.  Pure functions; what a fitted  *)
(* map does to the numbers is left out, and which vector it reads is not.   *)
(*                                                                          *)
(* A tokenization is [text, pieces]: the bytes it decodes to, as a name,    *)
(* and the length of each piece.  Layers, heads and tokens count from 0.    *)
(****************************************************************************)
EXTENDS Integers, Sequences, FiniteSets, FiniteSetsExt, Folding

CONSTANTS Kept, Dropped,      \* 16 and 16: the bits of a bf16, and those it lacks
          Exponent            \* 8: the bits of its exponent

\* byte_spans
Total(sizes) == FoldLeft(+, 0, sizes)
Start(pieces, i) == Total(SubSeq(pieces, 1, i))
Stop(pieces, i) == Start(pieces, i + 1)

Overlap(target, t, source, s) ==
    Max({0, Min({Stop(target, t), Stop(source, s)})
            - Max({Start(target, t), Start(source, s)})})

(* align(): the bytes a target token shares with each source token; the
   division by their sum is left out.  <<>> is the refusal. *)
Align(source, target) ==
    IF \/ source.text # target.text
       \/ source.pieces = <<>> \/ target.pieces = <<>>
       \/ 0 \in Range(source.pieces) \union Range(target.pieces)
    THEN <<>>
    ELSE [t \in 1..Len(target.pieces) |->
             [s \in 1..Len(source.pieces) |->
                 Overlap(target.pieces, t - 1, source.pieces, s - 1)]]

-----------------------------------------------------------------------------
(* geometry.py.  Python's round: halves go to the even neighbour. *)
Round(n, d) ==
    LET q == n \div d
        r == 2 * (n % d)
    IN  IF r > d \/ (r = d /\ q % 2 = 1) THEN q + 1 ELSE q

(* depth_layer_map, by target layer *)
DepthLayerMap(source, target) ==
    [t \in 0..target - 1 |->
        IF target = 1 THEN 0 ELSE Round(t * (source - 1), target - 1)]

(* _regroup: the source heads a target head is made of, {} when refused *)
Regroup(source, target, policy) ==
    [h \in 0..target - 1 |->
        LET group == source \div target
        IN  CASE source = target                     -> {h}
              [] source > target /\ source % target = 0 ->
                    IF policy = "mean" THEN h * group .. h * group + group - 1
                    ELSE {h * group}
              [] source < target /\ target % source = 0 ->
                    {h \div (target \div source)}
              [] OTHER                               -> {}]

(* convert: what it refuses of a layer map *)
Convertible(pairs, source, target) ==
    /\ \A t \in 0..target - 1 : Cardinality({i \in DOMAIN pairs : pairs[i][1] = t}) = 1
    /\ \A i \in DOMAIN pairs : pairs[i][1] \in 0..target - 1 /\ pairs[i][2] \in 0..source - 1

-----------------------------------------------------------------------------
(* translate.py.  A vector is [from, turn]: the <<layer, token>> it was made
   of, and the rotation each pair of its elements carries.  A mean or a map of
   vectors that are turned keeps no rotation: Garbled. *)
Garbled == -1

\* Mutant of Turned: the whole head is turned, whatever the model declares.
TurnedWhole(x, sign, position, rope) ==
    [x EXCEPT !.turn = [d \in DOMAIN x.turn |->
        IF x.turn[d] = Garbled THEN x.turn[d]
        ELSE x.turn[d] + sign * position * rope.theta]]

(* apply_rope, and strip_rope with the sign reversed; only the leading dims
   of a head are turned. *)
Turned(x, sign, position, rope) ==
    [x EXCEPT !.turn = [d \in DOMAIN x.turn |->
        IF d > rope.dims \/ x.turn[d] = Garbled THEN x.turn[d]
        ELSE x.turn[d] + sign * position * rope.theta]]

(* pool and apply_layer: linear over whole vectors *)
Mixed(xs) ==
    LET one == CHOOSE x \in xs : TRUE
    IN  [from |-> UNION {x.from : x \in xs},
         turn |-> [d \in DOMAIN one.turn |->
                      IF \A x \in xs : x.turn[d] = 0 THEN 0 ELSE Garbled]]

(* plan_translation: pairs are <<target layer, source layer>> *)
Plannable(pairs, layers) ==
    /\ pairs # <<>>
    /\ \A i \in DOMAIN pairs : pairs[i][2] \in 0..layers - 1 /\ pairs[i][1] >= 0
    /\ IsInjective([i \in DOMAIN pairs |-> pairs[i][1]])

(* The cache is [k, v], each by layer and token; `weights` is the alignment,
   <<>> when the two tokenizations are one.  A target layer no pair names
   holds zeros. *)
Translate(cache, pairs, weights, positions, from, to, applied) ==
    LET layers == DOMAIN cache.k
        tokens == DOMAIN cache.k[0]
        stripped == [l \in layers |-> [t \in tokens |->
                        IF applied THEN Turned(cache.k[l][t], -1, t, from)
                                   ELSE cache.k[l][t]]]
        pooled(vs) ==
            IF weights = <<>> THEN vs
            ELSE [t \in 0..Len(weights) - 1 |->
                    Mixed({vs[s] : s \in {u \in tokens : weights[t + 1][u + 1] > 0}})]
        mapped(vs) == LET p == pooled(vs) IN [t \in DOMAIN p |-> Mixed({p[t]})]
        Read(part, l) == LET i == CHOOSE i \in DOMAIN pairs : pairs[i][1] = l
                         IN  mapped(part[pairs[i][2]])
        named == {pairs[i][1] : i \in DOMAIN pairs}
        rotate(vs) == [t \in DOMAIN vs |->
                         IF applied THEN Turned(vs[t], 1, positions[t], to) ELSE vs[t]]
    IN  [k |-> [l \in named |-> rotate(Read(stripped, l))],
         v |-> [l \in named |-> Read(cache.v, l)]]

-----------------------------------------------------------------------------
(* linear.py, select_source_layers: score gives the held-out score of a fit on
   each set of layers, the smaller the better; infinite, that of none. *)
Best(layers, chosen, score, bar) ==
    LET trial(l) == score[Range(chosen) \union {l}]
        better == {l \in layers \ Range(chosen) : trial(l) < bar}
    IN  {l \in better : \A m \in better :
             trial(l) < trial(m) \/ (trial(l) = trial(m) /\ l <= m)}

SelectSourceLayers(layers, k, score, infinite) ==
    LET step(chosen, round) ==
            LET bar  == IF chosen = <<>> THEN infinite ELSE score[Range(chosen)]
                best == Best(layers, chosen, score, bar)
            IN  IF Len(chosen) < round - 1 \/ best = {} THEN chosen
                ELSE Append(chosen, CHOOSE l \in best : TRUE)
    IN  FoldLeft(step, <<>>, [i \in 1..k |-> i])

-----------------------------------------------------------------------------
(* Rounding the bits u of a float32 to bf16: half the dropped range less one
   is added, and one more when the last kept bit is set.  dtypes.convert adds
   in 64 bits and puts the quiet NaN in for any NaN; quantise adds in the
   32 bits of the value and knows no NaN. *)
Width == 2^(Kept + Dropped)
Exponents == (2^Exponent - 1) * 2^(Kept + Dropped - 1 - Exponent)    \* all ones

NotANumber(u) == (u % (Width \div 2)) > Exponents
QuietNaN == (Exponents \div 2^Dropped) + 2^(Kept - 2 - Exponent)

Rounding(u) == u + 2^(Dropped - 1) - 1 + ((u \div 2^Dropped) % 2)

\* Mutant of ConvertBf16: a NaN is rounded like a number.
ConvertAnyBf16(u) == (Rounding(u) \div 2^Dropped) % 2^Kept

ConvertBf16(u) ==
    IF NotANumber(u) THEN QuietNaN ELSE (Rounding(u) \div 2^Dropped) % 2^Kept

QuantiseBf16(u) == (Rounding(u) % Width) \div 2^Dropped
=============================================================================
