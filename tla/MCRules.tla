-------------------------------- MODULE MCRules --------------------------------
(***************************************************************************)
(* The inputs of Rules for TLC: small values around every condition of the *)
(* code, those of one family varied together and the rest one at a time.   *)
(***************************************************************************)
EXTENDS Rules

Upto(n, S) == UNION {[1..k -> S] : k \in 0..n}
Nonempty(n, S) == Upto(n, S) \ {<<>>}

\* The record, and each record that differs from it in one field.
Deviating(base, others) ==
    {base} \union UNION {{[base EXCEPT ![f] = x] : x \in others[f]} : f \in DOMAIN others}

-----------------------------------------------------------------------------
Entry(digests, sizes) == [digest : digests, nbytes : sizes, used : {1, 2}, pinned : BOOLEAN]

MCRetentions ==
    [entries : {<<>>} \union {<<a>> : a \in Entry({1}, {1, 2})}
               \union {<<a, b>> : a \in Entry({1}, {1, 2}), b \in Entry({2}, {1, 2})},
     candidate : Entry({2, 3}, 0..3), budget : -1..5]

SomePrefix == [identity |-> FALSE, readable |-> TRUE, schema |-> 1, provider |-> 1,
               model |-> 1, fingerprint |-> 1, prompted |-> 2, systemBytes |-> 5,
               toolBytes |-> 4, text |-> 1, mtime |-> 2]

SomePrefixes == Deviating(SomePrefix, [identity |-> {TRUE}, readable |-> {FALSE}, schema |-> {2},
                                   provider |-> {2}, prompted |-> {0, 1}, mtime |-> {1, 3}])

MCSelections ==
    [prefixes : Upto(2, SomePrefixes)
                \union {<<a, b, c>> : a, b, c \in Deviating(SomePrefix, [prompted |-> {1},
                                                                          mtime |-> {1, 3}])},
     provider : {0, 1}, tokens : {1, 3}, warm : {1, 2}, entries : 0..2, age : 0..1]

-----------------------------------------------------------------------------
Contexts == Upto(2, {1, 2})

Laid(tokens, after) ==
    [i \in DOMAIN tokens |-> [name |-> i, start |-> i - 1, end |-> i, tokens |-> tokens[i],
                              after |-> after[i], wellFormed |-> TRUE]]

InOrder == {Laid(<<a, b, c>>, <<x, y, z>>) : a, b, c \in {1, 2}, x, y, z \in Contexts}
           \union {Laid(<<a, b>>, <<x, y>>) : a, b \in {1, 2}, x, y \in Contexts}

MCCompositions ==
    InOrder
    \union {[r EXCEPT ![2].start = s] : r \in InOrder, s \in {0, 2}}
    \union {[r EXCEPT ![2].name = 1] : r \in InOrder}
    \union {[r EXCEPT ![1].wellFormed = FALSE] : r \in InOrder}

-----------------------------------------------------------------------------
Policy == [holdout : 1..2, agree : {0, 1}, mean : {1, 2}, max : 0..1, delta : {None, 0}]
Position == [agrees : BOOLEAN, kl : {0, 1, 99}, delta : {0, 1, 99}]

Here == [model |-> 1, abi |-> 1, k |-> 1, v |-> 1, arch |-> 1, prompt |-> 1]

MCTransfers ==
    [source : Deviating(Here, [model |-> {0, 2}, abi |-> {0}, k |-> {0, 2}, v |-> {0, 2},
                               prompt |-> {0, 2}]),
     target : [model : 0..1, abi : 0..2, k : 0..3, v : 1..2, arch : 1..2, prompt : 0..1],
     policy : {[holdout |-> 1, agree |-> 1, mean |-> 1, max |-> 1, delta |-> None]},
     logits : {None, <<[agrees |-> TRUE, kl |-> 0, delta |-> 0]>>}]
    \union
    [source : {Here}, target : {[Here EXCEPT !.abi = 2, !.k = 2]}, policy : Policy,
     logits : {None} \union Upto(2, Position)]


-----------------------------------------------------------------------------
Proof == [class |-> "draft", outcome |-> "restored_and_matched", build |-> 1, binary |-> 1,
          model |-> 1, proven |-> 1, expires |-> 3, record |-> 1, sha |-> 1,
          wellFormed |-> TRUE]

ProofFields == [class |-> {"speculative", "other"}, outcome |-> {"diverged", "other"},
                build |-> {0, 2}, binary |-> {2}, model |-> {2}, proven |-> {0, 3},
                expires |-> {2}, record |-> {2}, sha |-> {0, 2}, wellFormed |-> {FALSE}]

Proofs == Deviating(Proof, ProofFields)
Diverged == Deviating([Proof EXCEPT !.outcome = "diverged"], ProofFields)
Both == {Proof, [Proof EXCEPT !.class = "speculative"]}

ProofSets == {{}} \union {{p, q} : p, q \in Proofs} \union {{Proof, d} : d \in Diverged}
             \union {{p, d} : p \in Both, d \in Diverged} \union {Both}
             \union {Both \union {d} : d \in Diverged}

Evidence(proofs) ==
    Deviating([build |-> 1, binary |-> 1, model |-> 1, proofs |-> proofs,
               records |-> <<1, 2>>, asOf |-> 2],
              [build |-> {0, 2}, binary |-> {0, 2}, model |-> {0, 2}, asOf |-> {0, 1, 3},
               records |-> {<<0, 1>>, <<2, 1>>}])

Stored(carries, model, checkpoints) ==
    [hybrid |-> TRUE, checkpoints |-> checkpoints, version |-> 0, format |-> 1, kv |-> 0,
     model |-> model, carries |-> carries]
Runtime(build, supports) == [version |-> 1, persistence |-> TRUE, format |-> 1, kv |-> 1,
                             model |-> 1, build |-> build, supports |-> supports]
Who(build, binary, model) == [identity |-> 1, build |-> build, binary |-> binary, model |-> model]
Carried == {{}, {"draft"}, {"draft", "speculative"}, {"other"}}

MCRestores ==
    [artifact : {Stored(g, 1, 1) : g \in Carried}, props : {Runtime(1, {"draft", "speculative"})},
     who : {Who(1, 1, 1)}, evidence : UNION {Evidence(p) : p \in ProofSets}]
    \union
    [artifact : {Stored(g, m, 0) : g \in Carried, m \in 0..2},
     props : {Runtime(b, s) : b \in 0..2, s \in {{}, {"draft"}, {"draft", "speculative"}}},
     who : {Who(b, n, m) : b, n, m \in 0..2},
     evidence : {None} \union UNION {{[e EXCEPT !.model = m] : e \in Evidence(Both)} : m \in {1}}]

Shape == [ok |-> TRUE, nLayer |-> 2, heads |-> <<1, 1>>, recurrentWidth |-> 1, weights |-> 1]
Checkpoint == [tokens |-> 1, posMin |-> 0, posMax |-> 0, segments |-> {1}, carries |-> {"draft"}]
State == [formOk |-> TRUE, geometry |-> Shape, layers |-> <<0>>, checkpoints |-> {Checkpoint},
          attention |-> {1}, recurrent |-> {2}]

MCHybrids ==
    [state : {State}, evidence : {CHOOSE e \in Evidence(Both) : TRUE},
     keys : {{}, {"evidence"}, {"schema"}}, checkpointKeys : {{}, {{}, {"evidence"}}}]
    \union
    [keys : {{}}, checkpointKeys : {{}}, state : Deviating(State,
        [geometry |-> {None} \union Deviating(Shape, [nLayer |-> {0, 3}, heads |-> {<<1, 0>>},
                                                      recurrentWidth |-> {0}, weights |-> {2}]),
         layers |-> {<<>>, <<0, 1>>, <<1, 0>>, <<2>>}, formOk |-> {FALSE},
         attention |-> {{}}, recurrent |-> {{}},
         checkpoints |-> {{}, {[Checkpoint EXCEPT !.carries = {}]},
                          {Checkpoint, [Checkpoint EXCEPT !.carries = {"speculative"}]},
                          {[Checkpoint EXCEPT !.posMin = 1]}}]),
     evidence : {None} \union UNION {Evidence(p) : p \in ProofSets}]

-----------------------------------------------------------------------------
Part(name, n) ==
    [seg |-> [name |-> name, item |-> 1, cells |-> n, layerStart |-> 0, layerEnd |-> 1,
              offset |-> 0, nbytes |-> n, sha |-> <<>>],
     data |-> [i \in 1..n |-> i]]

Parts(name) == {Part(name, n) : n \in {0, 1, 4, 5}}
               \union {[Part(name, 3) EXCEPT !.seg.cells = 2],
                       [Part(name, 3) EXCEPT !.seg.item = 0, !.seg.cells = 2],
                       [Part(name, 3) EXCEPT !.seg.nbytes = 4, !.seg.cells = 4],
                       [Part(name, 3) EXCEPT !.seg.layerEnd = -1]}

MCSegmentations ==
    {<<>>} \union {<<a>> : a \in Parts("a")}
    \union {<<a, b>> : a \in Parts("a"), b \in Parts("b") \union Parts("a")}
    \union {<<c, a, b>> : c \in Parts("c"), a \in Parts("a"), b \in Parts("b")}

MCLengths == 0..10200

-----------------------------------------------------------------------------
Arch(hybrid, ext) == [hybrid |-> hybrid, recurrent |-> FALSE, ext |-> ext, swa |-> TRUE]
ElementTypes == {"f16", "q8_0", "q4_0", "iq9"}

MCPlainStates ==
    {[g |-> Sz!GeometryOf([blocks |-> n, kvHeads |-> h, key |-> k, value |-> v,
                           heads |-> m.heads, embd |-> m.embd], Arch(FALSE, m.ext)),
      cells |-> c, type |-> t, tokens |-> w] :
        m \in Deviating([heads |-> 2, embd |-> 64, ext |-> 0],
                        [heads |-> {0}, embd |-> {63}, ext |-> {-1, 12}]),
        n \in 0..2, h \in 0..2, k \in {0, 16, 32}, v \in {0, 16}, c \in 0..2,
        t \in ElementTypes, w \in 0..1}

MCHybridStates ==
    {[g |-> [nLayer |-> Sz!AttentionBlocks(n, 1, i), recurrentLayers |-> Sz!RecurrentBlocks(n, 1, i),
             heads |-> 1, key |-> k, value |-> 32, arch |-> Arch(TRUE, e),
             conv |-> Sz!ConvRow([conv |-> 2, inner |-> 2, groups |-> 1, state |-> 1]),
             ssm |-> Sz!StateRow([inner |-> 2, state |-> 1])],
      cells |-> c, checkpoints |-> p, type |-> t, tokens |-> c] :
        n \in 2..5, i \in 2..3, k \in {16, 32}, e \in {-1, 0, 12}, c \in 0..2,
        p \in -1..2, t \in ElementTypes}

Layers(pattern, heads, window, keySwa, ext) ==
    Sz!LayeredGeometryOf([blocks |-> 2, kvHeads |-> heads, pattern |-> pattern, key |-> 32,
                          keySwa |-> keySwa, value |-> 0, valueSwa |-> 0, window |-> window],
                         Arch(FALSE, ext))

MCLayeredStates ==
    {[g |-> Layers(p, h, w, s, e), cells |-> c, swa |-> x, checkpoints |-> k, type |-> t] :
        p \in {<<>>, <<TRUE, FALSE>>, <<FALSE, FALSE>>, <<TRUE>>}, h \in {<<1, 2>>, <<1>>},
        w \in 0..1, s \in {0, 64}, e \in {0, 12}, c \in 0..2, x \in -1..2,
        k \in {<<>>, <<0>>, <<1>>, <<1, 2>>}, t \in {"f16", "q8_0"}}

-----------------------------------------------------------------------------
Splits == UNION {{[text |-> n, pieces |-> p] : p \in {q \in Nonempty(4, 0..4) :
                     FoldLeft(+, 0, q) = n}} : n \in 3..4}

MCTokenizations == [source : Splits, target : Splits]

MCGeometries == [source : 1..8, target : 1..8]

Vector(l, t, turned, rope) ==
    [from |-> {<<l, t>>},
     turn |-> [d \in 1..2 |-> IF turned /\ d <= rope.dims THEN t * rope.theta ELSE 0]]

Cache(tokens, turned, rope) ==
    [k |-> [l \in 0..1 |-> [t \in 0..tokens - 1 |-> Vector(l, t, turned, rope)]],
     v |-> [l \in 0..1 |-> [t \in 0..tokens - 1 |-> Vector(l, t, FALSE, rope)]]]

Pieces(p) == [text |-> 4, pieces |-> p]

Ropes == [theta : {1, 2}, dims : {1, 2}]

MCTranslations ==
    {[cache |-> Cache(3, a, f), pairs |-> p, weights |-> w, positions |-> o,
      from |-> f, to |-> g, applied |-> a] :
        a \in BOOLEAN, f \in Ropes, g \in Ropes,
        p \in Upto(2, (0..1) \X (0..2)),
        w \in {<<>>, Ma!Align(Pieces(<<1, 1, 2>>), Pieces(<<2, 1, 1>>)),
               Ma!Align(Pieces(<<1, 2, 1>>), Pieces(<<2, 2>>))},
        o \in {[t \in 0..2 |-> t], [t \in 0..2 |-> t + 1]}}

MCLayerScores == [layers : {0..2}, k : 1..3, scores : [(SUBSET (0..2)) \ {{}} -> 0..2],
                  infinite : {3}]

-----------------------------------------------------------------------------
Records == [tokens : {1}, posMin : {0}, posMax : {-1, 0}, target : {0, 3}, dft : {0}, spec : {0},
            body : {None}]

Noise == [says : {"none", "truncated", "malformed", "unknown_version"}, version : 1..2]

\* A count above the records means that the file ends within the next one.
MCAppendices ==
    {c \in [noise : Upto(1, Noise), start : {0, 5},
            size : {12, 17, 40, 52, 55, 57, 60, 92, 95, 97, 98, 100, 103},
            a : [magic : BOOLEAN, version : 1..2, count : 0..2, records : Upto(2, Records)]] :
        c.a.count > Len(c.a.records) => c.size < c.start + 12 + 40 * Len(c.a.records) + 16}

MCPrompts == [ids : Upto(3, 1..2), media : {None, 0, 1}, cut : 0..3]

HeaderEntries == [key : {"arch", "other"}, kind : {"string"},
                  value : {<<"x">>, <<"y">>, <<" ", "X">>, <<" ">>, None}]
                 \union [key : {"arch", "other"}, kind : {"array"}, value : {<<"x">>, <<"x", "y">>}]

\* The one name that is written in two ways here, and the one that says nothing.
MCBareName(name) ==
    IF name = <<" ", "X">> THEN <<"x">> ELSE IF name = <<" ">> THEN <<>> ELSE name

MCHeaders == [magic : BOOLEAN, entries : Upto(3, HeaderEntries)]

MCTables == [rows : SUBSET (0..4),
             table : [offset : 0..4, rows : {4}, width : 1..6]]

MCTexts == [before : Upto(3, 0..2), after : Upto(3, 0..2)]

-----------------------------------------------------------------------------
Shards == {[rank |-> 0, size |-> 1], [rank |-> 1, size |-> 2], None}

Objects(d) == [digest : {d}, model : 0..2, shard : Shards,
               tokens : {<<>>, <<1>>, <<2>>, <<1, 2>>}]

MCRequests ==
    [objects : {<<a>> : a \in Objects(1)} \union {<<a, b>> : a \in Objects(1), b \in Objects(2)}
               \union {<<b, a>> : a \in Objects(1), b \in Objects(2)},
     shard : Shards \ {None}, live : {1}, request : {<<>>, <<1>>, <<1, 2>>},
     computed : 0..1]

MCInjections == [buffer : {<<1, 2, 3>>}, slots : Upto(3, -1..3), rows : Upto(3, {8, 9})]

\* Texts 2 and 3 are one token sequence under the second tokenizer.
MCTextTokens(tokenizer, text) ==
    IF text = 3 THEN <<tokenizer>> ELSE IF text = 2 THEN <<2>> ELSE <<text, 1>>

Shard(stem, total, byte) == [stem |-> stem, total |-> total, bytes |-> <<byte>>]

Weights(stem, second, bytes) ==
    LET dir == <<Shard(stem, 2, bytes[1]), Shard(second, 2, bytes[2])>>
    IN  [dir |-> dir, first |-> dir[1]]

Runtimes == Deviating([tokenizer |-> 1, template |-> 1, arch |-> 1,
                       weights |-> Weights(<<"m">>, <<"m">>, <<1, 2>>),
                       adapters |-> <<1, 2>>, notes |-> <<1>>, abi |-> 1, flags |-> <<1, 2>>,
                       format |-> 1],
                      [tokenizer |-> {2}, template |-> {2}, arch |-> {2},
                       weights |-> {Weights(<<"n">>, <<"n">>, <<1, 2>>),
                                    Weights(<<"m">>, <<"m">>, <<2, 1>>),
                                    Weights(<<"m">>, <<"m", "x">>, <<1, 2>>),
                                    Weights(<<"m">>, <<"m">>, <<1, 3>>)},
                       adapters |-> {<<2, 1>>, <<1>>}, notes |-> {<<1, 1>>}, abi |-> {2},
                       flags |-> {<<2, 1>>, <<1>>}, format |-> {2}])

Named == Deviating(SomePrefix, [text |-> {0, 2, 3}, fingerprint |-> {2}, schema |-> {2}])

MCLookups == [prefix : Named, runtime : Runtimes, other : Named, by : Runtimes,
              kept : {"opaque", "raw"}, encoding : {"opaque", "raw"}]
=============================================================================
