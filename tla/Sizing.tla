-------------------------------- MODULE Sizing --------------------------------
(****************************************************************************)
(* How many bytes a saved sequence state will have: kv_rosetta/sizing.py.   *)
(* The numbers guard the disk an admission is about to fill, so they must   *)
(* be the number the readers of SequenceState come to.  Pure functions.     *)
(*                                                                          *)
(* An architecture is [hybrid, recurrent, ext, swa]: ext is 12 or 0, the    *)
(* extension of a cell, or -1 when the architecture does not tell.  A layer *)
(* is [heads, key, value, sliding].  Metadata that is absent is 0; -1 is a  *)
(* SizingError.                                                             *)
(****************************************************************************)
EXTENDS SequenceState

FileHeader == 12
CellMeta == 12          \* a position and one sequence id

KRow(l, type) == RowSize(type, l.heads * l.key)
VRow(l, type) == RowSize(type, l.heads * l.value)

LayerOk(l) == l.heads > 0 /\ l.key > 0 /\ l.value > 0

Uniform(g) == [i \in 1..g.nLayer |-> [heads |-> g.heads, key |-> g.key,
                                      value |-> g.value, sliding |-> FALSE]]

RowsOk(layers, type) ==
    \A i \in DOMAIN layers : LayerOk(layers[i]) /\ -1 \notin {KRow(layers[i], type), VRow(layers[i], type)}

LayerBytes(layers, cells, type) ==
    Sum(Each(layers, LAMBDA l : 2 * TensorHeader + cells * (KRow(l, type) + VRow(l, type))))

\* Mutant of Body: the extension of a cell is forgotten.
BodyOfPlainCells(layers, cells, type, ext) ==
    8 + CellMeta * cells + 8 + LayerBytes(layers, cells, type)

Body(layers, cells, type, ext) ==
    8 + (CellMeta + ext) * cells + 8 + LayerBytes(layers, cells, type)

(* state_bytes: no extension of the cells, whatever the architecture, and the
   tail after the cell count is there for 0 cells as well. *)
StateBytes(g, cells, type, tokens) ==
    IF \/ g.arch.hybrid \/ g.arch.recurrent
       \/ g.nLayer <= 0 \/ cells < 0 \/ tokens < 0
       \/ ~RowsOk(Uniform(g), type)
    THEN -1
    ELSE FileHeader + 4 * tokens + Body(Uniform(g), cells, type, 0)

BytesPerToken(g, type) == StateBytes(g, 1, type, 1) - StateBytes(g, 0, type, 0)

(* geometry_of: a model with heads, whose dimension is declared or divides the
   embedding. *)
KeyDim(meta) ==
    IF meta.heads = 0 \/ (meta.key = 0 /\ meta.embd % meta.heads # 0) THEN -1
    ELSE IF meta.key # 0 THEN meta.key ELSE meta.embd \div meta.heads

GeometryOf(meta, arch) ==
    [nLayer |-> meta.blocks, heads |-> meta.kvHeads, key |-> KeyDim(meta),
     value |-> IF meta.value # 0 THEN meta.value ELSE KeyDim(meta), arch |-> arch]

-----------------------------------------------------------------------------
(* hybrid_geometry_of: every interval-th block of the main stack keeps
   attention, the others recurrent state. *)
RecurrentBlocks(blocks, nextn, interval) ==
    Cardinality({i \in 0..blocks - nextn - 1 : (i + 1) % interval # 0})

AttentionBlocks(blocks, nextn, interval) ==
    (blocks - nextn) - RecurrentBlocks(blocks, nextn, interval)

ConvRow(ssm) == (ssm.conv - 1) * (ssm.inner + 2 * ssm.groups * ssm.state) * 4
StateRow(ssm) == ssm.inner * ssm.state * 4

RecurrentTail(g, n) ==
    4 + 8 * n + 8 + g.recurrentLayers * (2 * TensorHeader + n * (g.conv + g.ssm))

(* hybrid_state_bytes; the checkpoints hold one recurrent section each. *)
HybridStateBytes(g, cells, checkpoints, type, tokens, n) ==
    LET rec == RecurrentTail(g, n)
        appendix == IF checkpoints = 0 THEN 0 ELSE 12 + checkpoints * (16 + 24 + 8 + rec)
    IN  IF \/ g.arch.ext = -1
           \/ checkpoints < 0 \/ cells < 0 \/ tokens < 0 \/ n < 1
           \/ g.nLayer <= 0 \/ g.recurrentLayers < 0 \/ g.conv <= 0 \/ g.ssm <= 0
           \/ ~RowsOk(Uniform(g), type)
        THEN -1
        ELSE FileHeader + 4 * tokens + Body(Uniform(g), cells, type, g.arch.ext)
             + rec + appendix

-----------------------------------------------------------------------------
(* layered_geometry_of: heads per layer, and the layers marked as sliding use
   the dimensions declared for them. *)
LayeredGeometryOf(meta, arch) ==
    LET n == meta.blocks
        ok == /\ n > 0 /\ meta.key # 0
              /\ Len(meta.kvHeads) = n
              /\ meta.pattern # <<>> => Len(meta.pattern) = n
              /\ TRUE \in Range(meta.pattern) => meta.keySwa # 0
        sliding(i) == meta.pattern # <<>> /\ meta.pattern[i]
        Or(a, b)   == IF a # 0 THEN a ELSE b
        layer(i)   == [heads |-> meta.kvHeads[i], sliding |-> sliding(i),
                       key   |-> IF sliding(i) THEN meta.keySwa ELSE meta.key,
                       value |-> IF sliding(i) THEN Or(meta.valueSwa, meta.keySwa)
                                               ELSE Or(meta.value, meta.key)]
    IN  [layers |-> IF ok THEN [i \in 1..n |-> layer(i)] ELSE <<>>,
         window |-> meta.window, arch |-> arch]

\* The layers of one section, in their order.
Section(g, sliding) ==
    FoldLeft(LAMBDA s, l : IF l.sliding = sliding THEN Append(s, l) ELSE s, <<>>, g.layers)

Base(g) == Section(g, FALSE)
Sliding(g) == Section(g, TRUE)

LayeredOk(g) ==
    /\ g.layers # <<>>
    /\ \A i \in DOMAIN g.layers : LayerOk(g.layers[i])
    /\ (Sliding(g) # <<>>) <=> (g.window > 0)

SlidingCells(g, cells) ==
    IF Sliding(g) # <<>> /\ g.arch.swa /\ cells >= 0 THEN Min({cells, g.window}) ELSE -1

SectionBytes(layers, cells, type, ext) ==
    IF cells = 0 THEN 8 ELSE Body(layers, cells, type, ext)

(* layered_state_bytes: `swa` cells in the sliding section, -1 when there is
   none, and the cells of each checkpoint. *)
LayeredStateBytes(g, cells, swa, checkpoints, type, tokens) ==
    LET ext == g.arch.ext
        sliding == Sliding(g)
        record(n) == 16 + 24 + 8 + SectionBytes(sliding, n, type, ext)
    IN  IF \/ g.arch.hybrid \/ g.arch.recurrent \/ ext = -1 \/ ~LayeredOk(g)
           \/ cells < 0 \/ tokens < 0
           \/ (sliding = <<>>) # (swa = -1)
           \/ swa > cells
           \/ checkpoints # <<>> /\ sliding = <<>>
           \/ \E i \in DOMAIN checkpoints : checkpoints[i] \notin 0..swa
           \/ cells > 0 /\ ~RowsOk(Base(g), type)
           \/ swa > 0 /\ ~RowsOk(sliding, type)
        THEN -1
        ELSE FileHeader + 4 * tokens + SectionBytes(Base(g), cells, type, ext)
             + (IF sliding = <<>> THEN 0 ELSE SectionBytes(sliding, swa, type, ext))
             + (IF checkpoints = <<>> THEN 0
                ELSE 12 + Sum(Each(checkpoints, record)))

-----------------------------------------------------------------------------
(* The file a runtime of that geometry writes: one sequence, so that each
   attention cell names it and no recurrent cell does. *)
Repeat(n, x) == [i \in 1..n |-> x]

AttentionOf(layers, cells, type) ==
    [streams |-> 1, cells |-> Repeat(cells, 1), vTrans |-> FALSE,
     layers |-> Each(layers, LAMBDA l : [type |-> type, k |-> KRow(l, type),
                                         v |-> VRow(l, type), width |-> 0])]

RecurrentOf(g, n) ==
    [cells |-> Repeat(n, 0), sTrans |-> FALSE, nLayer |-> g.nLayer + g.recurrentLayers,
     rows |-> Repeat(g.recurrentLayers, g.conv) \o Repeat(g.recurrentLayers, g.ssm)]

RecurrentMap(g) == [i \in 1..g.recurrentLayers |-> i - 1]

AppendixOf(bodies, sizes) ==
    [magic |-> TRUE, version |-> 1, count |-> Len(bodies),
     records |-> [i \in DOMAIN bodies |-> [tokens |-> 1, posMin |-> 0, posMax |-> 0,
                                           target |-> 8 + sizes[i], dft |-> 0,
                                           spec |-> 0, body |-> bodies[i]]]]

(* Both parsers read the appendix to the end of the file, and neither takes it
   for whole when the file is a byte shorter. *)
AppendixEnds(a, start, size, layers) ==
    /\ ReadAppendix(a, start, size, layers) = size
    /\ ParseStream(a, start, size) = "ok" /\ AppendixAt(a, start, size) = "ok"
    /\ ReadAppendix(a, start, size - 1, layers) = -1
    /\ ParseStream(a, start, size - 1) # "ok"

\* What the cells of a file of this architecture may carry.
Extensions(arch) == IF arch.ext = -1 THEN {0, 12} ELSE {arch.ext}

\* What a size of no cells counts, and no runtime writes nor reader reads.
Unwritten(layers, cells, type) == IF cells = 0 THEN 8 + LayerBytes(layers, 0, type) ELSE 0

(* The readers, one after the other, come to the predicted end: for a plain
   state exactly where its cells carry no extension and it has some, and else
   beyond it by the extensions, or short of it by the tail of an empty one. *)
PlainIsExact(g, cells, type, tokens) ==
    LET size == StateBytes(g, cells, type, tokens)
        at   == HeaderSize([magic |-> TRUE, count |-> tokens])
        s    == AttentionOf(Uniform(g), cells, type)
    IN  size # -1 => \A ext \in Extensions(g.arch) :
            ReadAttention(s, at, size + ext * cells, ext, <<>>)
                = size + ext * cells - Unwritten(Uniform(g), cells, type)

HybridIsExact(g, cells, checkpoints, type, tokens) ==
    LET size == HybridStateBytes(g, cells, checkpoints, type, tokens, 1)
        whole == size - Unwritten(Uniform(g), cells, type)
        at   == HeaderSize([magic |-> TRUE, count |-> tokens])
        rec  == RecurrentOf(g, 1)
        tail == ReadAttention(AttentionOf(Uniform(g), cells, type), at, whole,
                              g.arch.ext, <<>>)
        end  == ReadRecurrent(rec, tail, whole, RecurrentMap(g))
    IN  size # -1 =>
            /\ tail # -1
            /\ IF checkpoints = 0 THEN end = whole
               ELSE AppendixEnds(AppendixOf(Repeat(checkpoints, rec),
                                            Repeat(checkpoints, RecurrentBytes(rec))),
                                 end, whole, RecurrentMap(g))

LayeredIsExact(g, cells, swa, checkpoints, type) ==
    LET size == LayeredStateBytes(g, cells, swa, checkpoints, type, cells)
        at   == HeaderSize([magic |-> TRUE, count |-> cells])
        ext  == g.arch.ext
        slid(n) == AttentionOf(Sliding(g), n, type)
        base == ReadAttention(AttentionOf(Base(g), cells, type), at, size, ext, <<>>)
        end  == IF swa = -1 THEN base ELSE ReadAttention(slid(swa), base, size, ext, <<>>)
        held == Each(checkpoints, slid)
        a    == AppendixOf(held, Each(held, LAMBDA b : AttentionBytes(b, ext)))
    IN  size # -1 /\ Base(g) # <<>> =>
            /\ base # -1 /\ end # -1
            /\ IF checkpoints = <<>> THEN end = size ELSE ParseStream(a, end, size) = "ok"
=============================================================================
