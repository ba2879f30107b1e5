---------------------------- MODULE SequenceState ----------------------------
(****************************************************************************)
(* The sequence-state file llama-server saves: how kv_rosetta finds its way *)
(* through it (adapters/ggsq_envelope.py, adapters/llamacpp_ggsq.py) and    *)
(* how many bytes it expects it to have (sizing.py).  Pure functions.       *)
(*                                                                          *)
(* A section is what its bytes hold, field by field; a reader is the end it *)
(* comes to from a start, -1 when it refuses.                               *)
(*   attention  [streams, cells, vTrans, layers]: cells is, for each cell,  *)
(*              the number of its sequence ids; a layer [type, k, v, width] *)
(*              has the row sizes k and v, or transposed the size v of an   *)
(*              element and the width                                       *)
(*   recurrent  [cells, sTrans, nLayer, rows]: the row sizes in file order  *)
(*   appendix   [magic, version, count, records] of records                 *)
(*              [tokens, posMin, posMax, target, dft, spec, body]           *)
(****************************************************************************)
EXTENDS Integers, Sequences, FiniteSets, FiniteSetsExt, Folding

CONSTANTS
    MaxSeqIds, MaxLayers,      \* 64, 512: what a header may plausibly claim
    MaxCount,                  \* 1024: the writer's cap on checkpoints
    MaxBuffer, MaxTotal,       \* 2^34, 2^38: its caps on their bytes
    MaxWords                   \* 2^24: prompt words

(* GGML_TYPES: elements in a block, and its bytes *)
Types == [f32 |-> <<1, 4>>, f16 |-> <<1, 2>>, q8_0 |-> <<32, 34>>, q4_0 |-> <<32, 18>>]

RowSize(type, n) ==
    IF type \in DOMAIN Types /\ n % Types[type][1] = 0
    THEN (n \div Types[type][1]) * Types[type][2] ELSE -1

WholeBlocks(type, nbytes) == type \in DOMAIN Types /\ nbytes % Types[type][2] = 0

Sum(s) == FoldLeft(+, 0, s)
Each(s, Op(_)) == [i \in DOMAIN s |-> Op(s[i])]

TensorHeader == 12

-----------------------------------------------------------------------------
(* The envelope.  A prefix is [magic, words], of the words only the count. *)
HeaderSize(prefix) ==
    IF prefix.magic /\ prefix.count <= MaxWords THEN 12 + 4 * prefix.count ELSE -1

(* decode_prompt_tokens: a bare list of ids, or -1, a version, a count, the
   ids and the number of media chunks.  <<-1>> stands for the refusal. *)
DecodePrompt(packed) ==
    CASE packed = <<>>      -> <<>>
      [] packed # <<>> /\ packed[1] # -1 -> packed
      [] OTHER ->
           IF \/ Len(packed) < 3
              \/ packed[2] # 1
              \/ packed[3] < 0 \/ 3 + packed[3] > Len(packed)
           THEN <<-1>>
           ELSE IF Len(packed) > 3 + packed[3] /\ packed[4 + packed[3]] # 0
           THEN <<>>                \* not a pure text prompt
           ELSE SubSeq(packed, 4, 3 + packed[3])

-----------------------------------------------------------------------------
(* read_attention_section *)
CellBytes(s, ext) == Sum(Each(s.cells, LAMBDA ids : 8 + ext + 4 * ids))

KeyBytes(s) == Sum(Each(s.layers, LAMBDA l : TensorHeader + Len(s.cells) * l.k))

ValueBytes(s) ==
    Sum(Each(s.layers, LAMBDA l : TensorHeader + Len(s.cells) * l.v
                                     * (IF s.vTrans THEN l.width ELSE 1)))

AttentionBytes(s, ext) ==
    IF s.cells = <<>> THEN 8
    ELSE 8 + CellBytes(s, ext) + 8 + KeyBytes(s) + ValueBytes(s)

Readable(s, map) ==
    /\ s.streams = 1
    /\ s.cells # <<>> =>
          /\ \A i \in DOMAIN s.cells : s.cells[i] <= MaxSeqIds
          /\ Len(s.layers) \in 1..MaxLayers
          /\ map # <<>> => /\ Len(map) = Len(s.layers)
                           /\ IsInjective(map)
                           /\ \A i \in DOMAIN map : map[i] >= 0
          /\ \A i \in DOMAIN s.layers :
                LET l == s.layers[i]
                IN  /\ WholeBlocks(l.type, l.k)
                    /\ IF s.vTrans
                       THEN l.v = Types[l.type][2] \div Types[l.type][1]
                       ELSE WholeBlocks(l.type, l.v)

(* `map` names the model layers, <<>> when the caller has none to name. *)
ReadAttention(s, start, end, ext, map) ==
    LET n == start + AttentionBytes(s, ext)
    IN  IF Readable(s, map) /\ n <= end THEN n ELSE -1

(* read_recurrent_section: a cell of a save of one sequence has no ids. *)
RecurrentBytes(r) ==
    IF r.cells = <<>> THEN 4
    ELSE 4 + Sum(Each(r.cells, LAMBDA ids : 8 + 4 * ids)) + 8
           + Sum(Each(r.rows, LAMBDA row : TensorHeader + Len(r.cells) * row))

ReadRecurrent(r, start, end, layers) ==
    LET n  == start + RecurrentBytes(r)
        ok == \/ r.cells = <<>>
              \/ /\ \A i \in DOMAIN r.cells : r.cells[i] = 0
                 /\ ~r.sTrans
                 /\ r.nLayer \in 1..MaxLayers
                 /\ IsInjective(layers)
                 /\ \A i \in DOMAIN layers : layers[i] \in 0..r.nLayer - 1
                 /\ Len(r.rows) = 2 * Len(layers)
                 /\ \A i \in DOMAIN r.rows : WholeBlocks("f32", r.rows[i])
    IN  IF ok /\ n <= end THEN n ELSE -1

-----------------------------------------------------------------------------
(* The checkpoint appendix is read twice, by two parsers.  _parse_stream only
   measures it, to tell a whole appendix from a damaged one. *)
BadExtent(c) == c.tokens < 0 \/ c.posMin < 0 \/ c.posMax < c.posMin

Measure(w, length, size) ==
    LET n == w.at + 8 + length
    IN  CASE w.says # "reading"                         -> w
          [] w.says = "reading" /\ w.at + 8 > size      -> [w EXCEPT !.says = "truncated"]
          [] OTHER ->
               IF length > MaxBuffer \/ w.total + length > MaxTotal
               THEN [w EXCEPT !.says = "malformed"]
               ELSE [at |-> n, total |-> w.total + length,
                     says |-> IF n > size THEN "truncated" ELSE "reading"]

MeasureRecord(w, c, size) ==
    IF w.says # "reading" THEN w
    ELSE IF w.at + 16 > size THEN [w EXCEPT !.says = "truncated"]
    ELSE IF BadExtent(c) THEN [w EXCEPT !.says = "malformed"]
    ELSE FoldLeft(LAMBDA v, length : Measure(v, length, size),
                  [w EXCEPT !.at = @ + 16], <<c.target, c.dft, c.spec>>)

MeasureRecords(a, start, size) ==
    FoldLeft(LAMBDA w, c : MeasureRecord(w, c, size),
             [at |-> start + 12, total |-> 0, says |-> "reading"],
             SubSeq(a.records, 1, Min({a.count, Len(a.records)})))

(* "none": these are not the bytes of an appendix that ends with the file. *)
ParseStream(a, start, size) ==
    LET walked == MeasureRecords(a, start, size)
        ended  == IF a.count > Len(a.records) THEN "truncated"
                  ELSE IF walked.at = size THEN "ok" ELSE "none"
    IN  CASE start + 12 > size                      -> "truncated"
          [] start + 12 <= size /\ ~a.magic         -> "none"
          [] OTHER ->
               IF a.version # 1 THEN "unknown_version"
               ELSE IF a.count > MaxCount THEN "malformed"
               ELSE IF walked.says = "reading" THEN ended ELSE walked.says

(* parse_checkpoint_appendix: the magic may occur in tensor bytes too, so each
   occurrence is a candidate [says, version], in file order. *)
ParseAppendix(candidates) ==
    LET of(says)  == {i \in DOMAIN candidates : candidates[i].says = says}
        rejected  == DOMAIN candidates \ (of("ok") \union of("none"))
        current   == {i \in rejected : candidates[i].version = 1}
    IN  IF of("ok") # {} THEN "ok"
        ELSE IF rejected = {} THEN "absent"
        ELSE candidates[Min(IF current # {} THEN current ELSE rejected)].says

(* checkpoint_appendix_at: the caller knows where the appendix begins. *)
AppendixAt(a, offset, size) ==
    IF offset < 0 \/ offset + 12 > size THEN "malformed"
    ELSE IF ~a.magic THEN "absent"
    ELSE IF ParseStream(a, offset, size) = "none" THEN "malformed"
    ELSE ParseStream(a, offset, size)

(* read_checkpoint_appendix decodes it, and refuses state of the classes that
   no proof covers: a record's first buffer must be a preamble of 8 bytes and
   exactly one recurrent section. *)
RecordBytes(c) == 16 + 8 + c.target + 8 + c.dft + 8 + c.spec

ReadAppendix(a, start, end, layers) ==
    LET n       == start + 12 + Sum(Each(a.records, RecordBytes))
        Sound(c) == /\ ~BadExtent(c)
                    /\ c.target <= MaxBuffer /\ c.dft = 0 /\ c.spec = 0
                    /\ c.target > 8
                    /\ ReadRecurrent(c.body, 8, c.target, layers) = c.target
    IN  IF /\ a.magic /\ a.version = 1 /\ a.count <= MaxCount
           /\ a.count = Len(a.records)
           /\ \A i \in DOMAIN a.records : Sound(a.records[i])
           /\ n = end
        THEN n ELSE -1
=============================================================================
