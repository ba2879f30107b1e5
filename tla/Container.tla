------------------------------ MODULE Container ------------------------------
(****************************************************************************)
(* The KVX container file: kv_rosetta/container.py with the segment table   *)
(* of kv_rosetta/segments.py.  Pure functions; how the files are written    *)
(* and replaced is in ImportExport.                                         *)
(*                                                                          *)
(* A payload is a sequence of bytes.  Digests are free: the digest of a     *)
(* value is the value itself.  A segment is [name, item, cells, layerStart, *)
(* layerEnd, offset, nbytes, sha]: item is the size of an element, 0 for a  *)
(* dtype that is stored but not interpreted, and cells the product of its   *)
(* shape.  A file is [magic, version, header, padding, payload, cut]: the   *)
(* header is [blob, digest], the digest that of the text of the header, for *)
(* which the blob stands; the padding fills the file up to the payload,     *)
(* whatever follows the declared bytes of the payload trails them, and      *)
(* `cut` is how many bytes the end of the file is missing.                  *)
(****************************************************************************)
EXTENDS Integers, Sequences, FiniteSets, Folding

CONSTANT Alignment,    \* 64
         MaxPasses,    \* 5
         Preamble      \* 12

Align(n) == IF n % Alignment = 0 THEN n ELSE n + Alignment - (n % Alignment)

Digits(n) == CHOOSE d \in 1..10 : n < 10^d /\ (d = 1 \/ n >= 10^(d - 1))

(* _resolve_offset: the header holds the offset, whose decimal digits are
   part of the header's length.  -1 stands for the refusal. *)
ResolveOffset(length) ==
    LET settled(o) == Align(Preamble + length + Digits(o))
        offset[n \in 0..MaxPasses - 1] == IF n = 0 THEN 0 ELSE settled(offset[n - 1])
        last == offset[MaxPasses - 1]
    IN  IF settled(last) = last THEN last ELSE -1

-----------------------------------------------------------------------------
\* Mutant of End: one byte too far.
EndPast(s) == s.offset + s.nbytes + 1

End(s) == s.offset + s.nbytes

(* _check_one *)
Valid(s) ==
    /\ s.name # "" /\ s.nbytes >= 0 /\ s.offset >= 0 /\ s.cells >= 0
    /\ 0 <= s.layerStart /\ s.layerStart <= s.layerEnd
    /\ s.item # 0 => s.nbytes = s.item * s.cells

(* segments.validate: sorted by their offset, and in the order of the table
   where that is the same, no segment may begin before the one in front of it
   ends. *)
Sooner(table, i, j) ==
    \/ table[i].offset < table[j].offset
    \/ table[i].offset = table[j].offset /\ i < j

InFrontOf(table, i, j) ==
    /\ Sooner(table, i, j)
    /\ ~\E k \in DOMAIN table : Sooner(table, i, k) /\ Sooner(table, k, j)

TableOk(table, fileSize) ==
    /\ table # <<>>
    /\ \A i \in DOMAIN table : /\ Valid(table[i])
                               /\ table[i].offset % Alignment = 0
                               /\ End(table[i]) <= fileSize
    /\ IsInjective([i \in DOMAIN table |-> table[i].name])
    /\ \A i, j \in DOMAIN table :
          InFrontOf(table, i, j) => table[j].offset >= End(table[i])

(* table_digest: the table ordered by name *)
TableDigest(table) == {table[i] : i \in DOMAIN table}

Pad(n) == [i \in 1..n |-> 0]

(* write_segments: each part is [seg, data] *)
Placed(parts) ==
    FoldLeft(LAMBDA done, part :
                 LET at == Align(Len(done.payload))
                 IN  [payload |-> done.payload \o Pad(at - Len(done.payload)) \o part.data,
                      table |-> Append(done.table,
                                       [part.seg EXCEPT !.offset = at, !.sha = part.data])],
             [payload |-> <<>>, table |-> <<>>], parts)

File(version, encoding, payload, table) ==
    LET blob == [encoding |-> encoding, nbytes |-> Len(payload), sha |-> payload,
                 aligned |-> TRUE, table |-> table,
                 representation |-> TableDigest(table)]
    IN  [magic |-> TRUE, version |-> version, padding |-> "spaces",
         payload |-> payload, cut |-> 0,
         header |-> [blob |-> blob, digest |-> blob]]

WritesSegments(parts) ==
    /\ parts # <<>>
    /\ \A i \in DOMAIN parts : parts[i].seg.nbytes = Len(parts[i].data)
    /\ LET p == Placed(parts) IN TableOk(p.table, Len(p.payload))

WriteSegments(parts) ==
    LET p == Placed(parts) IN File(2, "segmented", p.payload, p.table)

WriteOpaque(bytes) == File(1, "opaque", bytes, <<>>)

-----------------------------------------------------------------------------
(* _read_header *)
Reads(f) == f.magic /\ f.version \in {1, 2}

(* the checks verify and verify_header share *)
HeaderOk(f) ==
    /\ Reads(f)
    /\ f.header.digest = f.header.blob
    /\ f.header.blob.aligned
    /\ f.header.blob.nbytes <= Len(f.payload) - f.cut

VerifyHeader(f) == HeaderOk(f) /\ f.header.blob.encoding # "segmented"

Bytes(f, from, n) == SubSeq(f.payload, from + 1, from + n)

Verify(f) ==
    LET blob == f.header.blob
    IN  /\ HeaderOk(f)
        /\ Bytes(f, 0, blob.nbytes) = blob.sha
        /\ blob.encoding = "segmented" =>
              /\ TableOk(blob.table, blob.nbytes)
              /\ blob.representation = TableDigest(blob.table)
              /\ \A i \in DOMAIN blob.table :
                    LET s == blob.table[i] IN Bytes(f, s.offset, s.nbytes) = s.sha

(* extract_payload checks the payload and none of the segments, nor the digest
   of the header. *)
Extracts(f) ==
    /\ Reads(f)
    /\ f.header.blob.nbytes <= Len(f.payload) - f.cut
    /\ Bytes(f, 0, f.header.blob.nbytes) = f.header.blob.sha

-----------------------------------------------------------------------------
(* What write_segments accepts it can read back: the file verifies, each
   segment holds its own data, and no byte belongs to two of them. *)
ReadsBack(parts) ==
    WritesSegments(parts) =>
        LET f     == WriteSegments(parts)
            table == f.header.blob.table
        IN  /\ Verify(f) /\ Extracts(f) /\ ~VerifyHeader(f)
            /\ \A i \in DOMAIN parts : Bytes(f, table[i].offset, table[i].nbytes) = parts[i].data
            /\ \A i, j \in DOMAIN table : i # j =>
                  (table[i].offset + 1 .. End(table[i]))
                     \intersect (table[j].offset + 1 .. End(table[j])) = {}

(* Nothing that can be placed is turned away: a table is accepted whenever
   its parts are sound one by one and have names of their own. *)
AlwaysPlaces(parts) ==
    /\ parts # <<>>
    /\ \A i \in DOMAIN parts : /\ Valid(parts[i].seg)
                               /\ parts[i].seg.nbytes = Len(parts[i].data)
    /\ IsInjective([i \in DOMAIN parts |-> parts[i].seg.name])
    => WritesSegments(parts)

(* A file with one thing altered: the magic or the version, a field of the
   header, the digest in it, the padding, a byte of the payload; a byte after
   the payload, or the end of the file missing. *)
Rewritten(blob) ==
    {[blob EXCEPT !.encoding = "another"], [blob EXCEPT !.nbytes = @ + 1],
     [blob EXCEPT !.sha = Append(@, 0)], [blob EXCEPT !.aligned = FALSE]}

Altered(f) ==
    {[f EXCEPT !.magic = FALSE], [f EXCEPT !.padding = "another"],
     [f EXCEPT !.payload = Append(@, 0)]}
    \union {[f EXCEPT !.version = v] : v \in 0..3}
    \union {[f EXCEPT !.header.blob = b] : b \in Rewritten(f.header.blob)}
    \union {[f EXCEPT !.header.digest = b] : b \in Rewritten(f.header.blob)}
    \union {[f EXCEPT !.payload[i] = (@ + 1) % 256] : i \in DOMAIN f.payload}
    \union {[f EXCEPT !.cut = n] : n \in 1..Len(f.payload) + Preamble}

(* What no digest covers: which of the supported versions the preamble gives,
   the padding in front of the payload, and what follows the payload. *)
Spared(f, g) ==
    /\ g.magic /\ g.version \in {1, 2}
    /\ g.header = f.header /\ g.cut = f.cut
    /\ \A i \in DOMAIN f.payload : i \in DOMAIN g.payload /\ g.payload[i] = f.payload[i]

(* With one thing altered a file verifies in those three cases only, and in
   them it does; so does an opaque file where an import checks its header and
   then extracts it. *)
DamageIsSeen(parts) ==
    WritesSegments(parts) =>
        LET f == WriteSegments(parts)
            o == WriteOpaque(f.payload)
        IN  /\ \A g \in Altered(f) : Verify(g) <=> Spared(f, g)
            /\ \A g \in Altered(o) : VerifyHeader(g) /\ Extracts(g) <=> Spared(o, g)

(* Whatever the length of the rest of the header, the offset settles behind
   it, aligned. *)
OffsetSettles(length) ==
    LET o == ResolveOffset(length)
    IN  /\ o % Alignment = 0
        /\ o >= Preamble + length + Digits(o)
        /\ o < Preamble + length + Digits(o) + Alignment
=============================================================================
