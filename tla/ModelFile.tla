------------------------------- MODULE ModelFile -------------------------------
(****************************************************************************)
(* What is read of a model's GGUF file: the header in kv_rosetta/gguf.py,   *)
(* the shards that make its identity in kv_rosetta/weights.py, and the      *)
(* pages of the hash-addressed table in kv_rosetta/ple_prefetch.py.  Pure   *)
(* functions.                                                               *)
(*                                                                          *)
(* A header is [magic, entries] of entries [key, kind, value]: a value is   *)
(* the sequence of its elements when the kind is "array", and Cut where the *)
(* file ends.  Refused stands for a raised error.  A table is [offset, rows,*)
(* width]: where row 0 begins, how many there are, and the bytes of one.    *)
(* Bare is what is left of a name without the blanks around it and in lower  *)
(* case.                                                                    *)
(****************************************************************************)
EXTENDS Integers, Sequences, FiniteSets, Folding

CONSTANTS Cut, Refused, Page,     \* Page is 4096
          Eos, NGram,             \* the token that ends a text; 3
          Bare(_)

(* read_metadata: an array of more than eight elements is summarised, unless
   it was asked for in full; `most` is eight.  The summary compares equal to
   nothing: a comparison raises. *)
Summary(value) == [summaryOf |-> Len(value)]

Read(entry, full, most) ==
    IF /\ entry.kind = "array" /\ entry.key \notin full /\ Len(entry.value) > most
    THEN Summary(entry.value) ELSE entry.value

(* The later of two entries with one key stays.  A string that the end of the
   file cuts short is returned as far as it goes: only what is read after it
   fails. *)
ReadMetadata(header, keys, full, most) ==
    LET last(k) == Max({i \in DOMAIN header.entries : header.entries[i].key = k})
        names   == {header.entries[i].key : i \in DOMAIN header.entries}
    IN  IF \/ ~header.magic
           \/ \E i \in DOMAIN header.entries :
                 /\ header.entries[i].value = Cut
                 /\ header.entries[i].kind # "string" \/ i < Len(header.entries)
        THEN Refused
        ELSE [k \in IF keys = {} THEN names ELSE names \intersect keys |->
                 Read(header.entries[last(k)], full, most)]

(* read_string_key: the first match ends the walk, unless it is exhaustive,
   which is what admission uses and what refuses an ambiguous header. *)
ReadStringKey(header, key, exhaustive) ==
    LET Walk(found, entry) ==
            CASE found = Refused                          -> Refused
              [] found # Refused /\ found # <<>> /\ ~exhaustive -> found
              [] OTHER ->
                   IF entry.value = Cut THEN Refused
                   ELSE IF entry.key # key THEN found
                   ELSE IF entry.kind # "string" THEN Refused
                   ELSE IF found \notin {<<>>, <<entry.value>>} THEN Refused
                   ELSE <<entry.value>>
        end == IF header.magic THEN FoldLeft(Walk, <<>>, header.entries) ELSE Refused
    IN  IF end \in {Refused, <<>>} THEN Refused ELSE end[1]

(* supports_prefix_reuse, over the classes of architectures: a name that says
   nothing is of none of them, and is refused as they are. *)
SupportsPrefixReuse(arch, recurrent, hybrid) ==
    /\ arch # Refused
    /\ Bare(arch) # <<>> /\ Bare(arch) \notin recurrent \union hybrid

(* model_content_digest: position, size and digest of each shard, never its
   name.  A file is [stem, total, bytes], the stem a sequence of words and the
   total 0 in a name that tells of no shards; `dir` the files in the order of
   their names.  The pattern asks for a name that begins with the stem, so a
   longer stem matches too. *)
ShardsOf(dir, first) ==
    IF first.total = 0 THEN <<first>>
    ELSE LET Globbed(f) == StartsWith(f.stem, first.stem) /\ f.total = first.total
         IN  FoldLeft(LAMBDA shards, f : IF Globbed(f) THEN Append(shards, f) ELSE shards,
                      <<>>, dir)

ModelContentDigest(shards) ==
    [i \in DOMAIN shards |-> [size |-> Len(shards[i].bytes), sha |-> shards[i].bytes]]

-----------------------------------------------------------------------------
(* ple_prefetch.rows_for_token: the row of a head is a function of the token
   and of the n - 1 before it, which the hash is taken to keep apart.  An end
   of text, or a missing predecessor, cuts all that is older. *)
Ngram(token, previous) ==
    LET Extend(ctx, s) ==
            LET t == IF ctx.cut \/ Len(previous) < s THEN Eos
                     ELSE previous[Len(previous) - s + 1]
                cut == ctx.cut \/ t < 0 \/ t = Eos
            IN  [cut |-> cut, seen |-> Append(ctx.seen, IF cut THEN Eos ELSE t)]
    IN  FoldLeft(Extend, [cut |-> FALSE, seen |-> <<token>>], [s \in 1..NGram - 1 |-> s]).seen

RowsForToken(token, previous) ==
    [n \in 1..NGram - 1 |-> SubSeq(Ngram(token, previous), 1, n + 1)]

RowsForSequence(tokens) ==
    [i \in DOMAIN tokens |->
        RowsForToken(tokens[i], SubSeq(tokens, Max({1, i - NGram + 1}), i - 1))]

(* pages_for_rows: the first and the last page of each row *)
PageOf(byte) == (byte \div Page) * Page

\* Mutant of PagesForRows: only the page a row begins in.
PagesOfFirstBytes(rows, table) ==
    IF \E r \in rows : r \notin 0..table.rows - 1 THEN Refused
    ELSE {PageOf(table.offset + r * table.width) : r \in rows}

PagesForRows(rows, table) ==
    IF \E r \in rows : r \notin 0..table.rows - 1 THEN Refused
    ELSE UNION {{PageOf(table.offset + r * table.width),
                 PageOf(table.offset + (r + 1) * table.width - 1)} : r \in rows}

(* coalesce: runs are <<offset, length>>.  The pages are taken in the order of
   their addresses, a page that was not asked for being passed over. *)
AddPage(pages, runs, p) ==
    LET last == Len(runs)
    IN  IF p \notin pages THEN runs
        ELSE IF last > 0 /\ runs[last][1] + runs[last][2] = p
        THEN [runs EXCEPT ![last] = <<@[1], @[2] + Page>>]
        ELSE Append(runs, <<p, Page>>)

Coalesce(pages) ==
    FoldLeft(LAMBDA runs, p : AddPage(pages, runs, p), <<>>,
             [i \in 1..Max(pages \union {0}) \div Page + 1 |-> (i - 1) * Page])

-----------------------------------------------------------------------------
(* What the quick read on the request path tells is what admission accepted:
   where the exhaustive read has an answer, the quick one has the same. *)
QuickReadAgrees(header, key) ==
    LET all == ReadStringKey(header, key, TRUE)
    IN  all # Refused =>
            /\ ReadStringKey(header, key, FALSE) = all
            /\ ReadMetadata(header, {key}, {}, 1)[key] = all

(* The pages asked for cover every byte of every row, no two runs touch, and
   no page is asked for twice.  A row may be at most one byte longer than a
   page: of a longer one the pages in the middle are not asked for. *)
RowsAreCovered(rows, table) ==
    table.width <= Page + 1 /\ PagesForRows(rows, table) # Refused =>
        LET runs == Coalesce(PagesForRows(rows, table))
            span(i) == runs[i][1] .. runs[i][1] + runs[i][2] - 1
        IN  /\ \A r \in rows :
                  table.offset + r * table.width .. table.offset + (r + 1) * table.width - 1
                      \subseteq UNION {span(i) : i \in DOMAIN runs}
            /\ \A i \in 1..Len(runs) - 1 : runs[i][1] + runs[i][2] < runs[i + 1][1]

(* What is read behind the end of a text does not depend on what stood before
   it: the rows of a prefix that holds an end of text are those of its two
   parts, so that a page list made for one part serves in every prompt. *)
TextsAreApart(before, after) ==
    RowsForSequence(before \o <<Eos>> \o after)
        = RowsForSequence(before \o <<Eos>>)
              \o SubSeq(RowsForSequence(<<Eos>> \o after), 2, Len(after) + 1)
=============================================================================
