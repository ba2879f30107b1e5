----------------------------- MODULE FormatProofs -----------------------------
(****************************************************************************)
(* More of what the decisions of Rules come to for every input: what the    *)
(* two readers of a header, of an appendix and of a prompt agree on, which  *)
(* pages and rows a table is read by, what the mappers between caches keep, *)
(* and how large a state is.                                                *)
(****************************************************************************)
EXTENDS RulesProofs, SequenceTheorems

-----------------------------------------------------------------------------
(* The header of a model file. *)
\* One entry of the walk of read_string_key.
WalksTo(found, entry, key, exhaustive) ==
    CASE found = None -> None
      [] found # None /\ found # <<>> /\ ~exhaustive -> found
      [] OTHER ->
           IF entry.value = None THEN None
           ELSE IF entry.key # key THEN found
           ELSE IF entry.kind # "string" THEN None
           ELSE IF found \notin {<<>>, <<entry.value>>} THEN None
           ELSE <<entry.value>>

\* What a walk may have found.
Findings(Values) == {None, <<>>} \union {<<v>> : v \in Values}

\* r is what the walk has found after each entry.
WalksUp(r, header, n, key, exhaustive, V) ==
    /\ r \in [0..n -> V]
    /\ r[0] = <<>>
    /\ Mf!ReadStringKey(header, key, exhaustive)
          = LET end == IF header.magic THEN r[n] ELSE None
            IN  IF end \in {None, <<>>} THEN None ELSE end[1]
    /\ \A i \in 1..n : r[i] = WalksTo(r[i - 1], header.entries[i], key, exhaustive)

(* read_string_key walks up the entries one by one. *)
LEMMA WalkRuns ==
    ASSUME NEW header, NEW n \in Nat, DOMAIN header.entries = 1..n,
           NEW key, NEW exhaustive \in BOOLEAN,
           NEW Values, \A i \in 1..n : header.entries[i].value \in Values
    PROVE  \E r : WalksUp(r, header, n, key, exhaustive, Findings(Values))
<1> DEFINE V == Findings(Values)
           W(v, e) == WalksTo(v, e, key, exhaustive)
           dir == header.entries
           g == [i \in 1..n |-> [v \in V |-> W(v, dir[i])]]
           Is(h) == h = [s \in SUBSET (1..n) |->
                            IF s = {} THEN << >> ELSE W(h[s \ {Max(s)}], dir[Max(s)])]
           h == CHOOSE h : Is(h)
<1>1. Mf!ReadStringKey(header, key, exhaustive)
          = LET end == IF header.magic THEN h[1..n] ELSE None
            IN  IF end \in {None, <<>>} THEN None ELSE end[1]
  BY DEF Mf!ReadStringKey, Mf!FoldLeft, Mf!MapThenFoldSet, WalksTo, Mf!Max, Max
<1>2. << >> \in V /\ \A i \in 1..n, v \in V : W(v, dir[i]) \in V
  <2>1. << >> \in V
    BY DEF Findings
  <2>2. ASSUME NEW i \in 1..n, NEW v \in V
        PROVE  W(v, dir[i]) \in V
    <3>1. W(v, dir[i]) \in {None, v, <<dir[i].value>>}
      BY DEF WalksTo
    <3>2. dir[i].value \in Values
      OBVIOUS
    <3> HIDE DEF W
    <3> QED
      BY <3>1, <3>2 DEF Findings
  <2> QED
    BY <2>1, <2>2
<1> HIDE DEF V
<1>3. g \in [1..n -> [V -> V]]
  BY <1>2
<1>4. \A i \in 1..n, v \in V : g[i][v] = W(v, dir[i])
  OBVIOUS
<1> HIDE DEF g
<1>5. PICK f : Folds(f, n, V, << >>, g)
  BY <1>2, <1>3, FoldExists
<1>6. \A s \in SUBSET (1..n) : s # {} =>
         s \ {Max(s)} \in SUBSET (1..n) /\ Max(s) \in 1..n
  BY LargestPlace
<1> HIDE DEF W
<1>7. Is(f)
  <2>1. ASSUME NEW s \in SUBSET (1..n)
        PROVE  f[s] = IF s = {} THEN << >> ELSE W(f[s \ {Max(s)}], dir[Max(s)])
    BY <1>4, <1>5, <1>6 DEF Folds
  <2>2. f = [s \in SUBSET (1..n) |-> f[s]]
    BY <1>5 DEF Folds
  <2> QED
    BY <2>1, <2>2
<1>8. Is(h)
  <2> HIDE DEF Is
  <2> QED
    BY <1>7
<1> HIDE DEF h
<1>9. Follows(h, n, V, << >>, g)
  BY <1>4, <1>6, <1>8 DEF Follows
<1> HIDE DEF Is
<1>10. PICK r : RunsTo(r, n, V, << >>, g, h[1..n])
  BY <1>5, <1>9, FoldsRun
<1>11. \A i \in 1..n : r[i] = W(r[i - 1], dir[i])
  BY <1>4, <1>10 DEF RunsTo
<1>12. r \in [0..n -> V] /\ r[0] = << >> /\ r[n] = h[1..n]
  BY <1>10 DEF RunsTo
<1> HIDE DEF h
<1> QED
  BY <1>1, <1>11, <1>12 DEF V, W, WalksUp

\* The entries of a header: None is what the end of the file cuts off.
Entered(header) ==
    /\ header.entries \in Seq(Range(header.entries))
    /\ None # <<>>
    /\ \A e \in Range(header.entries) : None # <<e.value>>

\* As long as an exhaustive walk is not refused, what it has found is all there was.
FoundAll(header, key, r, i) ==
    r[i] # None =>
        /\ \A j \in 1..i :
              /\ header.entries[j].value # None
              /\ header.entries[j].key = key =>
                    header.entries[j].kind = "string" /\ r[i] = <<header.entries[j].value>>
        /\ (\A j \in 1..i : header.entries[j].key # key) => r[i] = <<>>

(* What an exhaustive walk has found is all the entries say of the key. *)
LEMMA WalkFindsAll ==
    ASSUME NEW header, NEW key, Entered(header), NEW r, NEW V,
           NEW n \in Nat, DOMAIN header.entries = 1..n,
           WalksUp(r, header, n, key, TRUE, V), NEW i \in 0..n
    PROVE  FoundAll(header, key, r, i)
<1> DEFINE G == {k \in 0..n : FoundAll(header, key, r, k)}
           dir == header.entries
<1>1. 0 \in G
  <2>1. r[0] = <<>>
    BY DEF WalksUp
  <2> QED
    BY <2>1 DEF FoundAll
<1>2. ASSUME NEW k \in 1..n, k - 1 \in G
      PROVE  k \in G
  <2> DEFINE e == dir[k]
             x == r[k - 1]
             y == r[k]
  <2>1. y = WalksTo(x, e, key, TRUE) /\ FoundAll(header, key, r, k - 1)
    BY <1>2 DEF WalksUp
  <2>2. <<e.value>> # <<>> /\ None # <<>> /\ None # <<e.value>>
    <3>1. e \in Range(dir)
      BY DEF Range
    <3> QED
      BY <3>1 DEF Entered
  <2> SUFFICES ASSUME y # None PROVE FoundAll(header, key, r, k)
    BY DEF FoundAll
  <2>3. x # None /\ e.value # None
    BY <2>1 DEF WalksTo
  <2>4. /\ \A j \in 1..k - 1 :
              /\ dir[j].value # None
              /\ dir[j].key = key => dir[j].kind = "string" /\ x = <<dir[j].value>>
        /\ (\A j \in 1..k - 1 : dir[j].key # key) => x = <<>>
    BY <2>1, <2>3 DEF FoundAll
  <2>5. \A j \in 1..k : j = k \/ j \in 1..k - 1
    OBVIOUS
  <2>6. CASE e.key # key
    <3>1. y = x
      BY <2>1, <2>3, <2>6 DEF WalksTo
    <3> HIDE DEF x, y, G
    <3>2. \A j \in 1..k :
              /\ dir[j].value # None
              /\ dir[j].key = key => dir[j].kind = "string" /\ y = <<dir[j].value>>
      BY <2>3, <2>4, <2>5, <2>6, <3>1
    <3>3. (\A j \in 1..k : dir[j].key # key) => y = <<>>
      <4>1. \A j \in 1..k - 1 : j \in 1..k
        OBVIOUS
      <4> QED
        BY <2>4, <3>1, <4>1
    <3> QED
      BY <3>2, <3>3 DEF FoundAll, y
  <2>7. CASE e.key = key
    <3>1. e.kind = "string" /\ x \in {<<>>, <<e.value>>} /\ y = <<e.value>>
      BY <2>1, <2>2, <2>3, <2>7 DEF WalksTo
    <3>2. ASSUME NEW j \in 1..k - 1, dir[j].key = key
          PROVE  <<dir[j].value>> = <<e.value>>
      <4>1. x = <<dir[j].value>>
        BY <2>4, <3>2
      <4>2. <<dir[j].value>> # <<>>
        OBVIOUS
      <4> HIDE DEF x, e
      <4> QED
        BY <3>1, <4>1, <4>2
    <3> HIDE DEF x, y, G
    <3>3. \A j \in 1..k :
              /\ dir[j].value # None
              /\ dir[j].key = key => dir[j].kind = "string" /\ y = <<dir[j].value>>
      BY <2>3, <2>4, <2>5, <3>1, <3>2
    <3>4. ~(\A j \in 1..k : dir[j].key # key)
      <4>1. k \in 1..k
        OBVIOUS
      <4> QED
        BY <2>7, <4>1
    <3> QED
      BY <3>3, <3>4 DEF FoundAll, y
  <2> QED
    BY <2>6, <2>7
<1> QED
  <2> HIDE DEF G
  <2>1. \A k \in 1..n : k - 1 \in G => k \in G
    BY <1>2
  <2>2. \A k \in 0..n : k \in G
    BY <1>1, <2>1, UpTo
  <2> QED
    BY <2>2 DEF G

\* Every entry of the key says one thing, and there is one.
SaysOne(header, n, key, v) ==
    /\ \A j \in 1..n : /\ header.entries[j].value # None
                       /\ header.entries[j].key = key =>
                             header.entries[j].kind = "string" /\ header.entries[j].value = v
    /\ \E j \in 1..n : header.entries[j].key = key

\* The quick walk finds that.
LEMMA QuickWalkFinds ==
    ASSUME NEW header, NEW key, Entered(header), NEW q, NEW V, NEW v, NEW one, one = <<v>>, None # one,
           NEW n \in Nat, DOMAIN header.entries = 1..n,
           WalksUp(q, header, n, key, FALSE, V), SaysOne(header, n, key, v)
    PROVE  q[n] = one
<1> DEFINE dir == header.entries
           Finds(k) == q[k] = IF \E j \in 1..k : dir[j].key = key THEN <<v>> ELSE <<>>
           G == {k \in 0..n : Finds(k)}
<1>1. 0 \in G
  <2>1. q[0] = <<>> /\ ~\E j \in 1..0 : dir[j].key = key
    BY DEF WalksUp
  <2> QED
    BY <2>1
<1>2. ASSUME NEW k \in 1..n, k - 1 \in G
      PROVE  k \in G
  <2> DEFINE e == dir[k]
             x == q[k - 1]
             y == q[k]
  <2>1. y = WalksTo(x, e, key, FALSE) /\ Finds(k - 1)
    BY <1>2 DEF WalksUp
  <2>2. <<v>> # <<>> /\ None # <<>> /\ None # <<v>>
    BY DEF Entered
  <2>3. e.value # None /\ (e.key = key => e.kind = "string" /\ e.value = v)
    BY DEF SaysOne
  <2>4. CASE \E j \in 1..k - 1 : dir[j].key = key
    <3>1. x = <<v>>
      BY <2>1, <2>4
    <3>2. y = <<v>>
      <4> HIDE DEF x, y, e, G
      <4> QED
        BY <2>1, <2>2, <3>1 DEF WalksTo
    <3>3. \E j \in 1..k : dir[j].key = key
      BY <2>4
    <3> QED
      BY <3>2, <3>3
  <2>5. CASE ~\E j \in 1..k - 1 : dir[j].key = key
    <3>1. x = <<>>
      BY <2>1, <2>5
    <3>2. y = IF e.key = key THEN <<v>> ELSE <<>>
      <4> HIDE DEF x, y, e, G, dir
      <4> QED
        BY <2>1, <2>2, <2>3, <3>1 DEF WalksTo
    <3>3. (\E j \in 1..k : dir[j].key = key) <=> e.key = key
      <4>1. \A j \in 1..k : j = k \/ j \in 1..k - 1
        OBVIOUS
      <4>2. k \in 1..k
        OBVIOUS
      <4> HIDE DEF dir, G
      <4> QED
        BY <2>5, <4>1, <4>2
    <3> HIDE DEF x, y, e
    <3>4. Finds(k)
      BY <3>2, <3>3 DEF y
    <3> QED
      BY <3>4
  <2> QED
    BY <2>4, <2>5
<1> QED
  <2> HIDE DEF G
  <2>1. \A k \in 1..n : k - 1 \in G => k \in G
    BY <1>2
  <2>2. \A k \in 0..n : k \in G
    BY <1>1, <2>1, UpTo
  <2>3. n \in 0..n
    OBVIOUS
  <2>4. Finds(n)
    BY <2>2, <2>3 DEF G
  <2> QED
    BY <2>4 DEF SaysOne

\* What admission accepted is what the request path reads.
LEMMA QuickReadsAgree ==
    ASSUME NEW header, NEW key, Entered(header),
           Mf!ReadStringKey(header, key, TRUE) # None
    PROVE  LET all == Mf!ReadStringKey(header, key, TRUE)
           IN  /\ Mf!ReadStringKey(header, key, FALSE) = all
               /\ Mf!ReadMetadata(header, {key}, {}, 1)[key] = all
<1> DEFINE dir == header.entries
           n   == Len(dir)
           all == Mf!ReadStringKey(header, key, TRUE)
           Values == {e.value : e \in Range(dir)}
<1>1. n \in Nat /\ DOMAIN dir = 1..n /\ \A i \in 1..n : dir[i].value \in Values
  <2>1. dir \in Seq(Range(dir))
    BY DEF Entered
  <2>2. n \in Nat /\ DOMAIN dir = 1..n
    BY <2>1
  <2>3. \A i \in 1..n : dir[i] \in Range(dir)
    BY <2>2 DEF Range
  <2> QED
    BY <2>2, <2>3
<1> HIDE DEF n, Values
<1>2. PICK r : WalksUp(r, header, n, key, TRUE, Findings(Values))
  BY <1>1, WalkRuns
<1>3. PICK q : WalksUp(q, header, n, key, FALSE, Findings(Values))
  BY <1>1, WalkRuns
<1>4. header.magic /\ r[n] \notin {None, <<>>} /\ all = r[n][1]
  BY <1>2 DEF WalksUp
<1>5. FoundAll(header, key, r, n)
  <2>1. n \in 0..n
    BY <1>1
  <2> QED
    BY <1>1, <1>2, <2>1, WalkFindsAll
<1>6. /\ \A j \in 1..n : /\ dir[j].value # None
                         /\ dir[j].key = key => dir[j].kind = "string" /\ r[n] = <<dir[j].value>>
      /\ (\A j \in 1..n : dir[j].key # key) => r[n] = <<>>
  BY <1>4, <1>5 DEF FoundAll
<1>7. PICK w \in 1..n : dir[w].key = key
  BY <1>4, <1>6
<1>8. r[n] = <<all>> /\ None # <<all>>
  <2>1. r[n] = <<dir[w].value>> /\ dir[w] \in Range(dir)
    BY <1>1, <1>6, <1>7 DEF Range
  <2> HIDE DEF all
  <2>2. all = dir[w].value
    <3> DEFINE x == dir[w].value
    <3> HIDE DEF x
    <3>1. r[n] = <<x>> /\ all = r[n][1]
      BY <1>4, <2>1 DEF x
    <3>2. <<x>>[1] = x
      OBVIOUS
    <3>3. all = x
      BY <3>1, <3>2, Zenon
    <3> QED
      BY <3>3 DEF x
  <2> QED
    BY <2>1, <2>2 DEF Entered
<1>9. \A j \in 1..n : /\ dir[j].value # None
                      /\ dir[j].key = key => dir[j].kind = "string" /\ dir[j].value = all
  <2> HIDE DEF all
  <2>1. ASSUME NEW j \in 1..n, dir[j].key = key
        PROVE  dir[j].value = all
    <3>1. <<dir[j].value>> = <<all>>
      BY <1>6, <1>8, <2>1
    <3> QED
      BY <3>1
  <2> QED
    BY <1>6, <2>1
<1> HIDE DEF all
<1>10. q[n] = <<all>>
  <2>1. SaysOne(header, n, key, all)
    BY <1>7, <1>9 DEF SaysOne
  <2> DEFINE V == Findings(Values)
  <2>2. WalksUp(q, header, n, key, FALSE, V)
    BY <1>3
  <2>3. n \in Nat /\ DOMAIN header.entries = 1..n /\ None # <<all>>
    BY <1>1, <1>8
  <2> DEFINE one == <<all>>
  <2>4. one = <<all>> /\ None # one
    BY <2>3
  <2> HIDE DEF V, dir, one
  <2>5. q[n] = one
    BY <2>1, <2>2, <2>3, <2>4, QuickWalkFinds
  <2> QED
    BY <2>5 DEF one
<1>11. Mf!ReadStringKey(header, key, FALSE) = all
  <2>1. Mf!ReadStringKey(header, key, FALSE)
          = LET end == IF header.magic THEN q[n] ELSE None
            IN  IF end \in {None, <<>>} THEN None ELSE end[1]
    BY <1>3 DEF WalksUp
  <2>2. <<all>> \notin {None, <<>>} /\ <<all>>[1] = all
    BY <1>8
  <2> QED
    BY <1>4, <1>10, <2>1, <2>2
<1> DEFINE I == {i \in DOMAIN dir : dir[i].key = key}
           m == Max(I)
<1>12. m \in I
  <2>1. w \in I /\ I \subseteq 1..n
    BY <1>1, <1>7
  <2> HIDE DEF I
  <2> QED
    BY <1>1, <2>1, LargestPlace
<1>13. Mf!ReadMetadata(header, {key}, {}, 1)[key] = Mf!Read(dir[m], {}, 1)
  <2>1. ~\E i \in DOMAIN dir : /\ dir[i].value = None
                               /\ dir[i].kind # "string" \/ i < Len(dir)
    BY <1>1, <1>9
  <2>2. key \in {dir[i].key : i \in DOMAIN dir} \intersect {key} /\ {key} # {}
    BY <1>1, <1>7
  <2> DEFINE M == [k \in {dir[i].key : i \in DOMAIN dir} \intersect {key} |->
                      Mf!Read(dir[Max({i \in DOMAIN dir : dir[i].key = k})], {}, 1)]
  <2>3. Mf!ReadMetadata(header, {key}, {}, 1) = M
    BY <1>4, <2>1, <2>2 DEF Mf!ReadMetadata, Mf!Max, Max
  <2>4. M[key] = Mf!Read(dir[m], {}, 1)
    BY <2>2
  <2> QED
    BY <2>3, <2>4
<1>14. Mf!Read(dir[m], {}, 1) = all
  <2>1. m \in 1..n /\ dir[m].key = key
    BY <1>1, <1>12
  <2>2. dir[m].kind = "string" /\ dir[m].value = all
    BY <1>9, <2>1
  <2> HIDE DEF m
  <2> QED
    BY <2>2 DEF Mf!Read
<1> QED
  BY <1>11, <1>13, <1>14 DEF all

-----------------------------------------------------------------------------
(* The appendix of a state. *)
\* How far an appendix has been measured.
Says == {"reading", "truncated", "malformed"}

Walk == [at : Int, total : Int, says : Says]

Measurable(c) == c.target \in Nat /\ c.dft \in Nat /\ c.spec \in Nat

\* A buffer more: the walk goes on just behind it, or is at an end.
LEMMA MeasuresOne ==
    ASSUME NEW w \in Walk, NEW length \in Nat, NEW size \in Int
    PROVE  /\ Sz!Measure(w, length, size) \in Walk
           /\ Sz!Measure(w, length, size).says = "reading" =>
                 /\ w.says = "reading"
                 /\ Sz!Measure(w, length, size).at = w.at + 8 + length
<1> DEFINE m == Sz!Measure(w, length, size)
<1>1. w.at \in Int /\ w.total \in Int /\ w.says \in Says
  BY DEF Walk
<1>2. CASE w.says # "reading"
  <2>1. m = w
    BY <1>2 DEF Sz!Measure
  <2> HIDE DEF m
  <2> QED
    BY <1>2, <2>1 DEF m
<1>3. CASE w.says = "reading"
  <2> DEFINE n == w.at + 8 + length
             cut == [w EXCEPT !.says = "truncated"]
             bad == [w EXCEPT !.says = "malformed"]
             on == [at |-> n, total |-> w.total + length,
                    says |-> IF n > size THEN "truncated" ELSE "reading"]
  <2>1. m \in {cut, bad, on}
    BY <1>3 DEF Sz!Measure
  <2>2. cut \in Walk /\ cut.says = "truncated" /\ bad \in Walk /\ bad.says = "malformed"
    BY <1>1 DEF Walk, Says
  <2>3. on \in Walk /\ on.at = n
    BY <1>1 DEF Walk, Says
  <2> HIDE DEF m, cut, bad, on
  <2> QED
    BY <1>3, <2>1, <2>2, <2>3 DEF m
<1> QED
  BY <1>2, <1>3

\* A record is its extents and three buffers, one measured behind the other.
LEMMA RecordInThree ==
    ASSUME NEW w \in Walk, NEW c, Measurable(c), NEW size \in Int
    PROVE  /\ w.says # "reading" => Sz!MeasureRecord(w, c, size) = w
           /\ w.says = "reading" =>
                 Sz!MeasureRecord(w, c, size) =
                    IF w.at + 16 > size THEN [w EXCEPT !.says = "truncated"]
                    ELSE IF Sz!BadExtent(c) THEN [w EXCEPT !.says = "malformed"]
                    ELSE Sz!Measure(Sz!Measure(Sz!Measure([w EXCEPT !.at = w.at + 16], c.target, size),
                                               c.dft, size), c.spec, size)
<1> DEFINE m == Sz!MeasureRecord(w, c, size)
           lengths == <<c.target, c.dft, c.spec>>
           base == [w EXCEPT !.at = @ + 16]
           M(v, l) == Sz!Measure(v, l, size)
           g == [i \in 1..3 |-> [v \in Walk |-> M(v, lengths[i])]]
           Is(h) == h = [s \in SUBSET (1..3) |->
                            IF s = {} THEN base ELSE M(h[s \ {Max(s)}], lengths[Max(s)])]
           h == CHOOSE h : Is(h)
           cut == [w EXCEPT !.says = "truncated"]
           bad == [w EXCEPT !.says = "malformed"]
<1>1. w.at \in Int /\ w.total \in Int /\ w.says \in Says
  BY DEF Walk
<1>2. base \in Walk /\ base = [w EXCEPT !.at = w.at + 16]
  BY <1>1 DEF Walk, Says
<1>3. DOMAIN lengths = 1..3 /\ lengths[1] = c.target /\ lengths[2] = c.dft /\ lengths[3] = c.spec
  OBVIOUS
<1>4. \A i \in 1..3 : lengths[i] \in Nat
  BY <1>3 DEF Measurable
<1>5. w.says = "reading" => m = IF w.at + 16 > size THEN cut
                                ELSE IF Sz!BadExtent(c) THEN bad ELSE h[1..3]
  BY <1>3 DEF Sz!MeasureRecord, Sz!FoldLeft, Sz!MapThenFoldSet, Sz!Max, Max
<1>6. w.says # "reading" => m = w
  BY DEF Sz!MeasureRecord
<1> HIDE DEF base, cut, bad, lengths
<1>7. \A i \in 1..3, v \in Walk : M(v, lengths[i]) \in Walk
  BY <1>4, MeasuresOne
<1> HIDE DEF M, m
<1>8. g \in [1..3 -> [Walk -> Walk]]
  BY <1>7
<1>9. \A i \in 1..3, v \in Walk : g[i][v] = M(v, lengths[i])
  OBVIOUS
<1> HIDE DEF g
<1>10. PICK f : Folds(f, 3, Walk, base, g)
  BY <1>2, <1>8, FoldExists
<1>11. \A s \in SUBSET (1..3) : s # {} =>
         s \ {Max(s)} \in SUBSET (1..3) /\ Max(s) \in 1..3
  BY LargestPlace
<1>12. Is(f)
  <2>1. ASSUME NEW s \in SUBSET (1..3)
        PROVE  f[s] = IF s = {} THEN base ELSE M(f[s \ {Max(s)}], lengths[Max(s)])
    BY <1>9, <1>10, <1>11 DEF Folds
  <2>2. f = [s \in SUBSET (1..3) |-> f[s]]
    BY <1>10 DEF Folds
  <2> QED
    BY <2>1, <2>2
<1>13. Is(h)
  <2> HIDE DEF Is
  <2> QED
    BY <1>12
<1> HIDE DEF h
<1>14. Follows(h, 3, Walk, base, g)
  BY <1>9, <1>11, <1>13 DEF Follows
<1> HIDE DEF Is
<1>15. PICK r : RunsTo(r, 3, Walk, base, g, h[1..3])
  BY <1>10, <1>14, FoldsRun
<1>16. /\ r[0] = base /\ r[3] = h[1..3]
       /\ r[0] \in Walk /\ r[1] \in Walk /\ r[2] \in Walk /\ r[3] \in Walk
  BY <1>15 DEF RunsTo
<1>17. /\ r[1] = M(r[0], lengths[1]) /\ r[2] = M(r[1], lengths[2])
       /\ r[3] = M(r[2], lengths[3])
  <2>1. \A i \in 1..3 : r[i] = g[i][r[i - 1]]
    BY <1>15 DEF RunsTo
  <2>2. 1 \in 1..3 /\ 2 \in 1..3 /\ 3 \in 1..3 /\ 1 - 1 = 0 /\ 2 - 1 = 1 /\ 3 - 1 = 2
    OBVIOUS
  <2>3. r[1] = g[1][r[0]] /\ r[2] = g[2][r[1]] /\ r[3] = g[3][r[2]]
    BY <2>1, <2>2
  <2> QED
    BY <1>9, <1>16, <2>2, <2>3
<1>18. h[1..3] = M(M(M(base, c.target), c.dft), c.spec)
  BY <1>3, <1>16, <1>17
<1> HIDE DEF h
<1> QED
  BY <1>2, <1>5, <1>6, <1>18 DEF m, M, cut, bad

\* A record more.
LEMMA MeasuresRecord ==
    ASSUME NEW w \in Walk, NEW c, Measurable(c), NEW size \in Int
    PROVE  /\ Sz!MeasureRecord(w, c, size) \in Walk
           /\ Sz!MeasureRecord(w, c, size).says = "reading" =>
                 /\ w.says = "reading"
                 /\ Sz!MeasureRecord(w, c, size).at = w.at + 40 + c.target + c.dft + c.spec
<1> DEFINE m == Sz!MeasureRecord(w, c, size)
           base == [w EXCEPT !.at = w.at + 16]
           one == Sz!Measure(base, c.target, size)
           two == Sz!Measure(one, c.dft, size)
           three == Sz!Measure(two, c.spec, size)
           cut == [w EXCEPT !.says = "truncated"]
           bad == [w EXCEPT !.says = "malformed"]
<1>1. w.at \in Int /\ w.total \in Int /\ w.says \in Says
  BY DEF Walk
<1>2. /\ base \in Walk /\ base.says = w.says /\ base.at = w.at + 16
      /\ cut \in Walk /\ cut.says = "truncated" /\ bad \in Walk /\ bad.says = "malformed"
  BY <1>1 DEF Walk, Says
<1>3. c.target \in Nat /\ c.dft \in Nat /\ c.spec \in Nat
  BY DEF Measurable
<1>4. /\ w.says # "reading" => m = w
      /\ w.says = "reading" => m \in {cut, bad, three}
  <2>1. /\ w.says # "reading" => m = w
        /\ w.says = "reading" => m = IF w.at + 16 > size THEN cut
                                     ELSE IF Sz!BadExtent(c) THEN bad ELSE three
    BY RecordInThree
  <2> HIDE DEF m, cut, bad, three
  <2> QED
    BY <2>1
<1> HIDE DEF m, base, cut, bad
<1>5. /\ one \in Walk
      /\ one.says = "reading" => base.says = "reading" /\ one.at = base.at + 8 + c.target
  BY <1>2, <1>3, MeasuresOne
<1> HIDE DEF one
<1>6. /\ two \in Walk
      /\ two.says = "reading" => one.says = "reading" /\ two.at = one.at + 8 + c.dft
  BY <1>3, <1>5, MeasuresOne
<1> HIDE DEF two
<1>7. /\ three \in Walk
      /\ three.says = "reading" => two.says = "reading" /\ three.at = two.at + 8 + c.spec
  BY <1>3, <1>6, MeasuresOne
<1> HIDE DEF three
<1>8. three.says = "reading" => w.says = "reading" /\ three.at = w.at + 40 + c.target + c.dft + c.spec
  BY <1>1, <1>2, <1>3, <1>5, <1>6, <1>7
<1> QED
  BY <1>2, <1>4, <1>7, <1>8 DEF m

\* A buffer that fits is passed over.
LEMMA MeasuresOneOn ==
    ASSUME NEW w \in Walk, w.says = "reading", NEW length \in Nat, NEW size \in Int,
           length <= 2^20, w.total + length <= 2^22, w.at + 8 + length <= size
    PROVE  Sz!Measure(w, length, size) = [at |-> w.at + 8 + length, total |-> w.total + length,
                                          says |-> "reading"]
<1>1. w.at \in Int /\ w.total \in Int
  BY DEF Walk
<1>2. ~(w.at + 8 > size) /\ ~(length > 2^20 \/ w.total + length > 2^22) /\ ~(w.at + 8 + length > size)
  BY <1>1
<1> QED
  BY <1>2 DEF Sz!Measure

\* And so is a record of one buffer.
LEMMA MeasuresRecordOn ==
    ASSUME NEW w \in Walk, w.says = "reading", NEW c, c.target \in Nat, c.dft = 0, c.spec = 0,
           ~Sz!BadExtent(c), NEW size \in Int, c.target <= 2^20, w.total + c.target <= 2^22,
           w.at + 40 + c.target <= size
    PROVE  Sz!MeasureRecord(w, c, size) = [at |-> w.at + 40 + c.target, total |-> w.total + c.target,
                                           says |-> "reading"]
<1> DEFINE m == Sz!MeasureRecord(w, c, size)
           x == c.target
           base == [w EXCEPT !.at = w.at + 16]
           read(at, total) == [at |-> at, total |-> total, says |-> "reading"]
           one == read(w.at + 24 + x, w.total + x)
           two == read(w.at + 32 + x, w.total + x)
           three == read(w.at + 40 + x, w.total + x)
<1>1. w.at \in Int /\ w.total \in Int /\ w.says \in Says /\ x \in Nat
  BY DEF Walk
<1>2. /\ base \in Walk /\ base.says = "reading" /\ base.at = w.at + 16 /\ base.total = w.total
      /\ one \in Walk /\ two \in Walk
  BY <1>1 DEF Walk, Says
<1>3. m = Sz!Measure(Sz!Measure(Sz!Measure(base, x, size), 0, size), 0, size)
  <2>1. Measurable(c)
    BY DEF Measurable
  <2>2. ~(w.at + 16 > size)
    BY <1>1
  <2> QED
    BY <2>1, <2>2, RecordInThree
<1> HIDE DEF m, base
<1>4. Sz!Measure(base, x, size) = one
  <2>1. base.total + x <= 2^22 /\ base.at + 8 + x <= size
    BY <1>1, <1>2
  <2> HIDE DEF x
  <2>2. Sz!Measure(base, x, size) = [at |-> base.at + 8 + x, total |-> base.total + x, says |-> "reading"]
    BY <1>1, <1>2, <2>1, MeasuresOneOn DEF x
  <2>3. base.at + 8 + x = w.at + 24 + x
    BY <1>1, <1>2
  <2> QED
    BY <1>2, <2>2, <2>3
<1>5. Sz!Measure(one, 0, size) = two
  <2>1. one.says = "reading" /\ one.at = w.at + 24 + x /\ one.total = w.total + x
    OBVIOUS
  <2> HIDE DEF one, x
  <2>2. one.total + 0 <= 2^22 /\ one.at + 8 + 0 <= size /\ 0 <= 2^20
    BY <1>1, <2>1 DEF x
  <2>3. Sz!Measure(one, 0, size) = [at |-> one.at + 8 + 0, total |-> one.total + 0, says |-> "reading"]
    BY <1>2, <2>1, <2>2, MeasuresOneOn
  <2>4. one.at + 8 + 0 = w.at + 32 + x /\ one.total + 0 = w.total + x
    BY <1>1, <2>1
  <2> QED
    BY <2>3, <2>4
<1>6. Sz!Measure(two, 0, size) = three
  <2>1. two.says = "reading" /\ two.at = w.at + 32 + x /\ two.total = w.total + x
    OBVIOUS
  <2> HIDE DEF two, x
  <2>2. two.total + 0 <= 2^22 /\ two.at + 8 + 0 <= size /\ 0 <= 2^20
    BY <1>1, <2>1 DEF x
  <2>3. Sz!Measure(two, 0, size) = [at |-> two.at + 8 + 0, total |-> two.total + 0, says |-> "reading"]
    BY <1>2, <2>1, <2>2, MeasuresOneOn
  <2>4. two.at + 8 + 0 = w.at + 40 + x /\ two.total + 0 = w.total + x
    BY <1>1, <2>1
  <2> QED
    BY <2>3, <2>4
<1> HIDE DEF one, two, three
<1> QED
  BY <1>3, <1>4, <1>5, <1>6 DEF three, m

\* r is how far the records have been measured, one after another.
MeasuresUp(r, a, s, n, start, size) ==
    /\ r \in [0..n -> Walk]
    /\ r[0] = [at |-> start + 12, total |-> 0, says |-> "reading"]
    /\ r[n] = Sz!MeasureRecords(a, start, size)
    /\ Sz!ParseStream(a, start, size) = "ok" => r[n].says = "reading" /\ r[n].at = size
    /\ \A i \in 1..n : r[i] = Sz!MeasureRecord(r[i - 1], s[i], size)

Counted(a) == SubSeq(a.records, 1, Sz!Min({a.count, Len(a.records)}))

Recorded(a) ==
    /\ a.records \in Seq(Range(a.records)) /\ a.count \in Nat
    /\ \A c \in Range(a.records) : Measurable(c)

(* The records that are read are records. *)
LEMMA CountedAre ==
    ASSUME NEW a, Recorded(a)
    PROVE  \E n \in Nat : /\ DOMAIN Counted(a) = 1..n
                          /\ \A i \in 1..n : Measurable(Counted(a)[i])
<1> DEFINE k == Sz!Min({a.count, Len(a.records)})
           S == Range(a.records)
<1>1. a.records \in Seq(S) /\ Len(a.records) \in Nat /\ a.count \in Nat
      /\ \A c \in S : Measurable(c)
  BY DEF Recorded
<1>2. k \in Nat /\ k <= Len(a.records)
  <2>1. \E x \in {a.count, Len(a.records)} : \A y \in {a.count, Len(a.records)} : x <= y
    BY <1>1
  <2> QED
    BY <1>1, <2>1 DEF Sz!Min
<1> HIDE DEF k, S
<1> DEFINE t == SubSeq(a.records, 1, k)
<1>3. DOMAIN t = 1..k /\ \A i \in 1..k : t[i] = a.records[i] /\ a.records[i] \in S
  BY <1>1, <1>2
<1>4. Counted(a) = t
  BY DEF Counted, k
<1> HIDE DEF t
<1> QED
  BY <1>1, <1>2, <1>3, <1>4

(* _parse_stream measures one record after another. *)
LEMMA StreamRuns ==
    ASSUME NEW a, Recorded(a), NEW start \in Int, NEW size \in Int,
           NEW n \in Nat, DOMAIN Counted(a) = 1..n, \A i \in 1..n : Measurable(Counted(a)[i])
    PROVE  \E r : MeasuresUp(r, a, Counted(a), n, start, size)
<1> DEFINE s == Counted(a)
           base == [at |-> start + 12, total |-> 0, says |-> "reading"]
           M(v, c) == Sz!MeasureRecord(v, c, size)
           g == [i \in 1..n |-> [v \in Walk |-> M(v, s[i])]]
           Is(h) == h = [u \in SUBSET (1..n) |->
                            IF u = {} THEN base ELSE M(h[u \ {Max(u)}], s[Max(u)])]
           h == CHOOSE h : Is(h)
           says == Sz!ParseStream(a, start, size)
           walked == h[1..n]
<1>1. Sz!MeasureRecords(a, start, size) = walked
  BY DEF Sz!MeasureRecords, Sz!FoldLeft, Sz!MapThenFoldSet, Sz!Max, Max, Counted
<1>20. says = "ok" => walked.says = "ok" \/ (walked.says = "reading" /\ walked.at = size)
  <2> DEFINE ended == IF a.count > Len(a.records) THEN "truncated"
                      ELSE IF walked.at = size THEN "ok" ELSE "none"
  <2> HIDE DEF walked
  <2>2. says \in {"truncated", "none", "unknown_version", "malformed"}
        \/ says = IF walked.says = "reading" THEN ended ELSE walked.says
    BY <1>1 DEF Sz!ParseStream
  <2> HIDE DEF says
  <2> QED
    BY <2>2
<1>2. base \in Walk
  BY DEF Walk, Says
<1> HIDE DEF base, says
<1>7. \A i \in 1..n, v \in Walk : M(v, s[i]) \in Walk
  BY MeasuresRecord
<1> HIDE DEF M, s
<1>8. g \in [1..n -> [Walk -> Walk]]
  BY <1>7
<1>9. \A i \in 1..n, v \in Walk : g[i][v] = M(v, s[i])
  OBVIOUS
<1> HIDE DEF g
<1>10. PICK f : Folds(f, n, Walk, base, g)
  BY <1>2, <1>8, FoldExists
<1>11. \A u \in SUBSET (1..n) : u # {} =>
         u \ {Max(u)} \in SUBSET (1..n) /\ Max(u) \in 1..n
  BY LargestPlace
<1>12. Is(f)
  <2>1. ASSUME NEW u \in SUBSET (1..n)
        PROVE  f[u] = IF u = {} THEN base ELSE M(f[u \ {Max(u)}], s[Max(u)])
    BY <1>9, <1>10, <1>11 DEF Folds
  <2>2. f = [u \in SUBSET (1..n) |-> f[u]]
    BY <1>10 DEF Folds
  <2> QED
    BY <2>1, <2>2
<1>13. Is(h)
  <2> HIDE DEF Is
  <2> QED
    BY <1>12
<1> HIDE DEF h
<1>14. Follows(h, n, Walk, base, g)
  BY <1>9, <1>11, <1>13 DEF Follows
<1> HIDE DEF Is
<1>15. PICK r : RunsTo(r, n, Walk, base, g, h[1..n])
  BY <1>10, <1>14, FoldsRun
<1>16. r \in [0..n -> Walk] /\ r[0] = base /\ r[n] = h[1..n]
  BY <1>15 DEF RunsTo
<1>17. \A i \in 1..n : r[i] = M(r[i - 1], s[i])
  BY <1>9, <1>15 DEF RunsTo
<1>18. walked = r[n] /\ r[n].says # "ok"
  <2>1. r[n] \in Walk
    BY <1>16
  <2> HIDE DEF h
  <2> QED
    BY <1>16, <2>1 DEF Walk, Says
<1> HIDE DEF h, walked
<1>19. says = "ok" => r[n].says = "reading" /\ r[n].at = size
  BY <1>18, <1>20
<1>21. r[n] = Sz!MeasureRecords(a, start, size)
  BY <1>1, <1>18
<1> QED
  BY <1>16, <1>17, <1>19, <1>21 DEF MeasuresUp, base, says, M, s

\* Two sizes of a file in which the same appendix ends are one.
LEMMA StreamEndsOnce ==
    ASSUME NEW a, Recorded(a), NEW start \in Int, NEW one \in Int, NEW other \in Int,
           Sz!ParseStream(a, start, one) = "ok", Sz!ParseStream(a, start, other) = "ok"
    PROVE  one = other
<1>1. PICK n \in Nat : DOMAIN Counted(a) = 1..n /\ \A i \in 1..n : Measurable(Counted(a)[i])
  BY CountedAre
<1>2. PICK r : MeasuresUp(r, a, Counted(a), n, start, one)
  BY <1>1, StreamRuns
<1>3. PICK q : MeasuresUp(q, a, Counted(a), n, start, other)
  BY <1>1, StreamRuns
<1> DEFINE s == Counted(a)
           G == {i \in 0..n : r[i].says = "reading" /\ q[i].says = "reading" => r[i].at = q[i].at}
<1>4. 0 \in G
  BY <1>2, <1>3 DEF MeasuresUp
<1>5. ASSUME NEW i \in 1..n, i - 1 \in G
      PROVE  i \in G
  <2>1. /\ r[i - 1] \in Walk /\ r[i] = Sz!MeasureRecord(r[i - 1], s[i], one)
        /\ q[i - 1] \in Walk /\ q[i] = Sz!MeasureRecord(q[i - 1], s[i], other)
    BY <1>2, <1>3 DEF MeasuresUp
  <2>2. Measurable(s[i])
    BY <1>1
  <2> DEFINE more == 40 + s[i].target + s[i].dft + s[i].spec
  <2>3. r[i].says = "reading" => r[i - 1].says = "reading" /\ r[i].at = r[i - 1].at + 40 + s[i].target + s[i].dft + s[i].spec
    <3> HIDE DEF s
    <3> QED
      BY <2>1, <2>2, MeasuresRecord
  <2>4. q[i].says = "reading" => q[i - 1].says = "reading" /\ q[i].at = q[i - 1].at + 40 + s[i].target + s[i].dft + s[i].spec
    <3> HIDE DEF s
    <3> QED
      BY <2>1, <2>2, MeasuresRecord
  <2> HIDE DEF s
  <2> QED
    BY <1>5, <2>3, <2>4
<1>6. n \in G
  <2> HIDE DEF G
  <2>1. \A i \in 1..n : i - 1 \in G => i \in G
    BY <1>5
  <2>2. \A i \in 0..n : i \in G
    BY <1>4, <2>1, UpTo
  <2> QED
    BY <2>2
<1> QED
  BY <1>2, <1>3, <1>6 DEF MeasuresUp

\* An appendix that is usable ends with the file and carries the magic.
LEMMA UsableIsOk ==
    ASSUME NEW a, NEW start \in Nat, NEW size \in Int
    PROVE  Sz!AppendixAt(a, start, size) = "ok" <=> Sz!ParseStream(a, start, size) = "ok"
<1> DEFINE says == Sz!ParseStream(a, start, size)
<1>1. start + 12 > size => says = "truncated"
  BY DEF Sz!ParseStream
<1>2. start + 12 <= size /\ ~a.magic => says = "none"
  BY DEF Sz!ParseStream
<1> HIDE DEF says
<1>3. Sz!AppendixAt(a, start, size)
        = IF start < 0 \/ start + 12 > size THEN "malformed"
          ELSE IF ~a.magic THEN "absent"
          ELSE IF says = "none" THEN "malformed" ELSE says
  BY DEF Sz!AppendixAt, says
<1> QED
  BY <1>1, <1>2, <1>3 DEF says

\* The one found by a search is the one at its place, where nothing else in
\* the file is an appendix.
LEMMA SearchFinds ==
    ASSUME NEW S, NEW noise \in Seq(S), \A i \in DOMAIN noise : noise[i].says # "ok", NEW own \in S
    PROVE  Sz!ParseAppendix(Append(noise, own)) = "ok" <=> own.says = "ok"
<1> DEFINE all == Append(noise, own)
           n == Len(noise)
           ok == {i \in DOMAIN all : all[i].says = "ok"}
           rejected == DOMAIN all \ (ok \union {i \in DOMAIN all : all[i].says = "none"})
           current == {i \in rejected : all[i].version = 1}
           first == Sz!Min(IF current # {} THEN current ELSE rejected)
<1>1. /\ n \in Nat /\ DOMAIN all = 1..n + 1 /\ all[n + 1] = own
      /\ \A i \in 1..n : all[i].says # "ok"
  OBVIOUS
<1>2. Sz!ParseAppendix(all) = IF ok # {} THEN "ok" ELSE IF rejected = {} THEN "absent" ELSE all[first].says
  BY DEF Sz!ParseAppendix
<1> HIDE DEF all
<1>3. ok # {} <=> own.says = "ok"
  <2>1. \A i \in 1..n + 1 : i \in 1..n \/ i = n + 1
    BY <1>1
  <2> HIDE DEF n
  <2>2. ASSUME own.says = "ok" PROVE ok # {}
    <3>1. n + 1 \in ok
      BY <1>1, <2>2
    <3> QED
      BY <3>1
  <2>3. ASSUME NEW i \in ok PROVE own.says = "ok"
    BY <1>1, <2>1, <2>3
  <2> QED
    BY <2>2, <2>3
<1>4. ok = {} /\ rejected # {} => all[first].says # "ok"
  <2> SUFFICES ASSUME ok = {}, rejected # {} PROVE all[first].says # "ok"
    OBVIOUS
  <2> DEFINE S1 == IF current # {} THEN current ELSE rejected
  <2>1. S1 # {} /\ S1 \subseteq 1..n + 1
    BY <1>1
  <2>2. PICK x \in S1 : \A y \in S1 : x <= y
    <3> DEFINE below(x) == n + 2 - x
               D == {below(x) : x \in S1}
    <3>1. D \subseteq 1..n + 1 /\ D # {} /\ n + 1 \in Nat
      BY <1>1, <2>1
    <3> HIDE DEF D
    <3>2. Max(D) \in D /\ \A y \in D : Max(D) >= y
      BY <3>1, LargestPlace
    <3>3. PICK x \in S1 : Max(D) = below(x)
      BY <3>2 DEF D
    <3>4. \A y \in S1 : below(x) >= below(y)
      BY <3>2, <3>3 DEF D
    <3>5. \A y \in S1 : y \in Int /\ x \in Int
      BY <2>1
    <3> HIDE DEF S1
    <3> QED
      BY <1>1, <3>4, <3>5
  <2>3. first \in S1
    <3> HIDE DEF S1
    <3>1. Sz!Min(S1) \in S1
      BY <2>2 DEF Sz!Min
    <3> QED
      BY <3>1 DEF S1
  <2>4. first \in DOMAIN all /\ first \notin ok
    BY <2>3
  <2> HIDE DEF first
  <2> QED
    BY <2>4
<1> QED
  BY <1>2, <1>3, <1>4 DEF all

-----------------------------------------------------------------------------
(* A packed prompt. *)
Packed(ids, media) == <<-1, 1, Len(ids)>> \o ids \o <<media>>

\* A prompt with its header, the number of media behind it, and its end cut off.
LEMMA PromptIsItsTokens ==
    ASSUME NEW ids \in Seq(Nat), NEW media \in Nat, NEW cut \in Nat
    PROVE  Sz!DecodePrompt(SubSeq(Packed(ids, media), 1, Len(Packed(ids, media)) - cut))
              \in {<<>>, <<-1>>} \union IF media = 0 \/ cut > 0 THEN {ids} ELSE {}
<1> DEFINE k == Len(ids)
           packed == <<-1, 1, k>> \o ids \o <<media>>
           s == SubSeq(packed, 1, Len(packed) - cut)
           L == 4 + k - cut
<1> SUFFICES Sz!DecodePrompt(s) \in {<<>>, <<-1>>} \union IF media = 0 \/ cut > 0 THEN {ids} ELSE {}
  BY DEF Packed
<1>1. k \in Nat
  OBVIOUS
<1>2. /\ packed \in Seq(Int) /\ Len(packed) = 4 + k
      /\ packed[1] = -1 /\ packed[2] = 1 /\ packed[3] = k /\ packed[4 + k] = media
      /\ \A i \in 1..k : packed[3 + i] = ids[i]
  <2> DEFINE head == <<-1, 1, k>>
             both == head \o ids
  <2>1. head \in Seq(Int) /\ Len(head) = 3 /\ ids \in Seq(Int)
    OBVIOUS
  <2>2. head[1] = -1 /\ head[2] = 1 /\ head[3] = k
    OBVIOUS
  <2> HIDE DEF head
  <2>3. both \in Seq(Int) /\ Len(both) = 3 + k
        /\ (\A i \in 1..3 : both[i] = head[i]) /\ \A i \in 1..k : both[3 + i] = ids[i]
    <3>1. /\ head \o ids \in Seq(Int)
          /\ Len(head \o ids) = Len(head) + Len(ids)
          /\ \A i \in 1..Len(head) : (head \o ids)[i] = head[i]
          /\ \A i \in 1..Len(ids) : (head \o ids)[Len(head) + i] = ids[i]
      <4> DEFINE S == Int
      <4>1. head \in Seq(S) /\ ids \in Seq(S)
        BY <2>1
      <4> HIDE DEF k, S
      <4>2. /\ head \o ids \in Seq(S)
            /\ Len(head \o ids) = Len(head) + Len(ids)
            /\ \A i \in 1..Len(head) : (head \o ids)[i] = head[i]
            /\ \A i \in 1..Len(ids) : (head \o ids)[Len(head) + i] = ids[i]
        BY <4>1, Joined
      <4> QED
        BY <4>2 DEF S
    <3> QED
      BY <2>1, <3>1
  <2> HIDE DEF both
  <2>4. <<media>> \in Seq(Int) /\ Len(<<media>>) = 1 /\ <<media>>[1] = media
    OBVIOUS
  <2>5. packed = both \o <<media>>
    BY DEF both, head
  <2>6. /\ packed \in Seq(Int) /\ Len(packed) = 4 + k
        /\ (\A i \in 1..3 + k : packed[i] = both[i]) /\ packed[4 + k] = media
    BY <1>1, <2>3, <2>4, <2>5
  <2> HIDE DEF packed, k
  <2>7. packed[1] = -1 /\ packed[2] = 1 /\ packed[3] = k
    BY <1>1, <2>2, <2>3, <2>6
  <2>8. \A i \in 1..k : packed[3 + i] = ids[i]
    BY <1>1, <2>3, <2>6
  <2> QED
    BY <2>6, <2>7, <2>8
<1> HIDE DEF packed
<1>3. CASE L <= 0
  <2>1. s = <<>>
    BY <1>1, <1>2, <1>3
  <2> HIDE DEF s
  <2> QED
    BY <2>1 DEF Sz!DecodePrompt, packed, s
<1>4. CASE L > 0
  <2>1. s \in Seq(Int) /\ Len(s) = L /\ \A i \in 1..L : s[i] = packed[i]
    BY <1>1, <1>2, <1>4
  <2> HIDE DEF s, k
  <2>2. s # <<>> /\ s[1] = -1
    BY <1>1, <1>2, <1>4, <2>1
  <2> DEFINE Refused == \/ Len(s) < 3
                        \/ s[2] # 1
                        \/ s[3] < 0 \/ 3 + s[3] > Len(s)
             d == Sz!DecodePrompt(s)
  <2>3. d = IF Refused THEN <<-1>>
            ELSE IF Len(s) > 3 + s[3] /\ s[4 + s[3]] # 0 THEN <<>>
            ELSE SubSeq(s, 4, 3 + s[3])
    BY <2>2 DEF Sz!DecodePrompt
  <2> HIDE DEF d
  <2>4. CASE Refused
    <3>1. d = <<-1>>
      BY <2>3, <2>4
    <3> QED
      BY <3>1 DEF d, s, packed, k
  <2>5. CASE ~Refused
    <3>1. L >= 3 /\ s[3] = k /\ L >= 3 + k
      <4>1. Len(s) = L /\ L \in Nat /\ ~(Len(s) < 3) /\ ~(3 + s[3] > Len(s))
        BY <1>1, <1>4, <2>1, <2>5
      <4>2. L >= 3 /\ 3 \in 1..L
        BY <4>1
      <4>3. s[3] = k
        BY <1>2, <2>1, <4>2
      <4> QED
        BY <1>1, <4>1, <4>2, <4>3
    <3> HIDE DEF Refused
    <3>2. d = IF L > 3 + k /\ s[4 + k] # 0 THEN <<>> ELSE SubSeq(s, 4, 3 + k)
      BY <2>1, <2>3, <2>5, <3>1
    <3>3. SubSeq(s, 4, 3 + k) = ids
      <4> DEFINE t == SubSeq(s, 4, 3 + k)
      <4>1. t \in Seq(Int) /\ Len(t) = k /\ \A i \in 1..k : t[i] = s[3 + i]
        BY <1>1, <2>1, <3>1
      <4>2. \A i \in 1..k : t[i] = ids[i]
        BY <1>1, <1>2, <2>1, <3>1, <4>1
      <4> HIDE DEF t
      <4>3. Len(ids) = k /\ ids \in Seq(Int)
        BY DEF k
      <4>4. t = ids
        BY <4>1, <4>2, <4>3
      <4> QED
        BY <4>4 DEF t
    <3>4. CASE L > 3 + k
      <4>1. cut = 0 /\ s[4 + k] = media
        BY <1>1, <1>2, <2>1, <3>4
      <4>2. d = IF media # 0 THEN <<>> ELSE ids
        BY <3>2, <3>3, <3>4, <4>1
      <4>3. d \in {<<>>, <<-1>>} \union IF media = 0 \/ cut > 0 THEN {ids} ELSE {}
        BY <4>1, <4>2
      <4> QED
        BY <4>3 DEF d, s, packed, k
    <3>5. CASE ~(L > 3 + k)
      <4>1. cut > 0
        BY <1>1, <3>5
      <4>2. d = ids
        BY <3>2, <3>3, <3>5
      <4>3. d \in {<<>>, <<-1>>} \union IF media = 0 \/ cut > 0 THEN {ids} ELSE {}
        BY <4>1, <4>2
      <4> QED
        BY <4>3 DEF d, s, packed, k
    <3> QED
      BY <3>4, <3>5
  <2> QED
    BY <2>4, <2>5
<1> QED
  BY <1>1, <1>3, <1>4

-----------------------------------------------------------------------------
(* The rows of a text. *)
(* The elements of a list of numbers are numbers. *)
LEMMA ElementsAre ==
    ASSUME NEW s \in Seq(Int)
    PROVE  \A i \in 1..Len(s) : s[i] \in Int
  OBVIOUS

\* One more element.
LEMMA Appended ==
    ASSUME NEW S, NEW s \in Seq(S), NEW x \in S
    PROVE  /\ Append(s, x) \in Seq(S) /\ Len(Append(s, x)) = Len(s) + 1
           /\ Append(s, x)[Len(s) + 1] = x
           /\ \A i \in 1..Len(s) : Append(s, x)[i] = s[i]
  OBVIOUS

\* One step of the walk over the predecessors of a token.
Extends(ctx, s, previous) ==
    LET t == IF ctx.cut \/ Len(previous) < s THEN 0
             ELSE previous[Len(previous) - s + 1]
        cut == ctx.cut \/ t < 0 \/ t = 0
    IN  [cut |-> cut, seen |-> Append(ctx.seen, IF cut THEN 0 ELSE t)]

Contexts == [cut : BOOLEAN, seen : Seq(Int)]

\* The token s places before place i.
Back(tokens, i, s) == IF i - s >= 1 THEN tokens[i - s] ELSE 0

\* What a row is the hash of, where a and b are the tokens before it.
Hashed(token, a, b) ==
    <<token, IF a <= 0 THEN 0 ELSE a, IF a <= 0 \/ b <= 0 THEN 0 ELSE b>>

HashedRows(token, a, b) == [n \in 1..2 |-> SubSeq(Hashed(token, a, b), 1, n + 1)]

\* The token that is the s-th from the end of a list.
Behindmost(previous, s) == IF Len(previous) < s THEN 0 ELSE previous[Len(previous) - s + 1]

(* A predecessor that ends a text, or is missing, cuts off all that are older. *)
LEMMA ExtendsOne ==
    ASSUME NEW previous \in Seq(Int), NEW cut \in BOOLEAN, NEW seen \in Seq(Int), NEW s \in 1..2
    PROVE  /\ Extends([cut |-> cut, seen |-> seen], s, previous) \in Contexts
           /\ cut \/ Behindmost(previous, s) <= 0 =>
                 Extends([cut |-> cut, seen |-> seen], s, previous)
                    = [cut |-> TRUE, seen |-> Append(seen, 0)]
           /\ ~cut /\ Behindmost(previous, s) > 0 =>
                 Extends([cut |-> cut, seen |-> seen], s, previous)
                    = [cut |-> FALSE, seen |-> Append(seen, Behindmost(previous, s))]
<1> DEFINE t == Behindmost(previous, s)
           u == IF cut \/ Len(previous) < s THEN 0 ELSE previous[Len(previous) - s + 1]
           c == cut \/ u < 0 \/ u = 0
           e == Extends([cut |-> cut, seen |-> seen], s, previous)
<1>1. t \in Int
  <2>1. Len(previous) \in Nat /\ \A i \in 1..Len(previous) : previous[i] \in Int
    OBVIOUS
  <2>2. CASE Len(previous) < s
    BY <2>2 DEF Behindmost
  <2>3. CASE ~(Len(previous) < s)
    <3>1. Len(previous) - s + 1 \in 1..Len(previous)
      BY <2>1, <2>3
    <3> QED
      BY <2>1, <2>3, <3>1 DEF Behindmost
  <2> QED
    BY <2>2, <2>3
<1>2. e = [cut |-> c, seen |-> Append(seen, IF c THEN 0 ELSE u)]
  BY DEF Extends
<1>3. u = IF cut THEN 0 ELSE t
  BY DEF Behindmost
<1> HIDE DEF u, t, e
<1>4. ASSUME cut \/ t <= 0
      PROVE  e = [cut |-> TRUE, seen |-> Append(seen, 0)]
  <2>1. c = TRUE
    BY <1>1, <1>3, <1>4
  <2> HIDE DEF c
  <2> QED
    BY <1>2, <2>1
<1>5. ASSUME ~cut, t > 0
      PROVE  e = [cut |-> FALSE, seen |-> Append(seen, t)]
  <2>1. c = FALSE /\ u = t
    BY <1>1, <1>3, <1>5
  <2> HIDE DEF c
  <2> QED
    BY <1>2, <2>1
<1>6. e \in Contexts
  <2>1. Append(seen, 0) \in Seq(Int) /\ Append(seen, t) \in Seq(Int)
    BY <1>1
  <2>2. (cut \/ t <= 0) \/ (~cut /\ t > 0)
    BY <1>1
  <2> DEFINE a == [cut |-> TRUE, seen |-> Append(seen, 0)]
             b == [cut |-> FALSE, seen |-> Append(seen, t)]
  <2>3. a \in Contexts /\ b \in Contexts
    BY <2>1 DEF Contexts
  <2>4. e = a \/ e = b
    BY <1>4, <1>5, <2>2
  <2> HIDE DEF a, b
  <2> QED
    BY <2>3, <2>4
<1> QED
  BY <1>4, <1>5, <1>6 DEF e, t

(* What a row is the hash of, in closed form. *)
LEMMA NgramIs ==
    ASSUME NEW token \in Int, NEW previous \in Seq(Int)
    PROVE  Mf!Ngram(token, previous)
              = Hashed(token, Behindmost(previous, 1), Behindmost(previous, 2))
<1> DEFINE base == [cut |-> FALSE, seen |-> <<token>>]
           list == [s \in 1..3 - 1 |-> s]
           M(v, s) == Extends(v, s, previous)
           g == [i \in 1..2 |-> [v \in Contexts |-> M(v, list[i])]]
           Is(h) == h = [u \in SUBSET (1..2) |->
                            IF u = {} THEN base ELSE M(h[u \ {Max(u)}], list[Max(u)])]
           h == CHOOSE h : Is(h)
<1>1. DOMAIN list = 1..2 /\ list[1] = 1 /\ list[2] = 2
  OBVIOUS
<1>2. Mf!Ngram(token, previous) = h[1..2].seen
  BY <1>1 DEF Mf!Ngram, Mf!FoldLeft, Mf!MapThenFoldSet, Mf!Max, Max, Extends
<1>3. base \in Contexts
  BY DEF Contexts
<1> HIDE DEF list
<1>7. \A i \in 1..2, v \in Contexts : M(v, list[i]) \in Contexts
  <2> SUFFICES ASSUME NEW i \in 1..2, NEW v \in Contexts
               PROVE  M(v, list[i]) \in Contexts
    OBVIOUS
  <2>1. v = [cut |-> v.cut, seen |-> v.seen] /\ v.cut \in BOOLEAN /\ v.seen \in Seq(Int)
    BY DEF Contexts
  <2>2. list[i] \in 1..2
    BY <1>1
  <2>3. \A c \in BOOLEAN, s \in Seq(Int) : M([cut |-> c, seen |-> s], list[i]) \in Contexts
    BY <2>2, ExtendsOne
  <2> HIDE DEF M
  <2> QED
    BY <2>1, <2>3
<1> HIDE DEF base
<1>8. g \in [1..2 -> [Contexts -> Contexts]]
  BY <1>7
<1>9. \A i \in 1..2, v \in Contexts : g[i][v] = M(v, list[i])
  OBVIOUS
<1> HIDE DEF g
<1>10. PICK f : Folds(f, 2, Contexts, base, g)
  BY <1>3, <1>8, FoldExists
<1>11. \A u \in SUBSET (1..2) : u # {} =>
         u \ {Max(u)} \in SUBSET (1..2) /\ Max(u) \in 1..2
  BY LargestPlace
<1> HIDE DEF M
<1>12. Is(f)
  <2>1. ASSUME NEW u \in SUBSET (1..2)
        PROVE  f[u] = IF u = {} THEN base ELSE M(f[u \ {Max(u)}], list[Max(u)])
    BY <1>9, <1>10, <1>11 DEF Folds
  <2>2. f = [u \in SUBSET (1..2) |-> f[u]]
    BY <1>10 DEF Folds
  <2> QED
    BY <2>1, <2>2
<1>13. Is(h)
  <2> HIDE DEF Is
  <2> QED
    BY <1>12
<1> HIDE DEF h
<1>14. Follows(h, 2, Contexts, base, g)
  BY <1>9, <1>11, <1>13 DEF Follows
<1> HIDE DEF Is
<1>15. PICK r : RunsTo(r, 2, Contexts, base, g, h[1..2])
  BY <1>10, <1>14, FoldsRun
<1>16. /\ r[0] = base /\ r[2] = h[1..2] /\ r[0] \in Contexts /\ r[1] \in Contexts
  BY <1>15 DEF RunsTo
<1>17. r[1] = M(base, 1) /\ r[2] = M(r[1], 2)
  <2>1. \A i \in 1..2 : r[i] = g[i][r[i - 1]]
    BY <1>15 DEF RunsTo
  <2>2. 1 \in 1..2 /\ 2 \in 1..2 /\ 1 - 1 = 0 /\ 2 - 1 = 1
    OBVIOUS
  <2>3. r[1] = g[1][r[0]] /\ r[2] = g[2][r[1]]
    BY <2>1, <2>2
  <2> QED
    BY <1>1, <1>9, <1>16, <2>2, <2>3
<1> DEFINE a == Behindmost(previous, 1)
           b == Behindmost(previous, 2)
           one == <<token>>
<1>18. a \in Int /\ b \in Int
  <2>1. Len(previous) \in Nat /\ \A i \in 1..Len(previous) : previous[i] \in Int
    OBVIOUS
  <2>2. ASSUME NEW s \in 1..2 PROVE Behindmost(previous, s) \in Int
    <3>2. CASE Len(previous) < s
      BY <3>2 DEF Behindmost
    <3>3. CASE ~(Len(previous) < s)
      <4>1. Len(previous) - s + 1 \in 1..Len(previous)
        BY <2>1, <3>3
      <4> QED
        BY <2>1, <3>3, <4>1 DEF Behindmost
    <3> QED
      BY <3>2, <3>3
  <2> QED
    BY <2>2
<1>19. one \in Seq(Int)
  OBVIOUS
<1> HIDE DEF a, b, one
<1> DEFINE two == Append(one, IF a <= 0 THEN 0 ELSE a)
           three == Append(two, IF a <= 0 \/ b <= 0 THEN 0 ELSE b)
<1>20. /\ a <= 0 => r[1] = [cut |-> TRUE, seen |-> two]
       /\ a > 0 => r[1] = [cut |-> FALSE, seen |-> two]
       /\ two \in Seq(Int)
  <2>1. base = [cut |-> FALSE, seen |-> one] /\ FALSE \in BOOLEAN /\ 1 \in 1..2
    BY DEF base, one
  <2>2. /\ a <= 0 => M([cut |-> FALSE, seen |-> one], 1) = [cut |-> TRUE, seen |-> Append(one, 0)]
        /\ a > 0 => M([cut |-> FALSE, seen |-> one], 1) = [cut |-> FALSE, seen |-> Append(one, a)]
    BY <1>19, <2>1, ExtendsOne DEF M, a
  <2>3. two \in Seq(Int)
    BY <1>18, <1>19
  <2>4. CASE a <= 0
    <3>1. two = Append(one, 0) /\ ~(a > 0)
      BY <1>18, <2>4
    <3> HIDE DEF two
    <3> QED
      BY <1>17, <2>1, <2>2, <2>3, <2>4, <3>1
  <2>5. CASE a > 0
    <3>1. two = Append(one, a) /\ ~(a <= 0)
      BY <1>18, <2>5
    <3> HIDE DEF two
    <3> QED
      BY <1>17, <2>1, <2>2, <2>3, <2>5, <3>1
  <2> QED
    BY <1>18, <2>4, <2>5
<1> HIDE DEF two
<1>21. r[2].seen = three
  <2>1. CASE a <= 0
    <3>1. r[1] = [cut |-> TRUE, seen |-> two] /\ TRUE \in BOOLEAN /\ 2 \in 1..2
      BY <1>20, <2>1
    <3>2. M([cut |-> TRUE, seen |-> two], 2) = [cut |-> TRUE, seen |-> Append(two, 0)]
      BY <1>20, <3>1, ExtendsOne DEF M
    <3>3. three = Append(two, 0)
      BY <2>1
    <3> HIDE DEF three
    <3> QED
      BY <1>17, <3>1, <3>2, <3>3
  <2>2. CASE a > 0
    <3>1. r[1] = [cut |-> FALSE, seen |-> two] /\ FALSE \in BOOLEAN /\ 2 \in 1..2
      BY <1>20, <2>2
    <3>2. /\ b <= 0 => M([cut |-> FALSE, seen |-> two], 2) = [cut |-> TRUE, seen |-> Append(two, 0)]
          /\ b > 0 => M([cut |-> FALSE, seen |-> two], 2) = [cut |-> FALSE, seen |-> Append(two, b)]
      BY <1>20, <3>1, ExtendsOne DEF M, b
    <3>3. CASE b <= 0
      <4>1. three = Append(two, 0)
        BY <3>3
      <4> HIDE DEF three
      <4> QED
        BY <1>17, <3>1, <3>2, <3>3, <4>1
    <3>4. CASE b > 0
      <4>1. three = Append(two, b)
        BY <1>18, <2>2, <3>4
      <4> HIDE DEF three
      <4> QED
        BY <1>17, <3>1, <3>2, <3>4, <4>1
    <3> QED
      BY <1>18, <3>3, <3>4
  <2> QED
    BY <1>18, <2>1, <2>2
<1>22. ASSUME NEW x \in Int, NEW y \in Int
       PROVE  Append(Append(<<token>>, x), y) = <<token, x, y>>
  <2> DEFINE S == Int
             s == Append(<<token>>, x)
             t == Append(s, y)
             u == <<token, x, y>>
  <2>1. s \in Seq(S) /\ Len(s) = 2 /\ s[1] = token /\ s[2] = x /\ y \in S
    OBVIOUS
  <2>2. u \in Seq(S) /\ Len(u) = 3 /\ u[1] = token /\ u[2] = x /\ u[3] = y
    OBVIOUS
  <2> HIDE DEF s, S, u
  <2>3. /\ t \in Seq(S) /\ Len(t) = Len(s) + 1 /\ t[Len(s) + 1] = y
        /\ \A i \in 1..Len(s) : t[i] = s[i]
    <3>1. /\ Append(s, y) \in Seq(S) /\ Len(Append(s, y)) = Len(s) + 1
          /\ Append(s, y)[Len(s) + 1] = y
          /\ \A i \in 1..Len(s) : Append(s, y)[i] = s[i]
      <4> HIDE DEF t
      <4>1. s \in Seq(S) /\ y \in S
        BY <2>1
      <4> QED
        BY <4>1, Appended
    <3> QED
      BY <3>1
  <2> HIDE DEF t
  <2>4. Len(t) = 3 /\ t[3] = y /\ t[1] = token /\ t[2] = x
    <3>1. 1 \in 1..2 /\ 2 \in 1..2 /\ 2 + 1 = 3
      OBVIOUS
    <3> QED
      BY <2>1, <2>3, <3>1
  <2>5. \A i \in 1..Len(t) : t[i] = u[i]
    <3>1. \A i \in 1..3 : i = 1 \/ i = 2 \/ i = 3
      OBVIOUS
    <3> QED
      BY <2>2, <2>4, <3>1
  <2>6. t = u
    BY <2>2, <2>3, <2>4, <2>5, SeqEqual
  <2> QED
    BY <2>6 DEF t, u, s
<1>23. three = Hashed(token, a, b)
  <2>1. (IF a <= 0 THEN 0 ELSE a) \in Int /\ (IF a <= 0 \/ b <= 0 THEN 0 ELSE b) \in Int
    BY <1>18
  <2> QED
    BY <1>22, <2>1 DEF Hashed, two, one
<1> HIDE DEF three, h
<1> QED
  BY <1>2, <1>16, <1>21, <1>23 DEF a, b

\* The rows of a token depend on it and on the two before it.
LEMMA RowIs ==
    ASSUME NEW tokens \in Seq(Int), NEW i \in 1..Len(tokens)
    PROVE  /\ Mf!RowsForSequence(tokens)[i] = HashedRows(tokens[i], Back(tokens, i, 1), Back(tokens, i, 2))
           /\ DOMAIN Mf!RowsForSequence(tokens) = 1..Len(tokens)
<1> DEFINE from == Mf!Max({1, i - 3 + 1})
           previous == SubSeq(tokens, from, i - 1)
           k == i - from
<1>1. Len(tokens) \in Nat /\ DOMAIN tokens = 1..Len(tokens) /\ \A j \in 1..Len(tokens) : tokens[j] \in Int
  OBVIOUS
<1>2. from = IF i <= 3 THEN 1 ELSE i - 2
  <2>1. \E x \in {1, i - 3 + 1} : \A y \in {1, i - 3 + 1} : x >= y
    OBVIOUS
  <2>2. from \in {1, i - 3 + 1} /\ \A y \in {1, i - 3 + 1} : from >= y
    BY <2>1 DEF Mf!Max
  <2> HIDE DEF from
  <2> QED
    BY <2>2
<1> HIDE DEF from
<1>3. previous \in Seq(Int) /\ Len(previous) = k /\ \A j \in 1..k : previous[j] = tokens[from + j - 1]
  BY <1>1, <1>2
<1> HIDE DEF previous
<1>4. Behindmost(previous, 1) = Back(tokens, i, 1)
  <2>1. CASE i = 1
    BY <1>2, <1>3, <2>1 DEF Behindmost, Back
  <2>2. CASE i > 1
    <3>1. k >= 1 /\ previous[k] = tokens[i - 1]
      <4>1. k \in 1..k /\ from + k - 1 = i - 1
        BY <1>2, <2>2
      <4> HIDE DEF k
      <4> QED
        BY <1>3, <4>1
    <3>2. k - 1 + 1 = k /\ ~(k < 1) /\ i - 1 >= 1
      BY <1>2, <2>2
    <3> HIDE DEF k
    <3> QED
      BY <1>3, <3>1, <3>2 DEF Behindmost, Back
  <2> QED
    BY <2>1, <2>2
<1>5. Behindmost(previous, 2) = Back(tokens, i, 2)
  <2>1. CASE i <= 2
    <3>1. k < 2 /\ ~(i - 2 >= 1)
      BY <1>2, <2>1
    <3> QED
      BY <1>3, <3>1 DEF Behindmost, Back
  <2>2. CASE i > 2
    <3>1. k - 1 \in 1..k /\ from + (k - 1) - 1 = i - 2
      BY <1>2, <2>2
    <3>2. k - 2 + 1 = k - 1 /\ ~(k < 2) /\ i - 2 >= 1
      BY <1>2, <2>2
    <3> HIDE DEF k
    <3>3. previous[k - 1] = tokens[i - 2]
      BY <1>3, <3>1
    <3> QED
      BY <1>3, <3>2, <3>3 DEF Behindmost, Back
  <2> QED
    BY <2>1, <2>2
<1>6. Mf!Ngram(tokens[i], previous) = Hashed(tokens[i], Back(tokens, i, 1), Back(tokens, i, 2))
  BY <1>1, <1>3, <1>4, <1>5, NgramIs
<1>7. Mf!RowsForSequence(tokens)[i] = Mf!RowsForToken(tokens[i], previous)
  BY <1>1 DEF Mf!RowsForSequence, previous, from
<1>8. Mf!RowsForToken(tokens[i], previous) = [n \in 1..3 - 1 |-> SubSeq(Mf!Ngram(tokens[i], previous), 1, n + 1)]
  BY DEF Mf!RowsForToken
<1>9. 3 - 1 = 2
  OBVIOUS
<1>10. DOMAIN Mf!RowsForSequence(tokens) = 1..Len(tokens)
  BY <1>1 DEF Mf!RowsForSequence
<1> QED
  BY <1>6, <1>7, <1>8, <1>9, <1>10 DEF HashedRows

Rows == [1..2 -> Seq(Int)]

(* Each token has its rows. *)
LEMMA RowsAre ==
    ASSUME NEW tokens \in Seq(Int)
    PROVE  Mf!RowsForSequence(tokens) \in Seq(Rows) /\ Len(Mf!RowsForSequence(tokens)) = Len(tokens)
<1> DEFINE rows == Mf!RowsForSequence(tokens)
<1>1. \A i \in 1..Len(tokens) : rows[i] = HashedRows(tokens[i], Back(tokens, i, 1), Back(tokens, i, 2))
  BY RowIs
<1>2. Len(tokens) \in Nat /\ DOMAIN tokens = 1..Len(tokens) /\ \A j \in 1..Len(tokens) : tokens[j] \in Int
  OBVIOUS
<1>3. rows = [i \in 1..Len(tokens) |-> rows[i]]
  BY <1>2 DEF Mf!RowsForSequence
<1> HIDE DEF rows
<1>4. ASSUME NEW i \in 1..Len(tokens)
      PROVE  rows[i] \in Rows
  <2> DEFINE a == Back(tokens, i, 1)
             b == Back(tokens, i, 2)
             s == Hashed(tokens[i], a, b)
  <2>1. a \in Int /\ b \in Int
    BY <1>2 DEF Back
  <2> HIDE DEF a, b
  <2>2. s \in Seq(Int) /\ Len(s) = 3
    BY <1>2, <2>1 DEF Hashed
  <2> HIDE DEF s
  <2>3. ASSUME NEW n \in 1..2 PROVE SubSeq(s, 1, n + 1) \in Seq(Int)
    <3>1. \A j \in 1..3 : s[j] \in Int
      BY <2>2, ElementsAre
    <3>2. \A j \in 1..n + 1 : j \in 1..3
      OBVIOUS
    <3> QED
      BY <3>1, <3>2
  <2>4. rows[i] = [n \in 1..2 |-> SubSeq(s, 1, n + 1)]
    BY <1>1 DEF HashedRows, a, b, s
  <2> QED
    BY <2>3, <2>4 DEF Rows
<1>5. rows \in Seq(Rows) /\ Len(rows) = Len(tokens)
  BY <1>2, <1>3, <1>4
<1> QED
  BY <1>5 DEF rows

\* What is behind the end of a text does not depend on what is before it.
LEMMA TextsStayApart ==
    ASSUME NEW before \in Seq(Int), NEW after \in Seq(Int)
    PROVE  Mf!TextsAreApart(before, after)
<1> DEFINE m == Len(before)
           k == Len(after)
           head == before \o <<0>>
           tail == <<0>> \o after
           all == before \o <<0>> \o after
           A == Mf!RowsForSequence(all)
           H == Mf!RowsForSequence(head)
           T0 == Mf!RowsForSequence(tail)
           B == SubSeq(T0, 2, k + 1)
<1>1. m \in Nat /\ k \in Nat
  OBVIOUS
<1>2. /\ head \in Seq(Int) /\ Len(head) = m + 1 /\ head[m + 1] = 0
      /\ \A i \in 1..m : head[i] = before[i]
  <2> DEFINE S == Int
             z == <<0>>
  <2>1. Len(z) = 1 /\ z[1] = 0
    OBVIOUS
  <2>a. before \in Seq(S) /\ z \in Seq(S)
    OBVIOUS
  <2> HIDE DEF S, z
  <2>2. /\ before \o z \in Seq(S) /\ Len(before \o z) = Len(before) + Len(z)
        /\ (\A i \in 1..Len(before) : (before \o z)[i] = before[i])
        /\ \A i \in 1..Len(z) : (before \o z)[Len(before) + i] = z[i]
    BY <2>a, Joined
  <2>3. 1 \in 1..1
    OBVIOUS
  <2> QED
    BY <2>1, <2>2, <2>3 DEF S, z
<1>3. /\ tail \in Seq(Int) /\ Len(tail) = k + 1 /\ tail[1] = 0
      /\ \A i \in 1..k : tail[i + 1] = after[i]
  <2> DEFINE S == Int
             z == <<0>>
  <2>1. Len(z) = 1 /\ z[1] = 0
    OBVIOUS
  <2>a. after \in Seq(S) /\ z \in Seq(S)
    OBVIOUS
  <2> HIDE DEF S, z
  <2>2. /\ z \o after \in Seq(S) /\ Len(z \o after) = Len(z) + Len(after)
        /\ (\A i \in 1..Len(z) : (z \o after)[i] = z[i])
        /\ \A i \in 1..Len(after) : (z \o after)[Len(z) + i] = after[i]
    BY <2>a, Joined
  <2>3. 1 \in 1..1 /\ \A i \in 1..k : 1 + i = i + 1
    OBVIOUS
  <2>4. Len(z \o after) = k + 1
    BY <1>1, <2>1, <2>2
  <2> HIDE DEF k
  <2> QED
    BY <2>1, <2>2, <2>3, <2>4 DEF S, z, k
<1> HIDE DEF head, tail
<1>4. /\ all \in Seq(Int) /\ Len(all) = m + 1 + k
      /\ (\A i \in 1..m + 1 : all[i] = head[i])
      /\ \A i \in 1..k + 1 : all[m + i] = tail[i]
  <2> DEFINE S == Int
  <2>1. head \in Seq(S) /\ after \in Seq(S)
    BY <1>2
  <2> HIDE DEF S
  <2>2. /\ head \o after \in Seq(S) /\ Len(head \o after) = Len(head) + Len(after)
        /\ (\A i \in 1..Len(head) : (head \o after)[i] = head[i])
        /\ \A i \in 1..Len(after) : (head \o after)[Len(head) + i] = after[i]
    BY <2>1, Joined
  <2>3. all = head \o after
    BY DEF head
  <2> HIDE DEF all, m, k
  <2>4. all \in Seq(Int) /\ Len(all) = m + 1 + k /\ \A i \in 1..m + 1 : all[i] = head[i]
    BY <1>1, <1>2, <2>2, <2>3 DEF S, k
  <2>5. ASSUME NEW i \in 1..k + 1 PROVE all[m + i] = tail[i]
    <3>1. CASE i = 1
      <4>1. m + 1 \in 1..m + 1
        BY <1>1
      <4> QED
        BY <1>2, <1>3, <2>4, <3>1, <4>1
    <3>2. CASE i # 1
      <4>1. i - 1 \in 1..k /\ (i - 1) + 1 = i /\ m + 1 + (i - 1) = m + i
        BY <1>1, <3>2
      <4>2. all[m + 1 + (i - 1)] = after[i - 1]
        BY <1>2, <2>2, <2>3, <4>1 DEF k
      <4> QED
        BY <1>3, <4>1, <4>2
    <3> QED
      BY <3>1, <3>2
  <2> QED
    BY <2>4, <2>5
<1> HIDE DEF all, m, k
<1>5. /\ A \in Seq(Rows) /\ Len(A) = m + 1 + k
      /\ H \in Seq(Rows) /\ Len(H) = m + 1
      /\ T0 \in Seq(Rows) /\ Len(T0) = k + 1
  BY <1>2, <1>3, <1>4, RowsAre
<1>6. \A i \in 1..m + 1 + k : A[i] = HashedRows(all[i], Back(all, i, 1), Back(all, i, 2))
  BY <1>4, RowIs
<1>7. \A i \in 1..m + 1 : H[i] = HashedRows(head[i], Back(head, i, 1), Back(head, i, 2))
  BY <1>2, RowIs
<1>8. \A i \in 1..k + 1 : T0[i] = HashedRows(tail[i], Back(tail, i, 1), Back(tail, i, 2))
  BY <1>3, RowIs
<1> HIDE DEF A, H, T0
<1>9. ASSUME NEW i \in 1..m + 1
      PROVE  A[i] = H[i]
  <2>0. i \in 1..m + 1 + k
    BY <1>1
  <2>1. all[i] = head[i] /\ i \in 1..m + 1 + k
    BY <1>4, <2>0
  <2>2. ASSUME NEW s \in 1..2 PROVE Back(all, i, s) = Back(head, i, s)
    <3>1. CASE i - s >= 1
      <4>1. i - s \in 1..m + 1
        BY <1>1, <3>1
      <4> QED
        BY <1>4, <3>1, <4>1 DEF Back
    <3>2. CASE ~(i - s >= 1)
      BY <3>2 DEF Back
    <3> QED
      BY <3>1, <3>2
  <2>3. 1 \in 1..2 /\ 2 \in 1..2
    OBVIOUS
  <2>4. Back(all, i, 1) = Back(head, i, 1) /\ Back(all, i, 2) = Back(head, i, 2)
    BY <2>2, <2>3
  <2> QED
    BY <1>6, <1>7, <2>1, <2>4
<1>10. ASSUME NEW i \in 2..k + 1
       PROVE  A[m + i] = T0[i]
  <2>1. all[m + i] = tail[i] /\ m + i \in 1..m + 1 + k /\ i \in 1..k + 1
    BY <1>1, <1>4
  <2>2. Back(all, m + i, 1) = Back(tail, i, 1)
    <3>1. i - 1 \in 1..k + 1 /\ m + (i - 1) = m + i - 1 /\ i - 1 >= 1 /\ m + i - 1 >= 1
      BY <1>1
    <3>2. all[m + i - 1] = tail[i - 1]
      BY <1>4, <3>1
    <3> QED
      BY <1>1, <3>1, <3>2 DEF Back
  <2>3. CASE i >= 3
    <3>1. i - 2 \in 1..k + 1 /\ m + (i - 2) = m + i - 2 /\ i - 2 >= 1 /\ m + i - 2 >= 1
      BY <1>1, <2>3
    <3>2. all[m + i - 2] = tail[i - 2]
      BY <1>4, <3>1
    <3>3. Back(all, m + i, 2) = Back(tail, i, 2)
      BY <1>1, <3>1, <3>2 DEF Back
    <3> QED
      BY <1>6, <1>8, <2>1, <2>2, <3>3
  <2>4. CASE i < 3
    <3>1. Back(tail, i, 1) = 0
      <4>1. i = 2
        BY <2>4
      <4> QED
        BY <1>3, <4>1 DEF Back
    <3>2. \A b, c : Hashed(tail[i], 0, b) = Hashed(tail[i], 0, c)
      BY DEF Hashed
    <3>3. HashedRows(tail[i], 0, Back(all, m + i, 2)) = HashedRows(tail[i], 0, Back(tail, i, 2))
      BY <3>2 DEF HashedRows
    <3> QED
      BY <1>6, <1>8, <2>1, <2>2, <3>1, <3>3
  <2> QED
    BY <2>3, <2>4
<1>11. B \in Seq(Rows) /\ Len(B) = k /\ \A i \in 1..k : B[i] = T0[i + 1]
  BY <1>1, <1>5
<1> HIDE DEF B
<1>12. H \o B \in Seq(Rows) /\ Len(H \o B) = m + 1 + k
       /\ (\A i \in 1..m + 1 : (H \o B)[i] = H[i])
       /\ \A i \in 1..k : (H \o B)[m + 1 + i] = B[i]
  <2>1. H \in Seq(Rows) /\ B \in Seq(Rows)
    BY <1>5, <1>11
  <2>2. /\ H \o B \in Seq(Rows) /\ Len(H \o B) = Len(H) + Len(B)
        /\ (\A i \in 1..Len(H) : (H \o B)[i] = H[i])
        /\ \A i \in 1..Len(B) : (H \o B)[Len(H) + i] = B[i]
    BY <2>1, Joined
  <2> QED
    BY <1>5, <1>11, <2>2
<1>13. ASSUME NEW i \in 1..Len(A)
       PROVE  A[i] = (H \o B)[i]
  <2>1. CASE i <= m + 1
    BY <1>1, <1>5, <1>9, <1>12, <2>1
  <2>2. CASE i > m + 1
    <3> DEFINE j == i - (m + 1)
    <3>1. j \in 1..k /\ m + 1 + j = i /\ j + 1 \in 2..k + 1 /\ m + (j + 1) = i
      BY <1>1, <1>5, <2>2
    <3> HIDE DEF j
    <3>2. (H \o B)[i] = T0[j + 1]
      BY <1>11, <1>12, <3>1
    <3>3. A[i] = T0[j + 1]
      BY <1>10, <3>1
    <3> QED
      BY <3>2, <3>3
  <2> QED
    <3>1. i <= m + 1 \/ i > m + 1
      BY <1>1, <1>5
    <3> QED
      BY <2>1, <2>2, <3>1
<1>14. A = H \o B
  BY <1>5, <1>12, <1>13, SeqEqual
<1> QED
  BY <1>14 DEF Mf!TextsAreApart, A, H, B, T0, all, head, tail, k

-----------------------------------------------------------------------------
(* The pages of the rows. *)
Run == Nat \X Nat

EndOf(run) == run[1] + run[2]

\* What the runs of the pages below place i hold: each page of these, and no
\* two runs touch.
RunsHold(pages, runs, i) ==
    /\ runs \in Seq(Run)
    /\ \A j \in 1..Len(runs) : EndOf(runs[j]) <= 4 * i
    /\ \A j \in 1..Len(runs) - 1 : EndOf(runs[j]) < runs[j + 1][1]
    /\ \A p \in pages : p < 4 * i =>
          \E j \in 1..Len(runs) : runs[j][1] <= p /\ p + 4 <= EndOf(runs[j])

Paged(pages) == \A p \in pages : p \in Nat /\ p % 4 = 0

(* A page more keeps what the runs hold. *)
LEMMA AddsPage ==
    ASSUME NEW pages, Paged(pages), NEW i \in Nat, NEW runs, RunsHold(pages, runs, i)
    PROVE  RunsHold(pages, Mf!AddPage(pages, runs, i * 4), i + 1)
<1> DEFINE p == i * 4
           new == Mf!AddPage(pages, runs, p)
           n == Len(runs)
<1>1. /\ runs \in Seq(Run) /\ n \in Nat /\ DOMAIN runs = 1..n
      /\ \A j \in 1..n : runs[j] \in Run /\ EndOf(runs[j]) <= 4 * i
  BY DEF RunsHold
<1>2. /\ \A j \in 1..n - 1 : EndOf(runs[j]) < runs[j + 1][1]
      /\ \A q \in pages : q < 4 * i =>
            \E j \in 1..n : runs[j][1] <= q /\ q + 4 <= EndOf(runs[j])
  BY DEF RunsHold
<1>3. \A j \in 1..n : runs[j][1] \in Nat /\ runs[j][2] \in Nat /\ EndOf(runs[j]) \in Nat
  BY <1>1 DEF Run, EndOf
<1>4. p \in Nat /\ p = 4 * i /\ 4 * (i + 1) = 4 * i + 4
  OBVIOUS
<1>5. \A q \in pages : q < 4 * (i + 1) => q < 4 * i \/ q = p
  BY <1>4 DEF Paged
<1> HIDE DEF p, new
<1>6. CASE p \notin pages
  <2>1. new = runs
    BY <1>6 DEF new, Mf!AddPage
  <2> HIDE DEF n
  <2>2. \A q \in pages : q < 4 * (i + 1) => q < 4 * i
    BY <1>5, <1>6
  <2>3. \A j \in 1..n : EndOf(runs[j]) <= 4 * (i + 1)
    BY <1>1, <1>3, <1>4
  <2> QED
    BY <1>1, <1>2, <2>1, <2>2, <2>3 DEF RunsHold, n, new, p
<1>7. CASE p \in pages /\ runs # <<>> /\ EndOf(runs[n]) = p
  <2> DEFINE longer == <<runs[n][1], runs[n][2] + 4>>
  <2>1. n >= 1
    BY <1>1, <1>7
  <2>2. new = [runs EXCEPT ![n] = longer]
    <3>1. runs # <<>> <=> n > 0
      OBVIOUS
    <3> QED
      BY <1>7, <3>1 DEF new, Mf!AddPage, EndOf
  <2>3. longer \in Run /\ longer[1] = runs[n][1] /\ EndOf(longer) = p + 4
    <3>1. n \in 1..n
      BY <1>1, <2>1
    <3>2. runs[n][1] \in Nat /\ runs[n][2] \in Nat
      BY <1>3, <3>1
    <3> HIDE DEF n
    <3>3. longer \in Run
      BY <3>2 DEF Run
    <3>4. longer[1] = runs[n][1] /\ longer[2] = runs[n][2] + 4
      OBVIOUS
    <3> HIDE DEF longer
    <3>5. EndOf(longer) = EndOf(runs[n]) + 4
      BY <3>2, <3>4 DEF EndOf
    <3> QED
      BY <1>7, <3>3, <3>4, <3>5
  <2> HIDE DEF longer
  <2>4. new \in Seq(Run) /\ Len(new) = n /\ new[n] = longer
        /\ \A j \in 1..n : j # n => new[j] = runs[j]
    BY <1>1, <2>1, <2>2, <2>3
  <2> HIDE DEF n
  <2>5. \A j \in 1..n : EndOf(new[j]) <= 4 * (i + 1)
    BY <1>1, <1>3, <1>4, <2>3, <2>4
  <2>6. ASSUME NEW j \in 1..n - 1
        PROVE  EndOf(new[j]) < new[j + 1][1]
    <3>1. j \in 1..n /\ j # n /\ j + 1 \in 1..n /\ EndOf(runs[j]) < runs[j + 1][1]
      BY <1>1, <1>2
    <3>2. new[j] = runs[j] /\ new[j + 1][1] = runs[j + 1][1]
      BY <2>3, <2>4, <3>1
    <3> QED
      BY <3>1, <3>2
  <2>7. ASSUME NEW q \in pages, q < 4 * (i + 1)
        PROVE  \E j \in 1..n : new[j][1] <= q /\ q + 4 <= EndOf(new[j])
    <3>1. n \in 1..n /\ runs[n][1] \in Nat
      BY <1>1, <1>3, <2>1
    <3>2. CASE q = p
      <4>1. runs[n][1] <= p
        BY <1>3, <1>7, <3>1 DEF EndOf
      <4>2. new[n][1] <= q /\ q + 4 <= EndOf(new[n])
        BY <1>4, <2>3, <2>4, <3>2, <4>1
      <4> QED
        BY <3>1, <4>2
    <3>3. CASE q < 4 * i
      <4>1. PICK j \in 1..n : runs[j][1] <= q /\ q + 4 <= EndOf(runs[j])
        BY <1>2, <3>3
      <4>2. CASE j = n
        <5>1. q \in Nat /\ q + 4 <= p + 4
          BY <1>4, <1>7, <3>3, <4>1, <4>2 DEF Paged
        <5> QED
          BY <2>3, <2>4, <3>1, <4>1, <4>2, <5>1
      <4>3. CASE j # n
        BY <2>4, <4>1, <4>3
      <4> QED
        BY <4>2, <4>3
    <3> QED
      BY <1>5, <2>7, <3>2, <3>3
  <2> QED
    BY <2>4, <2>5, <2>6, <2>7 DEF RunsHold, new, p
<1>8. CASE p \in pages /\ ~(runs # <<>> /\ EndOf(runs[n]) = p)
  <2> DEFINE run == <<p, 4>>
  <2>1. new = Append(runs, run)
    <3>1. runs # <<>> <=> n > 0
      OBVIOUS
    <3> QED
      BY <1>8, <3>1 DEF new, Mf!AddPage, EndOf
  <2>2. run \in Run /\ run[1] = p /\ EndOf(run) = p + 4
    BY <1>4 DEF Run, EndOf
  <2> HIDE DEF run
  <2>3. new \in Seq(Run) /\ Len(new) = n + 1 /\ new[n + 1] = run
        /\ \A j \in 1..n : new[j] = runs[j]
    BY <1>1, <2>1, <2>2
  <2>4. n >= 1 => EndOf(runs[n]) < p
    <3> SUFFICES ASSUME n >= 1 PROVE EndOf(runs[n]) < p
      OBVIOUS
    <3>1. runs # <<>> /\ n \in 1..n
      BY <1>1
    <3> HIDE DEF n
    <3>2. EndOf(runs[n]) # p /\ EndOf(runs[n]) <= 4 * i /\ EndOf(runs[n]) \in Nat
      BY <1>1, <1>3, <1>8, <3>1
    <3> QED
      BY <1>4, <3>2
  <2> HIDE DEF n
  <2>5. \A j \in 1..n + 1 : EndOf(new[j]) <= 4 * (i + 1)
    <3>1. \A j \in 1..n + 1 : j \in 1..n \/ j = n + 1
      BY <1>1
    <3> QED
      BY <1>1, <1>3, <1>4, <2>2, <2>3, <3>1
  <2>6. ASSUME NEW j \in 1..(n + 1) - 1
        PROVE  EndOf(new[j]) < new[j + 1][1]
    <3>1. j \in 1..n
      BY <1>1
    <3>2. CASE j = n
      <4>1. n >= 1
        BY <3>1, <3>2
      <4> QED
        BY <2>2, <2>3, <2>4, <3>1, <3>2, <4>1
    <3>3. CASE j # n
      <4>1. j \in 1..n - 1 /\ j + 1 \in 1..n
        BY <1>1, <3>1, <3>3
      <4> QED
        BY <1>2, <2>3, <3>1, <4>1
    <3> QED
      BY <3>2, <3>3
  <2>7. ASSUME NEW q \in pages, q < 4 * (i + 1)
        PROVE  \E j \in 1..n + 1 : new[j][1] <= q /\ q + 4 <= EndOf(new[j])
    <3>1. CASE q = p
      <4>1. n + 1 \in 1..n + 1
        BY <1>1
      <4>2. new[n + 1][1] <= q /\ q + 4 <= EndOf(new[n + 1])
        BY <1>4, <2>2, <2>3, <3>1
      <4> QED
        BY <4>1, <4>2
    <3>2. CASE q < 4 * i
      <4>1. PICK j \in 1..n : runs[j][1] <= q /\ q + 4 <= EndOf(runs[j])
        BY <1>2, <3>2
      <4>2. j \in 1..n + 1 /\ new[j] = runs[j]
        BY <1>1, <2>3
      <4> QED
        BY <4>1, <4>2
    <3> QED
      BY <1>5, <2>7, <3>1, <3>2
  <2> QED
    BY <1>1, <2>3, <2>5, <2>6, <2>7 DEF RunsHold, new, p
<1> QED
  BY <1>6, <1>7, <1>8 DEF new, p

(* The pages of the rows are whole pages, up to the end of the table. *)
LEMMA PagesAre ==
    ASSUME NEW rows, NEW table, table.offset \in Nat, table.rows \in Nat,
           table.width \in Nat \ {0}, \A r \in rows : r \in 0..table.rows - 1
    PROVE  \E K \in Nat : /\ Mf!PagesForRows(rows, table) \subseteq 0..K
                          /\ Paged(Mf!PagesForRows(rows, table))
<1> DEFINE w == table.width
           o == table.offset
           first(r) == Mf!PageOf(o + r * w)
           last(r) == Mf!PageOf(o + (r + 1) * w - 1)
           K == o + (table.rows + 1) * w
           P == Mf!PagesForRows(rows, table)
<1>1. P = UNION {{first(r), last(r)} : r \in rows}
  BY DEF Mf!PagesForRows
<1>2. \A b \in Nat : Mf!PageOf(b) \in Nat /\ Mf!PageOf(b) <= b /\ Mf!PageOf(b) % 4 = 0
  BY DEF Mf!PageOf
<1>3. K \in Nat
  OBVIOUS
<1>4. ASSUME NEW r \in 0..table.rows - 1
      PROVE  /\ o + r * w \in 0..K
             /\ o + (r + 1) * w - 1 \in 0..K
  <2> DEFINE a == r * w
             b == (r + 1) * w
             c == (table.rows + 1) * w
  <2>1. a \in Nat /\ b \in Nat /\ c \in Nat /\ a <= b /\ b <= c /\ b >= 1
    OBVIOUS
  <2> HIDE DEF a, b, c
  <2>2. o + a \in 0..o + c /\ o + b - 1 \in 0..o + c
    BY <2>1
  <2> QED
    BY <2>2 DEF a, b, c
<1> HIDE DEF K
<1>5. \A r \in rows : first(r) \in 0..K /\ last(r) \in 0..K /\ first(r) % 4 = 0 /\ last(r) % 4 = 0
  <2> SUFFICES ASSUME NEW r \in rows
               PROVE  first(r) \in 0..K /\ last(r) \in 0..K /\ first(r) % 4 = 0 /\ last(r) % 4 = 0
    OBVIOUS
  <2> DEFINE a == o + r * w
             b == o + (r + 1) * w - 1
  <2>1. a \in 0..K /\ b \in 0..K
    BY <1>4
  <2> HIDE DEF a, b
  <2>2. /\ Mf!PageOf(a) \in 0..K /\ Mf!PageOf(a) % 4 = 0
        /\ Mf!PageOf(b) \in 0..K /\ Mf!PageOf(b) % 4 = 0
    BY <1>2, <1>3, <2>1
  <2> QED
    BY <2>2 DEF a, b
<1> HIDE DEF first, last, P
<1>6. P \subseteq 0..K /\ Paged(P)
  BY <1>1, <1>3, <1>5 DEF Paged
<1> QED
  BY <1>3, <1>6 DEF P

(* And makes runs. *)
LEMMA AddsRuns ==
    ASSUME NEW pages, NEW p \in Nat, NEW runs \in Seq(Run)
    PROVE  Mf!AddPage(pages, runs, p) \in Seq(Run)
<1> DEFINE n == Len(runs)
           new == Mf!AddPage(pages, runs, p)
           longer == <<runs[n][1], runs[n][2] + 4>>
           run == <<p, 4>>
<1>1. n \in Nat /\ \A i \in 1..n : runs[i] \in Run
  OBVIOUS
<1>2. \/ new = runs
      \/ runs # <<>> /\ new = [runs EXCEPT ![n] = longer]
      \/ new = Append(runs, run)
  BY DEF Mf!AddPage
<1>3. run \in Run
  BY DEF Run
<1>4. runs # <<>> => longer \in Run
  <2> SUFFICES ASSUME runs # <<>> PROVE longer \in Run
    OBVIOUS
  <2>1. n \in 1..n
    OBVIOUS
  <2>2. runs[n][1] \in Nat /\ runs[n][2] \in Nat
    BY <1>1, <2>1 DEF Run
  <2> HIDE DEF n
  <2> QED
    BY <2>2 DEF Run
<1> HIDE DEF longer, run, new
<1>5. runs # <<>> => [runs EXCEPT ![n] = longer] \in Seq(Run)
  BY <1>4
<1>6. Append(runs, run) \in Seq(Run)
  BY <1>3
<1> QED
  BY <1>2, <1>5, <1>6 DEF new

\* What coalesce comes to holds every page, in runs that do not touch.
LEMMA Coalesced ==
    ASSUME NEW pages, NEW K \in Nat, pages \subseteq 0..K, Paged(pages)
    PROVE  \E N \in Nat : /\ RunsHold(pages, Mf!Coalesce(pages), N)
                          /\ \A p \in pages : p < 4 * N
<1> DEFINE m == Max(pages \union {0})
           N == m \div 4 + 1
           list == [i \in 1..N |-> (i - 1) * 4]
           V == Seq(Run)
           M(v, p) == Mf!AddPage(pages, v, p)
           g == [i \in 1..N |-> [v \in V |-> M(v, list[i])]]
           Is(h) == h = [s \in SUBSET (1..N) |->
                            IF s = {} THEN << >> ELSE M(h[s \ {Max(s)}], list[Max(s)])]
           h == CHOOSE h : Is(h)
<1>0. DOMAIN list = 1..N
  OBVIOUS
<1>1. Mf!Coalesce(pages) = h[1..N]
  BY <1>0 DEF Mf!Coalesce, Mf!FoldLeft, Mf!MapThenFoldSet, Mf!Max, Max
<1>2. m \in Nat /\ \A p \in pages : p <= m
  <2> DEFINE S == pages \union {0}
  <2>1. S \subseteq 0..K /\ S # {}
    OBVIOUS
  <2> HIDE DEF S
  <2>2. IsFiniteSet(S)
    <3>1. IsFiniteSet(0..K)
      <4>1. 0 \in Int /\ K \in Int
        OBVIOUS
      <4> QED
        BY <4>1, FS_Interval
    <3> QED
      BY <2>1, <3>1, FS_Subset
  <2>3. Max(S) \in S /\ \A y \in S : Max(S) >= y
    <3>1. S \subseteq Int
      BY <2>1
    <3> QED
      BY <2>1, <2>2, <3>1, LargestExists
  <2>4. Max(S) \in Nat
    <3>1. Max(S) \in 0..K
      BY <2>1, <2>3
    <3> HIDE DEF m
    <3> QED
      BY <3>1
  <2>5. \A p \in pages : p \in S /\ p \in Nat
    BY DEF S
  <2> QED
    BY <2>3, <2>4, <2>5 DEF S
<1> HIDE DEF m
<1>3. N \in Nat /\ m < 4 * N
  BY <1>2
<1>4. \A i \in 1..N : list[i] = (i - 1) * 4 /\ list[i] \in Nat
  BY <1>3
<1> HIDE DEF N, list
<1>5. << >> \in V
  OBVIOUS
<1>6. \A i \in 1..N, v \in V : M(v, list[i]) \in V
  BY <1>4, AddsRuns
<1> HIDE DEF V, M
<1>7. g \in [1..N -> [V -> V]]
  BY <1>6
<1>8. \A i \in 1..N, v \in V : g[i][v] = M(v, list[i])
  OBVIOUS
<1> HIDE DEF g
<1>9. PICK f : Folds(f, N, V, << >>, g)
  BY <1>3, <1>5, <1>7, FoldExists
<1>10. \A s \in SUBSET (1..N) : s # {} =>
         s \ {Max(s)} \in SUBSET (1..N) /\ Max(s) \in 1..N
  BY <1>3, LargestPlace
<1>11. Is(f)
  <2>1. ASSUME NEW s \in SUBSET (1..N)
        PROVE  f[s] = IF s = {} THEN << >> ELSE M(f[s \ {Max(s)}], list[Max(s)])
    BY <1>8, <1>9, <1>10 DEF Folds
  <2>2. f = [s \in SUBSET (1..N) |-> f[s]]
    BY <1>9 DEF Folds
  <2> QED
    BY <2>1, <2>2
<1>12. Is(h)
  <2> HIDE DEF Is
  <2> QED
    BY <1>11
<1> HIDE DEF h
<1>13. Follows(h, N, V, << >>, g)
  BY <1>8, <1>10, <1>12 DEF Follows
<1> HIDE DEF Is
<1>14. PICK r : RunsTo(r, N, V, << >>, g, h[1..N])
  BY <1>3, <1>9, <1>13, FoldsRun
<1>15. r[0] = << >> /\ r[N] = h[1..N] /\ r \in [0..N -> V]
  BY <1>14 DEF RunsTo
<1>16. \A i \in 1..N : r[i] = Mf!AddPage(pages, r[i - 1], (i - 1) * 4)
  BY <1>3, <1>4, <1>8, <1>14 DEF RunsTo, M
<1> HIDE DEF h
<1> DEFINE G == {i \in 0..N : RunsHold(pages, r[i], i)}
<1>17. 0 \in G
  <2>1. << >> \in Seq(Run) /\ Len(<< >>) = 0
    OBVIOUS
  <2>2. \A p \in pages : ~(p < 4 * 0)
    BY DEF Paged
  <2>3. RunsHold(pages, << >>, 0)
    BY <2>1, <2>2 DEF RunsHold
  <2> QED
    BY <1>3, <1>15, <2>3
<1>18. ASSUME NEW i \in 1..N, i - 1 \in G
       PROVE  i \in G
  <2>1. i - 1 \in Nat /\ (i - 1) + 1 = i /\ i \in 0..N
    BY <1>3
  <2>2. RunsHold(pages, r[i - 1], i - 1)
    BY <1>18
  <2>3. RunsHold(pages, Mf!AddPage(pages, r[i - 1], (i - 1) * 4), (i - 1) + 1)
    BY <2>1, <2>2, AddsPage
  <2> QED
    BY <1>16, <2>1, <2>3
<1>19. N \in G
  <2> HIDE DEF G
  <2>1. \A i \in 1..N : i - 1 \in G => i \in G
    BY <1>18
  <2>2. \A i \in 0..N : i \in G
    BY <1>3, <1>17, <2>1, UpTo
  <2> QED
    BY <1>3, <2>2
<1>20. RunsHold(pages, Mf!Coalesce(pages), N)
  BY <1>1, <1>15, <1>19
<1>21. \A p \in pages : p < 4 * N
  BY <1>2, <1>3 DEF Paged
<1> QED
  BY <1>3, <1>20, <1>21

\* Every byte of the rows is in the runs that are asked for.
LEMMA RowsStayCovered ==
    ASSUME NEW rows, NEW table, table.offset \in Nat, table.rows \in Nat, table.width \in Nat \ {0}
    PROVE  Mf!RowsAreCovered(rows, table)
<1> DEFINE pages == Mf!PagesForRows(rows, table)
           runs == Mf!Coalesce(pages)
           o == table.offset
           w == table.width
           span(i) == runs[i][1] .. runs[i][1] + runs[i][2] - 1
<1> SUFFICES ASSUME w <= 4 + 1, pages # None
             PROVE  /\ \A r \in rows : o + r * w .. o + (r + 1) * w - 1
                                          \subseteq UNION {span(i) : i \in DOMAIN runs}
                    /\ \A i \in 1..Len(runs) - 1 : runs[i][1] + runs[i][2] < runs[i + 1][1]
  BY DEF Mf!RowsAreCovered
<1>1. \A r \in rows : r \in 0..table.rows - 1
  BY DEF Mf!PagesForRows
<1>2. pages = UNION {{Mf!PageOf(o + r * w), Mf!PageOf(o + (r + 1) * w - 1)} : r \in rows}
  BY <1>1 DEF Mf!PagesForRows
<1>3. PICK K \in Nat : pages \subseteq 0..K /\ Paged(pages)
  BY <1>1, PagesAre
<1> HIDE DEF pages
<1>4. PICK N \in Nat : RunsHold(pages, runs, N) /\ \A p \in pages : p < 4 * N
  BY <1>3, Coalesced
<1> HIDE DEF runs
<1>5. runs \in Seq(Run) /\ DOMAIN runs = 1..Len(runs)
      /\ \A j \in 1..Len(runs) - 1 : runs[j][1] + runs[j][2] < runs[j + 1][1]
  BY <1>4 DEF RunsHold, EndOf
<1>6. ASSUME NEW r \in rows, NEW b \in o + r * w .. o + (r + 1) * w - 1
      PROVE  \E j \in 1..Len(runs) : b \in span(j)
  <2> DEFINE lo == o + r * w
             hi == o + (r + 1) * w - 1
             q == Mf!PageOf(b)
  <2>1. lo \in Nat /\ hi = lo + w - 1
    <3>1. r \in Nat
      BY <1>1
    <3>2. r * w \in Nat /\ (r + 1) * w = r * w + w
      BY <3>1
    <3> QED
      BY <3>2
  <2>2. b \in Nat /\ lo <= b /\ b <= hi
    BY <2>1
  <2>3. Mf!PageOf(lo) \in pages /\ Mf!PageOf(hi) \in pages
    BY <1>2
  <2> HIDE DEF lo, hi
  <2>4. q = Mf!PageOf(lo) \/ q = Mf!PageOf(hi)
    BY <2>1, <2>2 DEF Mf!PageOf
  <2>5. q \in pages /\ q \in Nat /\ q <= b /\ b < q + 4
    <3>1. q \in Nat /\ q <= b /\ b < q + 4
      BY <2>2 DEF Mf!PageOf
    <3> HIDE DEF q
    <3> QED
      BY <2>3, <2>4, <3>1
  <2> HIDE DEF q
  <2>6. PICK j \in 1..Len(runs) : runs[j][1] <= q /\ q + 4 <= EndOf(runs[j])
    BY <1>4, <2>5 DEF RunsHold
  <2>7. runs[j][1] \in Nat /\ runs[j][2] \in Nat
    BY <1>5 DEF Run
  <2>8. b \in span(j)
    <3> DEFINE a == runs[j][1]
               c == runs[j][2]
    <3>1. a <= q /\ q + 4 <= a + c
      BY <2>6 DEF EndOf
    <3>2. a \in Nat /\ c \in Nat
      BY <2>7
    <3> HIDE DEF a, c
    <3>3. b \in a .. a + c - 1
      BY <2>2, <2>5, <3>1, <3>2
    <3> QED
      BY <3>3 DEF a, c
  <2> QED
    BY <2>8
<1> HIDE DEF span
<1> QED
  BY <1>5, <1>6

(* The architecture read on the request path is the one admission accepted; an
   appendix is found just when it is at its place, in a file of one size; a
   prompt is read as its tokens or as none; the pages asked for hold every byte
   of the rows; and no row depends on what stood in front of an end of text
   (gguf.read_string_key, parse_checkpoint_appendix, decode_prompt_tokens,
   pages_for_rows, coalesce, rows_for_sequence). *)
THEOREM ReadersAgree == Spec => []ReadsAgree
<1>1. CallInv => ReadsAgree
  <2> SUFFICES ASSUME CallInv
               PROVE  ReadsAgree
    OBVIOUS
  <2> DEFINE h == call.of
             all == Mf!ReadStringKey(h, "arch", TRUE)
             quick == Mf!ReadStringKey(h, "arch", FALSE)
  <2>1. ASSUME call.rule = "header"
        PROVE  /\ Mf!QuickReadAgrees(h, "arch")
               /\ all # None => (Mf!SupportsPrefixReuse(quick, {}, {<<"x">>})
                                      <=> BareName(all) \notin {<<>>, <<"x">>})
    <3>1. h \in Headers
      BY <2>1 DEF CallInv
    <3>2. Entered(h)
      BY <3>1, HeaderAssumption DEF Entered
    <3>3. all # None => quick = all /\ Mf!ReadMetadata(h, {"arch"}, {}, 1)["arch"] = all
      BY <3>2, QuickReadsAgree
    <3>4. Mf!QuickReadAgrees(h, "arch")
      BY <3>3 DEF Mf!QuickReadAgrees
    <3> HIDE DEF all, quick
    <3>5. all # None => (Mf!SupportsPrefixReuse(quick, {}, {<<"x">>})
                             <=> BareName(all) \notin {<<>>, <<"x">>})
      BY <3>3 DEF Mf!SupportsPrefixReuse
    <3> QED
      BY <3>4, <3>5
  <2> DEFINE own == [says |-> Sz!ParseStream(h.a, h.start, h.size), version |-> h.a.version]
             usable(size) == Sz!AppendixAt(h.a, h.start, size) = "ok"
  <2>2. ASSUME call.rule = "appendix"
        PROVE  /\ usable(h.size) <=> Sz!ParseAppendix(Append(h.noise, own)) = "ok"
               /\ usable(h.size) => \A size \in 0..h.size + 8 : usable(size) => size = h.size
    <3>1. h \in Appendices
      BY <2>2 DEF CallInv
    <3>2. /\ h.noise \in Seq(Range(h.noise)) /\ h.start \in Nat /\ h.size \in Nat
          /\ \A n \in Range(h.noise) : n.says # "ok"
      BY <3>1, AppendixAssumption
    <3>3. Recorded(h.a)
      BY <3>1, AppendixAssumption DEF Recorded, Measurable
    <3>4. ASSUME NEW size \in Int
          PROVE  usable(size) <=> Sz!ParseStream(h.a, h.start, size) = "ok"
      BY <3>2, UsableIsOk
    <3>5. Sz!ParseAppendix(Append(h.noise, own)) = "ok" <=> own.says = "ok"
      <4> DEFINE S == Range(h.noise) \union {own}
      <4>1. h.noise \in Seq(S) /\ own \in S
        BY <3>2
      <4>2. \A i \in DOMAIN h.noise : h.noise[i].says # "ok"
        BY <3>2 DEF Range
      <4> HIDE DEF S, own, h
      <4> QED
        BY <4>1, <4>2, SearchFinds
    <3>6. usable(h.size) <=> own.says = "ok"
      BY <3>2, <3>4
    <3>7. ASSUME usable(h.size), NEW size \in 0..h.size + 8, usable(size)
          PROVE  size = h.size
      <4>1. size \in Int /\ h.size \in Int /\ h.start \in Int
        BY <3>2
      <4>2. Sz!ParseStream(h.a, h.start, size) = "ok" /\ Sz!ParseStream(h.a, h.start, h.size) = "ok"
        BY <3>4, <3>7, <4>1
      <4> HIDE DEF h
      <4> QED
        BY <3>3, <4>1, <4>2, StreamEndsOnce
    <3> HIDE DEF usable, own
    <3> QED
      BY <3>5, <3>6, <3>7
  <2> DEFINE packed == IF h.media = None THEN h.ids
                       ELSE <<-1, 1, Len(h.ids)>> \o h.ids \o <<h.media>>
             read == Sz!DecodePrompt(SubSeq(packed, 1, Len(packed) - h.cut))
  <2>3. ASSUME call.rule = "prompt"
        PROVE  h.media # None => read \in {<<>>, <<-1>>} \union IF h.media = 0 \/ h.cut > 0
                                                                THEN {h.ids} ELSE {}
    <3>1. h \in Prompts
      BY <2>3 DEF CallInv
    <3>2. h.ids \in Seq(Nat) /\ h.media \in Nat \union {None} /\ h.cut \in Nat
      BY <3>1, PromptAssumption
    <3> HIDE DEF h
    <3>3. ASSUME h.media # None
          PROVE  read \in {<<>>, <<-1>>} \union IF h.media = 0 \/ h.cut > 0 THEN {h.ids} ELSE {}
      <4>1. h.media \in Nat
        BY <3>2, <3>3
      <4>2. packed = Packed(h.ids, h.media)
        BY <3>3 DEF Packed
      <4> HIDE DEF packed
      <4> QED
        BY <3>2, <4>1, <4>2, PromptIsItsTokens
    <3> QED
      BY <3>3
  <2>4. ASSUME call.rule = "pages"
        PROVE  Mf!RowsAreCovered(h.rows, h.table)
    <3>1. h \in Tables
      BY <2>4 DEF CallInv
    <3> QED
      BY <3>1, TableAssumption, RowsStayCovered
  <2>5. ASSUME call.rule = "texts"
        PROVE  Mf!TextsAreApart(h.before, h.after)
    <3>1. h \in Texts
      BY <2>5 DEF CallInv
    <3> QED
      BY <3>1, TextAssumption, TextsStayApart
  <2> QED
    BY <2>1, <2>2, <2>3, <2>4, <2>5 DEF ReadsAgree, Of
<1> QED
  BY <1>1, CallsAreOfTheirFamily, PTL

-----------------------------------------------------------------------------
\* sum is what the numbers of a list add up to, up to each place.
SumsUp(sum, s, n) ==
    /\ sum \in [0..n -> Int]
    /\ sum[0] = 0
    /\ \A i \in 1..n : sum[i] = sum[i - 1] + s[i]

Numbers(s, n) == DOMAIN s = 1..n /\ \A i \in 1..n : s[i] \in Int

\* A list has such sums, and the fold of it is the last of them.
LEMMA SumsExist ==
    ASSUME NEW n \in Nat, NEW s, Numbers(s, n)
    PROVE  \E sum : SumsUp(sum, s, n) /\ Ma!Total(s) = sum[n]
<1> DEFINE g == [i \in 1..n |-> [v \in Int |-> v + s[i]]]
           Is(h) == h = [u \in SUBSET (1..n) |->
                            IF u = {} THEN 0 ELSE h[u \ {Max(u)}] + s[Max(u)]]
           h == CHOOSE h : Is(h)
<1>0. DOMAIN s = 1..n /\ \A i \in 1..n : s[i] \in Int
  BY DEF Numbers
<1>1. Ma!Total(s) = h[1..n]
  BY <1>0 DEF Ma!Total, Ma!FoldLeft, Ma!MapThenFoldSet, Ma!Max, Max
<1>2. g \in [1..n -> [Int -> Int]] /\ 0 \in Int
  BY <1>0
<1>3. \A i \in 1..n, v \in Int : g[i][v] = v + s[i]
  OBVIOUS
<1> HIDE DEF g
<1> DEFINE V == Int
<1>4. g \in [1..n -> [V -> V]] /\ 0 \in V
  BY <1>2
<1> HIDE DEF V
<1>5. PICK f : Folds(f, n, V, 0, g)
  BY <1>4, FoldExists
<1>6. \A u \in SUBSET (1..n) : u # {} =>
         u \ {Max(u)} \in SUBSET (1..n) /\ Max(u) \in 1..n
  BY LargestPlace
<1>7. Is(f)
  <2>1. ASSUME NEW u \in SUBSET (1..n)
        PROVE  f[u] = IF u = {} THEN 0 ELSE f[u \ {Max(u)}] + s[Max(u)]
    BY <1>3, <1>5, <1>6 DEF Folds, V
  <2>2. f = [u \in SUBSET (1..n) |-> f[u]]
    BY <1>5 DEF Folds
  <2> QED
    BY <2>1, <2>2
<1>8. Is(h)
  <2> HIDE DEF Is
  <2> QED
    BY <1>7
<1> HIDE DEF h
<1>9. Follows(h, n, V, 0, g)
  BY <1>3, <1>6, <1>8 DEF Follows, V
<1> HIDE DEF Is
<1>10. PICK r : RunsTo(r, n, V, 0, g, h[1..n])
  BY <1>5, <1>9, FoldsRun
<1>11. \A i \in 1..n : r[i] = r[i - 1] + s[i]
  BY <1>3, <1>10 DEF RunsTo, V
<1>12. r \in [0..n -> Int] /\ r[0] = 0 /\ r[n] = h[1..n]
  BY <1>10 DEF RunsTo, V
<1> HIDE DEF h
<1> QED
  BY <1>1, <1>11, <1>12 DEF SumsUp

\* It is the same for every such sum.
LEMMA SumIs ==
    ASSUME NEW n \in Nat, NEW s, Numbers(s, n), NEW sum, SumsUp(sum, s, n)
    PROVE  Ma!Total(s) = sum[n]
<1>1. PICK r : SumsUp(r, s, n) /\ Ma!Total(s) = r[n]
  BY SumsExist
<1> DEFINE G == {i \in 0..n : r[i] = sum[i]}
<1>2. 0 \in G
  <2>1. r[0] = 0 /\ sum[0] = 0
    <3> HIDE DEF G
    <3> QED
      BY <1>1 DEF SumsUp
  <2>2. 0 \in 0..n
    OBVIOUS
  <2> QED
    BY <2>1, <2>2
<1>3. ASSUME NEW i \in 1..n, i - 1 \in G PROVE i \in G
  <2>1. r[i] = r[i - 1] + s[i] /\ sum[i] = sum[i - 1] + s[i]
    BY <1>1 DEF SumsUp
  <2> QED
    BY <1>3, <2>1
<1>4. n \in G
  <2> HIDE DEF G
  <2>1. \A i \in 1..n : i - 1 \in G => i \in G
    BY <1>3
  <2>2. \A i \in 0..n : i \in G
    BY <1>2, <2>1, UpTo
  <2> QED
    BY <2>2
<1> QED
  BY <1>1, <1>4

\* Where the pieces begin.
LEMMA StartsAre ==
    ASSUME NEW pieces \in Seq(Nat)
    PROVE  \E sum : /\ SumsUp(sum, pieces, Len(pieces))
                    /\ \A i \in 0..Len(pieces) : Ma!Start(pieces, i) = sum[i]
<1> DEFINE n == Len(pieces)
<1>1. n \in Nat /\ DOMAIN pieces = 1..n /\ \A i \in 1..n : pieces[i] \in Int
  OBVIOUS
<1>2. Numbers(pieces, n)
  BY <1>1 DEF Numbers
<1>3. PICK sum : SumsUp(sum, pieces, n)
  BY <1>1, <1>2, SumsExist
<1> HIDE DEF n
<1>4. ASSUME NEW i \in 0..n
      PROVE  Ma!Start(pieces, i) = sum[i]
  <2> DEFINE s == SubSeq(pieces, 1, i)
             part == [j \in 0..i |-> sum[j]]
  <2>0. i \in Nat /\ 0..i \subseteq 0..n /\ 1..i \subseteq 1..n
    BY <1>1
  <2>1. DOMAIN s = 1..i /\ \A j \in 1..i : s[j] = pieces[j]
    BY <1>1 DEF n
  <2> HIDE DEF s
  <2>2. Numbers(s, i)
    BY <1>1, <2>0, <2>1 DEF Numbers
  <2>3. SumsUp(part, s, i)
    <3>1. part \in [0..i -> Int] /\ part[0] = 0
      <4>1. sum \in [0..n -> Int] /\ sum[0] = 0 /\ 0 \in 0..i
        BY <1>3, <2>0 DEF SumsUp
      <4>2. \A j \in 0..i : sum[j] \in Int
        BY <2>0, <4>1
      <4> QED
        BY <4>1, <4>2
    <3>2. ASSUME NEW j \in 1..i PROVE part[j] = part[j - 1] + s[j]
      <4>1. j \in 1..n /\ j \in 0..i /\ j - 1 \in 0..i
        BY <2>0
      <4> QED
        BY <1>3, <2>1, <4>1 DEF SumsUp
    <3> HIDE DEF part
    <3> QED
      BY <3>1, <3>2 DEF SumsUp
  <2>4. part[i] = sum[i]
    BY <2>0
  <2> HIDE DEF part
  <2> QED
    BY <2>0, <2>2, <2>3, <2>4, SumIs DEF Ma!Start, s
<1> QED
  BY <1>3, <1>4 DEF n

\* Sums of sizes grow.
LEMMA SumsGrow ==
    ASSUME NEW n \in Nat, NEW s, \A i \in 1..n : s[i] \in Nat, NEW sum, SumsUp(sum, s, n)
    PROVE  /\ \A i \in 0..n : sum[i] \in Nat
           /\ \A i \in 1..n : sum[i - 1] <= sum[i] /\ sum[i] <= sum[n]
<1> DEFINE G == {i \in 0..n : sum[i] \in Nat /\ \A j \in 0..i : sum[j] <= sum[i]}
<1>0. sum \in [0..n -> Int] /\ sum[0] = 0 /\ \A i \in 1..n : sum[i] = sum[i - 1] + s[i]
  BY DEF SumsUp
<1>1. 0 \in G
  BY <1>0
<1>2. ASSUME NEW i \in 1..n, i - 1 \in G PROVE i \in G
  <2>1. sum[i] = sum[i - 1] + s[i] /\ s[i] \in Nat /\ sum[i - 1] \in Nat
        /\ \A j \in 0..i - 1 : sum[j] <= sum[i - 1]
    BY <1>0, <1>2
  <2>2. sum[i] \in Nat
    BY <2>1
  <2>3. ASSUME NEW j \in 0..i PROVE sum[j] <= sum[i]
    <3>1. CASE j = i
      BY <2>2, <3>1
    <3>2. CASE j # i
      <4>1. j \in 0..i - 1 /\ j \in 0..n
        BY <3>2
      <4>2. sum[j] \in Int /\ sum[j] <= sum[i - 1]
        BY <1>0, <2>1, <4>1
      <4> QED
        BY <2>1, <4>2
    <3> QED
      BY <3>1, <3>2
  <2>4. i \in 0..n
    OBVIOUS
  <2> QED
    BY <2>2, <2>3, <2>4
<1>3. \A i \in 0..n : i \in G
  <2> HIDE DEF G
  <2>1. \A i \in 1..n : i - 1 \in G => i \in G
    BY <1>2
  <2> QED
    BY <1>1, <2>1, UpTo
<1>4. \A i \in 0..n : sum[i] \in Nat
  BY <1>3
<1>5. ASSUME NEW i \in 1..n
      PROVE  sum[i - 1] <= sum[i] /\ sum[i] <= sum[n]
  <2>1. i \in G /\ n \in G /\ i - 1 \in 0..i /\ i \in 0..n
    BY <1>3
  <2> QED
    BY <2>1
<1> QED
  BY <1>4, <1>5

\* How many numbers a..b-1 and c..d-1 share.
SharedLength(a, b, c, d) ==
    LET low  == IF a > c THEN a ELSE c
        high == IF b < d THEN b ELSE d
    IN  IF high > low THEN high - low ELSE 0

\* The overlap of two pieces is the number of bytes in both.
LEMMA SharedIsCounted ==
    ASSUME NEW a \in Int, NEW b \in Int, NEW c \in Int, NEW d \in Int
    PROVE  /\ Ma!Max({0, Ma!Min({b, d}) - Ma!Max({a, c})}) = SharedLength(a, b, c, d)
           /\ Cardinality((a .. b - 1) \intersect (c .. d - 1)) = SharedLength(a, b, c, d)
<1> DEFINE low  == IF a > c THEN a ELSE c
           high == IF b < d THEN b ELSE d
<1>1. low \in Int /\ high \in Int
  OBVIOUS
<1>2. ASSUME NEW x \in Int, NEW y \in Int
      PROVE  /\ Ma!Max({x, y}) = IF x > y THEN x ELSE y
             /\ Ma!Min({x, y}) = IF x < y THEN x ELSE y
  <2>1. (IF x > y THEN x ELSE y) \in {x, y} /\ (IF x < y THEN x ELSE y) \in {x, y}
    OBVIOUS
  <2> DEFINE m == Ma!Max({x, y})
             k == Ma!Min({x, y})
  <2>2. m \in {x, y} /\ \A z \in {x, y} : m >= z
    BY DEF Ma!Max, Max
  <2>3. k \in {x, y} /\ \A z \in {x, y} : k <= z
    BY DEF Ma!Min, Min
  <2> HIDE DEF m, k
  <2>4. m = (IF x > y THEN x ELSE y) /\ k = (IF x < y THEN x ELSE y)
    BY <2>2, <2>3
  <2> QED
    BY <2>4 DEF m, k
<1>3. Ma!Min({b, d}) = high /\ Ma!Max({a, c}) = low
  BY <1>2
<1>4. (a .. b - 1) \intersect (c .. d - 1) = low .. high - 1
  OBVIOUS
<1>5. SharedLength(a, b, c, d) = IF high > low THEN high - low ELSE 0
  BY DEF SharedLength
<1> HIDE DEF low, high
<1>6. Ma!Max({0, high - low}) = IF high > low THEN high - low ELSE 0
  <2>1. high - low \in Int /\ 0 \in Int
    BY <1>1
  <2>2. Ma!Max({0, high - low}) = IF 0 > high - low THEN 0 ELSE high - low
    BY <1>2, <2>1
  <2> QED
    BY <1>1, <2>2
<1>7. Cardinality(low .. high - 1) = IF high > low THEN high - low ELSE 0
  <2>1. Cardinality(low .. high - 1) = IF low > high - 1 THEN 0 ELSE high - 1 - low + 1
    BY <1>1, FS_Interval
  <2> QED
    BY <1>1, <2>1
<1> QED
  BY <1>3, <1>4, <1>5, <1>6, <1>7

\* Two tokenizations of one text: pieces with a length, and one length for a text.
OfOneText(source, target) ==
    /\ source.pieces \in Seq(Nat) /\ target.pieces \in Seq(Nat)
    /\ source.text = target.text =>
          Ma!Start(source.pieces, Len(source.pieces)) = Ma!Start(target.pieces, Len(target.pieces))

\* What a row of weights is: the bytes shared with each piece of the source, that
\* is, all bytes of the piece.
WeighsWhole(source, target, t) ==
    LET w == Ma!Align(source, target)
        bytes(pieces, i) == Ma!Start(pieces, i - 1) .. Ma!Stop(pieces, i - 1) - 1
    IN  /\ \A s \in DOMAIN w[t] :
              w[t][s] = Cardinality(bytes(target.pieces, t) \intersect bytes(source.pieces, s))
        /\ Ma!Total(w[t]) = target.pieces[t]

LEMMA AlignedWeighsWhole ==
    ASSUME NEW source, NEW target, OfOneText(source, target),
           Ma!Align(source, target) # <<>>,
           NEW t \in DOMAIN Ma!Align(source, target)
    PROVE  WeighsWhole(source, target, t)
<1> DEFINE p == source.pieces
           q == target.pieces
           m == Len(p)
           n == Len(q)
           w == Ma!Align(source, target)
<1>1. /\ p \in Seq(Nat) /\ q \in Seq(Nat) /\ m \in Nat /\ n \in Nat
      /\ \A i \in 1..m : p[i] \in Nat
      /\ \A i \in 1..n : q[i] \in Nat
  BY DEF OfOneText
<1>2. /\ source.text = target.text
      /\ w = [u \in 1..n |-> [s \in 1..m |-> Ma!Overlap(q, u - 1, p, s - 1)]]
  BY DEF Ma!Align
<1>3. Ma!Start(p, m) = Ma!Start(q, n)
  BY <1>2 DEF OfOneText
<1>4. t \in 1..n /\ w[t] = [s \in 1..m |-> Ma!Overlap(q, t - 1, p, s - 1)]
  BY <1>2
<1> HIDE DEF w
<1>5. PICK S : SumsUp(S, p, m) /\ \A i \in 0..m : Ma!Start(p, i) = S[i]
  BY <1>1, StartsAre
<1>6. PICK Q : SumsUp(Q, q, n) /\ \A i \in 0..n : Ma!Start(q, i) = Q[i]
  BY <1>1, StartsAre
<1> HIDE DEF m, n, p, q
<1>7. /\ \A i \in 0..m : S[i] \in Nat
      /\ \A i \in 1..m : S[i - 1] <= S[i] /\ S[i] <= S[m]
  BY <1>1, <1>5, SumsGrow
<1>8. /\ \A i \in 0..n : Q[i] \in Nat
      /\ \A i \in 1..n : Q[i - 1] <= Q[i] /\ Q[i] <= Q[n]
  BY <1>1, <1>6, SumsGrow
<1>9. S[0] = 0 /\ Q[t] = Q[t - 1] + q[t] /\ S[m] = Q[n]
  <2>1. m \in 0..m /\ n \in 0..n
    BY <1>1
  <2>2. S[0] = 0 /\ Q[t] = Q[t - 1] + q[t]
    BY <1>4, <1>5, <1>6 DEF SumsUp
  <2> QED
    BY <1>3, <1>5, <1>6, <2>1, <2>2
<1> DEFINE a == Q[t - 1]
           b == Q[t]
<1>10. a \in Nat /\ b \in Nat /\ a <= b /\ b <= S[m] /\ b - a = q[t]
  <2>1. t - 1 \in 0..n /\ t \in 0..n
    BY <1>1, <1>4
  <2> QED
    BY <1>1, <1>4, <1>8, <1>9, <2>1
<1>11. /\ Ma!Start(q, t - 1) = a /\ Ma!Stop(q, t - 1) = b
       /\ \A s \in 1..m : Ma!Start(p, s - 1) = S[s - 1] /\ Ma!Stop(p, s - 1) = S[s]
  <2>1. t - 1 \in 0..n /\ t \in 0..n /\ t - 1 + 1 = t
    BY <1>1, <1>4
  <2>2. \A s \in 1..m : s - 1 \in 0..m /\ s \in 0..m /\ s - 1 + 1 = s
    BY <1>1
  <2>3. Ma!Start(q, t - 1) = a /\ Ma!Stop(q, t - 1) = b
    BY <1>6, <2>1 DEF Ma!Stop
  <2>4. ASSUME NEW s \in 1..m
        PROVE  Ma!Start(p, s - 1) = S[s - 1] /\ Ma!Stop(p, s - 1) = S[s]
    BY <1>5, <2>2 DEF Ma!Stop
  <2> QED
    BY <2>3, <2>4
<1>12. \A s \in 1..m : S[s - 1] \in Nat /\ S[s] \in Nat
  <2>1. \A s \in 1..m : s - 1 \in 0..m /\ s \in 0..m
    BY <1>1
  <2> QED
    BY <1>7, <2>1
<1> HIDE DEF a, b
<1>13. ASSUME NEW s \in 1..m
       PROVE  /\ w[t][s] = SharedLength(a, b, S[s - 1], S[s])
              /\ Cardinality((a .. b - 1) \intersect (S[s - 1] .. S[s] - 1))
                    = SharedLength(a, b, S[s - 1], S[s])
  <2>1. w[t][s] = Ma!Max({0, Ma!Min({b, S[s]}) - Ma!Max({a, S[s - 1]})})
    BY <1>4, <1>11 DEF Ma!Overlap
  <2>2. a \in Int /\ b \in Int /\ S[s - 1] \in Int /\ S[s] \in Int
    BY <1>10, <1>12
  <2> DEFINE c == S[s - 1]
             d == S[s]
  <2>3. c \in Int /\ d \in Int /\ a \in Int /\ b \in Int
    BY <2>2
  <2>4. w[t][s] = Ma!Max({0, Ma!Min({b, d}) - Ma!Max({a, c})})
    BY <2>1
  <2> HIDE DEF c, d
  <2>5. /\ Ma!Max({0, Ma!Min({b, d}) - Ma!Max({a, c})}) = SharedLength(a, b, c, d)
        /\ Cardinality((a .. b - 1) \intersect (c .. d - 1)) = SharedLength(a, b, c, d)
    BY <2>3, SharedIsCounted
  <2>6. w[t][s] = SharedLength(a, b, c, d)
    BY <2>4, <2>5
  <2> QED
    BY <2>5, <2>6 DEF c, d
<1>14. ASSUME NEW s \in DOMAIN w[t]
       PROVE  w[t][s] = Cardinality((Ma!Start(q, t - 1) .. Ma!Stop(q, t - 1) - 1)
                                      \intersect (Ma!Start(p, s - 1) .. Ma!Stop(p, s - 1) - 1))
  <2>1. s \in 1..m
    BY <1>4
  <2>2. w[t][s] = Cardinality((a .. b - 1) \intersect (S[s - 1] .. S[s] - 1))
    BY <1>13, <2>1
  <2> QED
    BY <1>11, <2>1, <2>2
<1> DEFINE upTo(s) == LET high == IF b < S[s] THEN b ELSE S[s]
                      IN  IF high > a THEN high - a ELSE 0
           sum == [s \in 0..m |-> upTo(s)]
<1>15. SumsUp(sum, w[t], m)
  <2>1. \A s \in 0..m : upTo(s) \in Int
    BY <1>7, <1>10
  <2>2. 0 \in 0..m /\ upTo(0) = 0
    BY <1>1, <1>9, <1>10
  <2>3. ASSUME NEW s \in 1..m
        PROVE  upTo(s) = upTo(s - 1) + w[t][s]
    <3>1. S[s - 1] <= S[s] /\ S[s - 1] \in Nat /\ S[s] \in Nat
      BY <1>7, <1>12
    <3>2. w[t][s] = SharedLength(a, b, S[s - 1], S[s])
      BY <1>13
    <3>3. upTo(s) = upTo(s - 1) + SharedLength(a, b, S[s - 1], S[s])
      BY <1>10, <3>1 DEF SharedLength
    <3> QED
      BY <3>2, <3>3
  <2>4. \A s \in 1..m : s \in 0..m /\ s - 1 \in 0..m
    BY <1>1
  <2> HIDE DEF upTo
  <2>5. sum \in [0..m -> Int] /\ sum[0] = 0
    BY <2>1, <2>2
  <2>6. \A s \in 1..m : sum[s] = sum[s - 1] + w[t][s]
    BY <2>3, <2>4
  <2> HIDE DEF sum
  <2> QED
    BY <2>5, <2>6 DEF SumsUp
<1>16. Numbers(w[t], m)
  <2>1. DOMAIN w[t] = 1..m
    BY <1>4
  <2>2. ASSUME NEW s \in 1..m PROVE w[t][s] \in Int
    <3>1. S[s - 1] \in Int /\ S[s] \in Int /\ a \in Int /\ b \in Int
      BY <1>10, <1>12
    <3>2. SharedLength(a, b, S[s - 1], S[s]) \in Int
      BY <3>1 DEF SharedLength
    <3> QED
      BY <1>13, <3>2
  <2> QED
    BY <2>1, <2>2 DEF Numbers
<1>17. sum[m] = q[t]
  <2>1. m \in 0..m
    BY <1>1
  <2>2. upTo(m) = b - a
    <3>1. S[m] \in Nat
      BY <1>7, <2>1
    <3> QED
      BY <1>10, <3>1
  <2> HIDE DEF upTo
  <2> QED
    BY <1>10, <2>1, <2>2
<1> HIDE DEF sum, upTo
<1>18. Ma!Total(w[t]) = q[t]
  BY <1>1, <1>15, <1>16, <1>17, SumIs
<1> QED
  BY <1>14, <1>18 DEF WeighsWhole, w, p, q

\* What is d times y and less than d more has the quotient y.
LEMMA QuotientIs ==
    ASSUME NEW d \in Nat \ {0}, NEW y \in Int, NEW e \in 0..d - 1, NEW n \in Int, n = d * y + e
    PROVE  n \div d = y /\ n % d = e
<1> DEFINE q == n \div d
           r == n % d
<1>1. q \in Int /\ r \in 0..d - 1 /\ n = d * q + r
  OBVIOUS
<1> HIDE DEF q, r
<1>2. d * (q - y) = e - r /\ e - r < d /\ r - e < d
  BY <1>1
<1>3. q - y = 0
  <2>1. CASE q - y >= 1
    <3>1. d * (q - y) >= d
      BY <1>1, <2>1
    <3> QED
      BY <1>1, <1>2, <3>1
  <2>2. CASE q - y <= -1
    <3>1. d * (q - y) <= -d
      BY <1>1, <2>2
    <3> QED
      BY <1>1, <1>2, <3>1
  <2> QED
    BY <1>1, <2>1, <2>2
<1>4. q = y /\ r = e
  <2>1. q = y
    BY <1>1, <1>3
  <2> QED
    BY <1>1, <2>1
<1> QED
  BY <1>4 DEF q, r

\* Dividing twice is dividing once by the product.
LEMMA DividedTwice ==
    ASSUME NEW a \in Nat, NEW d \in Nat \ {0}, NEW g \in Nat \ {0}
    PROVE  (a \div d) \div g = a \div (g * d)
<1> DEFINE x == a \div d
           r == a % d
           y == x \div g
           s == x % g
<1>1. x \in Nat /\ r \in 0..d - 1 /\ a = d * x + r
  OBVIOUS
<1>2. y \in Nat /\ s \in 0..g - 1 /\ x = g * y + s
  BY <1>1
<1> HIDE DEF x, r, y, s
<1> DEFINE D == g * d
           e == d * s + r
<1>3. D \in Nat \ {0}
  BY SMT
<1>4. a = D * y + e
  <2>1. d * x = d * (g * y) + d * s
    BY <1>1, <1>2
  <2>2. d * (g * y) = (g * d) * y
    BY <1>2
  <2> QED
    BY <1>1, <1>2, <2>1, <2>2
<1>5. e \in 0..D - 1
  <2>1. d * s >= 0 /\ d * s <= d * (g - 1)
    BY <1>2
  <2>2. d * (g - 1) = g * d - d
    OBVIOUS
  <2>3. d * s \in Int
    BY <1>2
  <2> QED
    BY <1>1, <2>1, <2>2, <2>3
<1> HIDE DEF D, e
<1>6. a \div D = y
  BY <1>2, <1>3, <1>4, <1>5, QuotientIs
<1> QED
  BY <1>6 DEF D, x, y

\* Rounding keeps the order.
LEMMA RoundInOrder ==
    ASSUME NEW d \in Nat \ {0}, NEW m \in Nat, NEW n \in Nat, m <= n
    PROVE  Ma!Round(m, d) \in Nat /\ Ma!Round(m, d) <= Ma!Round(n, d)
<1> DEFINE p == m \div d
           u == m % d
           q == n \div d
           r == n % d
<1>1. p \in Nat /\ u \in 0..d - 1 /\ m = d * p + u
  OBVIOUS
<1>2. q \in Nat /\ r \in 0..d - 1 /\ n = d * q + r
  OBVIOUS
<1>3. /\ Ma!Round(m, d) = IF 2 * u > d \/ (2 * u = d /\ p % 2 = 1) THEN p + 1 ELSE p
      /\ Ma!Round(n, d) = IF 2 * r > d \/ (2 * r = d /\ q % 2 = 1) THEN q + 1 ELSE q
  BY DEF Ma!Round
<1> HIDE DEF p, u, q, r
<1>4. p <= q
  <2> SUFFICES ASSUME p >= q + 1 PROVE FALSE
    BY <1>1, <1>2
  <2>1. d * p >= d * (q + 1)
    BY <1>1, <1>2
  <2>2. d * (q + 1) = d * q + d /\ d * q \in Int /\ d * p \in Int
    BY <1>1, <1>2
  <2> QED
    BY <1>1, <1>2, <2>1, <2>2
<1>5. p = q => u <= r
  BY <1>1, <1>2
<1> QED
  BY <1>1, <1>2, <1>3, <1>4, <1>5

\* It leaves a multiple as it is.
LEMMA RoundOfWhole ==
    ASSUME NEW d \in Nat \ {0}, NEW k \in Nat
    PROVE  Ma!Round(d * k, d) = k
<1> DEFINE n == d * k
<1>1. n \in Int /\ n = d * k + 0 /\ 0 \in 0..d - 1 /\ k \in Int
  OBVIOUS
<1> HIDE DEF n
<1>2. n \div d = k /\ n % d = 0
  BY <1>1, QuotientIs
<1>3. Ma!Round(n, d) = k
  BY <1>2 DEF Ma!Round
<1> QED
  BY <1>3 DEF n

\* The map of layers: from the first to the last, in order.
LEMMA LayersAreSpread ==
    ASSUME NEW source \in Nat \ {0}, NEW target \in Nat \ {0}
    PROVE  LET layer == Ma!DepthLayerMap(source, target)
           IN  /\ DOMAIN layer = 0..target - 1
               /\ \A t \in 0..target - 1 : layer[t] \in 0..source - 1
               /\ \A t, u \in 0..target - 1 : t <= u => layer[t] <= layer[u]
               /\ layer[0] = 0
               /\ target > 1 => layer[target - 1] = source - 1
<1> DEFINE layer == Ma!DepthLayerMap(source, target)
           k == source - 1
           d == target - 1
<1>0. k \in Nat /\ d \in Nat /\ 0 \in 0..d /\ d \in 0..d
  OBVIOUS
<1>1. layer = [t \in 0..d |-> IF target = 1 THEN 0 ELSE Ma!Round(t * k, d)]
  BY DEF Ma!DepthLayerMap
<1> HIDE DEF layer, k
<1>2. CASE target = 1
  <2>1. \A t \in 0..d : layer[t] = 0
    BY <1>1, <1>2
  <2>2. DOMAIN layer = 0..d /\ 0 \in 0..k
    BY <1>0, <1>1
  <2>3. ~(target > 1)
    BY <1>2
  <2> QED
    BY <1>0, <2>1, <2>2, <2>3 DEF layer, k
<1>3. CASE target # 1
  <2>1. d \in Nat \ {0}
    BY <1>3
  <2>2. \A t \in 0..d : layer[t] = Ma!Round(t * k, d) /\ t * k \in Nat
    BY <1>0, <1>1, <1>3
  <2>3. ASSUME NEW t \in 0..d, NEW u \in 0..d, t <= u
        PROVE  layer[t] \in Nat /\ layer[t] <= layer[u]
    <3>1. t * k \in Nat /\ u * k \in Nat /\ t * k <= u * k
      BY <1>0, <2>3
    <3>2. Ma!Round(t * k, d) \in Nat /\ Ma!Round(t * k, d) <= Ma!Round(u * k, d)
      BY <2>1, <3>1, RoundInOrder
    <3> QED
      BY <2>2, <3>2
  <2>4. layer[0] = 0
    <3>1. 0 * k = d * 0 /\ 0 \in Nat
      BY <1>0, <2>1
    <3>2. Ma!Round(d * 0, d) = 0
      BY <2>1, <3>1, RoundOfWhole
    <3> QED
      BY <1>0, <2>2, <3>1, <3>2
  <2>5. layer[d] = k
    <3>1. Ma!Round(d * k, d) = k
      BY <1>0, <2>1, RoundOfWhole
    <3> QED
      BY <1>0, <2>2, <3>1
  <2>6. \A t \in 0..d : layer[t] \in 0..k
    <3>1. ASSUME NEW t \in 0..d
          PROVE  layer[t] \in 0..k
      <4>1. t <= d
        BY <1>0
      <4>2. layer[t] \in Nat /\ layer[t] <= layer[d]
        BY <1>0, <2>3, <4>1
      <4> QED
        BY <1>0, <2>5, <4>2
    <3> QED
      BY <3>1
  <2>7. \A t, u \in 0..d : t <= u => layer[t] <= layer[u]
    BY <2>3
  <2>8. DOMAIN layer = 0..d
    BY <1>1
  <2> QED
    BY <2>4, <2>5, <2>6, <2>7, <2>8 DEF layer, k
<1> QED
  BY <1>2, <1>3

\* It is one that convert does not refuse.
LEMMA SpreadIsConvertible ==
    ASSUME NEW source \in Nat \ {0}, NEW target \in Nat \ {0}, NEW layer,
           \A t \in 0..target - 1 : layer[t] \in 0..source - 1
    PROVE  Ma!Convertible([t \in 1..target |-> <<t - 1, layer[t - 1]>>], source, target)
<1> DEFINE pairs == [t \in 1..target |-> <<t - 1, layer[t - 1]>>]
<1>1. DOMAIN pairs = 1..target
  OBVIOUS
<1>2. \A i \in 1..target : pairs[i][1] = i - 1 /\ pairs[i][2] = layer[i - 1] /\ i - 1 \in 0..target - 1
  OBVIOUS
<1> HIDE DEF pairs
<1>3. ASSUME NEW t \in 0..target - 1
      PROVE  Cardinality({i \in DOMAIN pairs : pairs[i][1] = t}) = 1
  <2>1. {i \in DOMAIN pairs : pairs[i][1] = t} = {t + 1}
    <3>1. t + 1 \in 1..target /\ t + 1 - 1 = t
      OBVIOUS
    <3>2. \A i \in 1..target : pairs[i][1] = t <=> i = t + 1
      BY <1>2
    <3> QED
      BY <1>1, <3>1, <3>2
  <2> QED
    BY <2>1, FS_Singleton
<1>4. ASSUME NEW i \in DOMAIN pairs
      PROVE  pairs[i][1] \in 0..target - 1 /\ pairs[i][2] \in 0..source - 1
  BY <1>1, <1>2
<1>5. Ma!Convertible(pairs, source, target)
  BY <1>3, <1>4 DEF Ma!Convertible, Ma!Cardinality, Cardinality
<1> QED
  BY <1>5 DEF pairs

\* Of the heads both numbers divide, each is in the head of the source that the
\* target's head over it is made of.
LEMMA HeadsFindTheirs ==
    ASSUME NEW source \in Nat \ {0}, NEW target \in Nat \ {0},
           {} \notin Range(Ma!Regroup(source, target, "mean")),
           NEW q \in 0..source * target - 1
    PROVE  q \div target \in Ma!Regroup(source, target, "mean")[q \div source]
<1> DEFINE heads == Ma!Regroup(source, target, "mean")
           h == q \div source
           up == source \div target
           down == target \div source
<1>0. q \in Nat /\ source * target \in Nat
  BY SMT
<1>1. h \in 0..target - 1
  <2>1. h \in Nat /\ q = source * h + (q % source) /\ q % source \in 0..source - 1
    BY <1>0
  <2> HIDE DEF h
  <2>2. q < source * target
    BY <1>0
  <2>3. h < target
    <3> SUFFICES ASSUME h >= target PROVE FALSE
      BY <2>1
    <3>1. source * h >= source * target /\ source * h \in Int
      BY <2>1
    <3> QED
      BY <1>0, <2>1, <2>2, <3>1
  <2> QED
    BY <2>1, <2>3
<1>2. heads[h] = CASE source = target -> {h}
                   [] source > target /\ source % target = 0 -> h * up .. h * up + up - 1
                   [] source < target /\ target % source = 0 -> {h \div down}
                   [] OTHER -> {}
  BY <1>1 DEF Ma!Regroup
<1>3. heads[h] # {}
  BY <1>1 DEF Ma!Regroup, Range, Ma!Range
<1> HIDE DEF heads
<1>4. CASE source = target
  <2>1. heads[h] = {h}
    BY <1>2, <1>4
  <2>2. h = q \div target
    BY <1>4
  <2> QED
    BY <2>1, <2>2 DEF heads
<1>5. CASE source > target /\ source % target = 0
  <2>1. source # target /\ ~(source < target)
    BY <1>5
  <2>2. heads[h] = h * up .. h * up + up - 1
    BY <1>2, <1>5, <2>1
  <2>3. up \in Nat \ {0} /\ source = up * target
    <3>1. up \in Nat /\ source = target * up + (source % target)
      OBVIOUS
    <3> HIDE DEF up
    <3>2. source = target * up
      BY <1>5, <3>1
    <3>3. up # 0
      BY <3>2
    <3>4. target * up = up * target
      BY <3>1
    <3> QED
      BY <3>1, <3>2, <3>3, <3>4
  <2> DEFINE x == q \div target
  <2>4. x \in Nat
    BY <1>0
  <2> HIDE DEF up, h
  <2>5. x \div up = h
    <3>1. x \div up = q \div (up * target)
      BY <1>0, <2>3, DividedTwice
    <3> QED
      BY <2>3, <3>1 DEF h
  <2> HIDE DEF x
  <2>6. x = up * (x \div up) + (x % up) /\ x % up \in 0..up - 1
    BY <2>3, <2>4
  <2>7. x = up * h + (x % up) /\ up * h = h * up /\ h * up \in Int /\ x % up \in Int
    BY <1>1, <2>3, <2>5, <2>6
  <2>8. x \in h * up .. h * up + up - 1
    BY <2>3, <2>4, <2>6, <2>7
  <2> QED
    BY <2>2, <2>8 DEF x, h, heads
<1>6. CASE source < target /\ target % source = 0
  <2>1. source # target /\ ~(source > target)
    BY <1>6
  <2>2. heads[h] = {h \div down}
    BY <1>2, <1>6, <2>1
  <2>3. down \in Nat \ {0} /\ target = down * source
    <3>1. down \in Nat /\ target = source * down + (target % source)
      OBVIOUS
    <3> HIDE DEF down
    <3>2. target = source * down
      BY <1>6, <3>1
    <3>3. down # 0
      BY <3>2
    <3>4. source * down = down * source
      BY <3>1
    <3> QED
      BY <3>1, <3>2, <3>3, <3>4
  <2> HIDE DEF down
  <2>4. h \div down = q \div target
    BY <1>0, <2>3, DividedTwice
  <2> QED
    BY <2>2, <2>4 DEF heads
<1> QED
  BY <1>2, <1>3, <1>4, <1>5, <1>6

\* Of some layers there is one with the least score, and the least number of those.
LEMMA LeastExists ==
    ASSUME NEW those, IsFiniteSet(those), those \subseteq Int, those # {},
           NEW f, \A l \in those : f[l] \in Int
    PROVE  \E l \in those : \A m \in those : f[l] < f[m] \/ (f[l] = f[m] /\ l <= m)
<1> DEFINE Least(s) == \E l \in s : \A m \in s : f[l] < f[m] \/ (f[l] = f[m] /\ l <= m)
           G == {s \in SUBSET those : s = {} \/ Least(s)}
<1>1. ASSUME NEW s \in SUBSET those, \A r \in SUBSET s : r # s => r \in G
      PROVE  s = {} \/ Least(s)
  <2> SUFFICES ASSUME s # {} PROVE Least(s)
    OBVIOUS
  <2>1. PICK x \in s : TRUE
    OBVIOUS
  <2> DEFINE r == s \ {x}
  <2>2. r \in G
    <3>1. r \in SUBSET s /\ r # s
      BY <2>1
    <3> HIDE DEF G, r
    <3> QED
      BY <1>1, <3>1
  <2>3. x \in Int /\ f[x] \in Int /\ \A m \in s : m \in Int /\ f[m] \in Int
    BY <2>1
  <2>4. CASE r = {}
    <3>1. \A m \in s : m = x
      BY <2>4
    <3> QED
      BY <2>1, <2>3, <3>1
  <2>5. CASE r # {}
    <3>1. PICK y \in r : \A m \in r : f[y] < f[m] \/ (f[y] = f[m] /\ y <= m)
      BY <2>2, <2>5
    <3>2. y \in s /\ y \in Int /\ f[y] \in Int
      BY <2>3
    <3>3. \A m \in s : m = x \/ m \in r
      OBVIOUS
    <3> HIDE DEF r
    <3>4. CASE f[x] < f[y] \/ (f[x] = f[y] /\ x <= y)
      <4>1. \A m \in s : f[x] < f[m] \/ (f[x] = f[m] /\ x <= m)
        BY <2>3, <3>1, <3>2, <3>3, <3>4
      <4> QED
        BY <2>1, <4>1
    <3>5. CASE ~(f[x] < f[y] \/ (f[x] = f[y] /\ x <= y))
      <4>1. \A m \in s : f[y] < f[m] \/ (f[y] = f[m] /\ y <= m)
        BY <2>3, <3>1, <3>2, <3>3, <3>5
      <4> QED
        BY <3>2, <4>1
    <3> QED
      BY <3>4, <3>5
  <2> QED
    BY <2>4, <2>5
<1>2. those \in G
  <2> HIDE DEF Least
  <2>1. \A s \in SUBSET those : (\A r \in SUBSET s : r # s => r \in G) => s \in G
    BY <1>1
  <2> HIDE DEF G
  <2> QED
    BY <2>1, SubsetInduction
<1> QED
  BY <1>2

\* Layers to choose from, with a score for each set of them.
Scored(layers, score) ==
    /\ IsFiniteSet(layers) /\ layers \subseteq Int
    /\ score \in [(SUBSET layers) \ {{}} -> Int]

\* The score of the first n chosen.
ScoreAt(chosen, n, score, infinite) ==
    IF n = 0 THEN infinite ELSE score[Ma!Range(SubSeq(chosen, 1, n))]

\* The bar the next one has to be below.
Bar(chosen, score, infinite) == IF chosen = <<>> THEN infinite ELSE score[Ma!Range(chosen)]

\* What is chosen in a round.
ChosenIn(layers, score, infinite, chosen, round) ==
    LET best == Ma!Best(layers, chosen, score, Bar(chosen, score, infinite))
    IN  IF Len(chosen) < round - 1 \/ best = {} THEN chosen
        ELSE Append(chosen, CHOOSE l \in best : TRUE)

\* r is what is chosen after each round.
RunsThrough(r, layers, k, score, infinite) ==
    /\ r \in [0..k -> Seq(layers)]
    /\ r[0] = <<>>
    /\ r[k] = Ma!SelectSourceLayers(layers, k, score, infinite)
    /\ \A i \in 1..k : r[i] = ChosenIn(layers, score, infinite, r[i - 1], i)

\* The loop runs through its rounds.
LEMMA ChosenRuns ==
    ASSUME NEW k \in Nat, NEW layers, NEW score, NEW infinite
    PROVE  \E r : RunsThrough(r, layers, k, score, infinite)
<1> DEFINE V == Seq(layers)
           b == <<>>
           W(s, i) == ChosenIn(layers, score, infinite, s, i)
           g == [i \in 1..k |-> [v \in V |-> W(v, i)]]
           rounds == [i \in 1..k |-> i]
           Is(h) == h = [u \in SUBSET (1..k) |->
                            IF u = {} THEN b ELSE W(h[u \ {Max(u)}], rounds[Max(u)])]
           h == CHOOSE h : Is(h)
<1>1. Ma!SelectSourceLayers(layers, k, score, infinite) = h[1..k]
  <2>1. DOMAIN rounds = 1..k
    OBVIOUS
  <2> QED
    BY <2>1 DEF Ma!SelectSourceLayers, Ma!FoldLeft, Ma!MapThenFoldSet, ChosenIn, Bar, Ma!Max, Max
<1>2. ASSUME NEW i \in 1..k, NEW v \in V
      PROVE  W(v, i) \in V
  <2>1. \A l \in Ma!Best(layers, v, score, Bar(v, score, infinite)) : l \in layers
    BY DEF Ma!Best
  <2> DEFINE best == Ma!Best(layers, v, score, Bar(v, score, infinite))
             l == CHOOSE l \in best : TRUE
  <2>2. best # {} => l \in layers
    BY <2>1
  <2>3. W(v, i) = v \/ (best # {} /\ W(v, i) = Append(v, l))
    BY DEF ChosenIn
  <2> HIDE DEF l, best, W
  <2> QED
    BY <2>2, <2>3
<1>3. b \in V
  OBVIOUS
<1>4. \A i \in 1..k : rounds[i] = i
  OBVIOUS
<1> HIDE DEF W, V, b, rounds
<1>5. g \in [1..k -> [V -> V]]
  BY <1>2
<1>6. \A i \in 1..k, v \in V : g[i][v] = W(v, i)
  OBVIOUS
<1> HIDE DEF g
<1>7. PICK f : Folds(f, k, V, b, g)
  BY <1>3, <1>5, FoldExists
<1>8. \A u \in SUBSET (1..k) : u # {} =>
         u \ {Max(u)} \in SUBSET (1..k) /\ Max(u) \in 1..k
  BY LargestPlace
<1>15. \A u \in SUBSET (1..k) : u # {} => rounds[Max(u)] = Max(u)
  BY <1>4, <1>8
<1>9. Is(f)
  <2>1. ASSUME NEW u \in SUBSET (1..k)
        PROVE  f[u] = IF u = {} THEN b ELSE W(f[u \ {Max(u)}], rounds[Max(u)])
    <3> HIDE DEF Is, h
    <3>1. CASE u = {}
      BY <1>7, <3>1 DEF Folds
    <3>2. CASE u # {}
      <4> DEFINE p == u \ {Max(u)}
                 i == Max(u)
      <4>1. p \in SUBSET (1..k) /\ i \in 1..k /\ rounds[i] = i
        BY <1>8, <1>15, <3>2
      <4>2. f[u] = g[i][f[p]]
        BY <1>7, <3>2 DEF Folds
      <4> HIDE DEF p, i
      <4>3. f[p] \in V
        BY <1>7, <4>1 DEF Folds
      <4>4. f[u] = W(f[p], rounds[i])
        BY <1>6, <4>1, <4>2, <4>3
      <4> QED
        BY <3>2, <4>4 DEF p, i
    <3> QED
      BY <3>1, <3>2
  <2>2. f = [u \in SUBSET (1..k) |-> f[u]]
    BY <1>7 DEF Folds
  <2> QED
    BY <2>1, <2>2
<1>10. Is(h)
  <2> HIDE DEF Is
  <2> QED
    BY <1>9
<1> HIDE DEF h
<1>11. Follows(h, k, V, b, g)
  <2>1. h[{}] = b
    BY <1>10
  <2>2. ASSUME NEW u \in SUBSET (1..k), u # {}, h[u \ {Max(u)}] \in V
        PROVE  h[u] = g[Max(u)][h[u \ {Max(u)}]]
    <3> DEFINE p == u \ {Max(u)}
               i == Max(u)
    <3>1. p \in SUBSET (1..k) /\ i \in 1..k /\ rounds[i] = i
      BY <1>8, <1>15, <2>2
    <3>2. h[u] = W(h[p], rounds[i])
      BY <1>10, <2>2
    <3>3. h[p] \in V
      BY <2>2
    <3> HIDE DEF p, i, Is
    <3>4. h[u] = g[i][h[p]]
      BY <1>6, <3>1, <3>2, <3>3
    <3> QED
      BY <3>4 DEF p, i
  <2> HIDE DEF Is
  <2> QED
    BY <2>1, <2>2 DEF Follows
<1> HIDE DEF Is
<1>12. PICK r : RunsTo(r, k, V, b, g, h[1..k])
  BY <1>7, <1>11, FoldsRun
<1>13. ASSUME NEW i \in 1..k
       PROVE  r[i] = W(r[i - 1], i)
  <2>1. r[i] = g[i][r[i - 1]] /\ r[i - 1] \in V
    BY <1>12 DEF RunsTo
  <2> QED
    BY <1>6, <2>1
<1>14. r \in [0..k -> V] /\ r[0] = b /\ r[k] = h[1..k]
  BY <1>12 DEF RunsTo
<1> QED
  BY <1>1, <1>13, <1>14 DEF RunsThrough, W, V, b

\* Those chosen are different, each of the first n improves on the ones before
\* it, and no layer alone is better; there are none only if no layer is of use.
ChosenWell(chosen, layers, score, infinite) ==
    /\ chosen \in Seq(layers)
    /\ \A i, j \in 1..Len(chosen) : chosen[i] = chosen[j] => i = j
    /\ \A n \in 1..Len(chosen) :
          ScoreAt(chosen, n, score, infinite) < ScoreAt(chosen, n - 1, score, infinite)
    /\ chosen # <<>> =>
          \A l \in layers : ScoreAt(chosen, Len(chosen), score, infinite) <= score[{l}]

\* The scores of what begins a list, and of all of it, when one is added.
ScoresFollow(chosen, l, score, infinite) ==
    /\ \A n \in 0..Len(chosen) :
          ScoreAt(Append(chosen, l), n, score, infinite) = ScoreAt(chosen, n, score, infinite)
    /\ ScoreAt(Append(chosen, l), Len(chosen) + 1, score, infinite)
          = score[Ma!Range(chosen) \union {l}]
    /\ ScoreAt(chosen, Len(chosen), score, infinite) = Bar(chosen, score, infinite)

\* They follow so from the layers alone.
LEMMA ScoresOfLonger ==
    ASSUME NEW S, NEW chosen \in Seq(S), NEW l \in S, NEW score, NEW infinite
    PROVE  ScoresFollow(chosen, l, score, infinite)
<1> DEFINE longer == Append(chosen, l)
<1>1. chosen \in Seq(S) /\ l \in S
  OBVIOUS
<1>2. /\ longer \in Seq(S) /\ Len(longer) = Len(chosen) + 1
      /\ longer[Len(chosen) + 1] = l
      /\ \A i \in 1..Len(chosen) : longer[i] = chosen[i]
  BY <1>1, Appended
<1>3. Len(chosen) \in Nat /\ DOMAIN chosen = 1..Len(chosen)
  BY <1>1
<1> HIDE DEF longer
<1>4. ASSUME NEW n \in 0..Len(chosen)
      PROVE  SubSeq(longer, 1, n) = SubSeq(chosen, 1, n)
  <2>1. n \in Nat /\ 1..n \subseteq 1..Len(chosen) /\ 1..n \subseteq 1..Len(longer)
    BY <1>2, <1>3
  <2>2. /\ SubSeq(longer, 1, n) \in Seq(S) /\ Len(SubSeq(longer, 1, n)) = n
        /\ SubSeq(chosen, 1, n) \in Seq(S) /\ Len(SubSeq(chosen, 1, n)) = n
    BY <1>1, <1>2, <1>3, <2>1
  <2>3. \A i \in 1..n : SubSeq(longer, 1, n)[i] = longer[i] /\ SubSeq(chosen, 1, n)[i] = chosen[i]
    BY <1>1, <1>2, <1>3, <2>1
  <2>4. \A i \in 1..n : SubSeq(longer, 1, n)[i] = SubSeq(chosen, 1, n)[i]
    BY <1>2, <2>1, <2>3
  <2> QED
    BY <2>2, <2>4, SeqEqual
<1>5. SubSeq(longer, 1, Len(chosen) + 1) = longer
  <2>1. SubSeq(longer, 1, Len(longer)) = longer
    BY <1>2
  <2> QED
    BY <1>2, <2>1
<1>6. SubSeq(chosen, 1, Len(chosen)) = chosen
  BY <1>1
<1>7. Ma!Range(longer) = Ma!Range(chosen) \union {l}
  <2>1. DOMAIN longer = 1..Len(chosen) + 1
    BY <1>2
  <2>2. 1..Len(chosen) + 1 = (1..Len(chosen)) \union {Len(chosen) + 1}
    BY <1>3
  <2> QED
    BY <1>2, <1>3, <2>1, <2>2 DEF Ma!Range
<1>8. ASSUME NEW n \in 0..Len(chosen)
      PROVE  ScoreAt(longer, n, score, infinite) = ScoreAt(chosen, n, score, infinite)
  BY <1>4 DEF ScoreAt
<1>9. ScoreAt(longer, Len(chosen) + 1, score, infinite) = score[Ma!Range(chosen) \union {l}]
  <2>1. Len(chosen) + 1 # 0
    BY <1>3
  <2> QED
    BY <1>5, <1>7, <2>1 DEF ScoreAt
<1>10. ScoreAt(chosen, Len(chosen), score, infinite) = Bar(chosen, score, infinite)
  <2>1. Len(chosen) = 0 <=> chosen = <<>>
    BY <1>1
  <2> QED
    BY <1>6, <2>1 DEF ScoreAt, Bar
<1> QED
  BY <1>8, <1>9, <1>10 DEF longer, ScoresFollow

\* A round keeps this, and one that adds nothing has nothing of use to add.
LEMMA StaysChosenWell ==
    ASSUME NEW layers, NEW score, Scored(layers, score), NEW infinite \in Int,
           NEW chosen, ChosenWell(chosen, layers, score, infinite), NEW round \in Nat,
           NEW next, next = ChosenIn(layers, score, infinite, chosen, round)
    PROVE  /\ ChosenWell(next, layers, score, infinite)
           /\ Len(next) <= Len(chosen) + 1
           /\ chosen # <<>> => next # <<>>
           /\ next = <<>> /\ round = 1 => \A l \in layers : infinite <= score[{l}]
<1> DEFINE bar == Bar(chosen, score, infinite)
           trial(l) == score[Ma!Range(chosen) \union {l}]
           better == {l \in layers \ Ma!Range(chosen) : trial(l) < bar}
           best == Ma!Best(layers, chosen, score, bar)
           added == CHOOSE l \in best : TRUE
<1>0. /\ IsFiniteSet(layers) /\ layers \subseteq Int
      /\ score \in [(SUBSET layers) \ {{}} -> Int]
  BY DEF Scored
<1>1. chosen \in Seq(layers) /\ Len(chosen) \in Nat /\ Ma!Range(chosen) \subseteq layers
  BY DEF ChosenWell, Ma!Range
<1>2. ASSUME NEW l \in layers PROVE trial(l) \in Int
  <2>1. Ma!Range(chosen) \union {l} \in (SUBSET layers) \ {{}}
    BY <1>1
  <2> QED
    BY <1>0, <2>1
<1>3. best = {l \in better : \A m \in better :
                 trial(l) < trial(m) \/ (trial(l) = trial(m) /\ l <= m)}
  BY DEF Ma!Best
<1>4. best = {} => better = {}
  <2> SUFFICES ASSUME better # {} PROVE best # {}
    OBVIOUS
  <2> DEFINE all == better
             f == [l \in layers |-> trial(l)]
  <2>1. all \subseteq layers
    OBVIOUS
  <2>2. IsFiniteSet(all) /\ all \subseteq Int /\ all # {}
    BY <1>0, <2>1, FS_Subset
  <2>3. \A l \in all : f[l] \in Int /\ f[l] = trial(l)
    BY <1>2, <2>1
  <2> HIDE DEF all, f
  <2>4. PICK l \in all : \A m \in all : f[l] < f[m] \/ (f[l] = f[m] /\ l <= m)
    BY <2>2, <2>3, LeastExists
  <2>5. \A m \in all : trial(l) < trial(m) \/ (trial(l) = trial(m) /\ l <= m)
    BY <2>3, <2>4
  <2> HIDE DEF best, trial
  <2> QED
    BY <1>3, <2>4, <2>5 DEF all
<1>5. next = IF Len(chosen) < round - 1 \/ best = {} THEN chosen ELSE Append(chosen, added)
  BY DEF ChosenIn
<1>6. CASE next = chosen
  <2>1. ASSUME next = <<>>, round = 1, NEW l \in layers PROVE infinite <= score[{l}]
    <3>0. chosen = <<>> /\ Len(chosen) = 0
      BY <1>6, <2>1
    <3>1. best = {}
      <4> DEFINE longer == Append(chosen, added)
      <4>1. Len(longer) = 1
        BY <3>0
      <4>2. next = IF Len(chosen) < round - 1 \/ best = {} THEN chosen ELSE longer
        BY <1>5
      <4> HIDE DEF best, longer
      <4>3. next # longer
        BY <2>1, <4>1
      <4>4. ~(Len(chosen) < round - 1)
        BY <2>1, <3>0
      <4> QED
        BY <4>2, <4>3, <4>4
    <3>2. Ma!Range(chosen) = {} /\ bar = infinite
      BY <3>0 DEF Ma!Range, Bar
    <3>3. trial(l) = score[{l}] /\ trial(l) \in Int /\ l \notin better
      <4>1. trial(l) = score[{l}]
        BY <3>2
      <4> QED
        BY <1>2, <1>4, <3>1, <4>1
    <3>4. ~(trial(l) < bar)
      BY <3>2, <3>3
    <3> QED
      BY <3>2, <3>3, <3>4
  <2>2. Len(next) <= Len(chosen) + 1
    BY <1>1, <1>6
  <2> QED
    BY <1>6, <2>1, <2>2
<1>7. CASE next # chosen
  <2>1. next = Append(chosen, added) /\ best # {}
    <3> HIDE DEF best, added
    <3> QED
      BY <1>5, <1>7
  <2>2. added \in best
    <3> HIDE DEF best
    <3> QED
      BY <2>1
  <2> HIDE DEF added
  <2>3. /\ added \in layers /\ added \notin Ma!Range(chosen) /\ trial(added) < bar
        /\ \A m \in better : trial(added) <= trial(m)
    <3>1. added \in better
      BY <1>3, <2>2
    <3>2. \A m \in better : trial(added) < trial(m) \/ trial(added) = trial(m)
      BY <1>3, <2>2
    <3>3. \A m \in better : trial(m) \in Int
      BY <1>2
    <3>4. trial(added) \in Int
      BY <1>2, <3>1
    <3>5. \A m \in better : trial(added) <= trial(m)
      <4> HIDE DEF trial, better
      <4> QED
        BY <3>2, <3>3, <3>4
    <3> QED
      BY <3>1, <3>5
  <2> HIDE DEF best
  <2> DEFINE S == layers
             n == Len(chosen)
             at(s, i) == ScoreAt(s, i, score, infinite)
  <2>4. chosen \in Seq(S) /\ added \in S
    BY <1>1, <2>3
  <2>5. /\ \A i \in 0..n : at(next, i) = at(chosen, i)
        /\ at(next, n + 1) = trial(added)
        /\ at(chosen, n) = bar
    <3>1. ScoresFollow(chosen, added, score, infinite)
      BY <2>4, ScoresOfLonger
    <3> HIDE DEF S
    <3> QED
      BY <2>1, <3>1 DEF ScoresFollow
  <2> HIDE DEF S
  <2>6. /\ next \in Seq(S) /\ Len(next) = n + 1 /\ next[n + 1] = added
        /\ \A i \in 1..n : next[i] = chosen[i]
    BY <2>1, <2>4, Appended
  <2>7. \A i \in 1..n : chosen[i] # added
    BY <1>1, <2>3 DEF Ma!Range
  <2>8. ASSUME NEW i \in 1..Len(next), NEW j \in 1..Len(next), next[i] = next[j]
        PROVE  i = j
    <3>1. \A x, y \in 1..n : chosen[x] = chosen[y] => x = y
      BY DEF ChosenWell
    <3>2. (i \in 1..n \/ i = n + 1) /\ (j \in 1..n \/ j = n + 1)
      BY <1>1, <2>6
    <3> QED
      BY <2>6, <2>7, <2>8, <3>1, <3>2
  <2>9. ASSUME NEW i \in 1..Len(next)
        PROVE  at(next, i) < at(next, i - 1)
    <3>1. CASE i \in 1..n
      <4>1. i \in 0..n /\ i - 1 \in 0..n
        BY <1>1, <3>1
      <4>2. at(chosen, i) < at(chosen, i - 1)
        BY <3>1 DEF ChosenWell
      <4> QED
        BY <2>5, <4>1, <4>2
    <3>2. CASE i = n + 1
      <4>1. i - 1 = n /\ n \in 0..n
        BY <1>1, <3>2
      <4> HIDE DEF at, trial, bar
      <4>2. at(next, i - 1) = bar /\ at(next, i) = trial(added)
        BY <2>5, <3>2, <4>1
      <4> QED
        BY <2>3, <4>2
    <3> QED
      BY <1>1, <2>6, <3>1, <3>2
  <2>10. ASSUME NEW l \in layers
         PROVE  at(next, Len(next)) <= score[{l}]
    <3>0. at(next, Len(next)) = trial(added) /\ trial(added) \in Int /\ score[{l}] \in Int
      <4>1. {l} \in (SUBSET layers) \ {{}}
        OBVIOUS
      <4> QED
        BY <1>0, <1>2, <2>3, <2>5, <2>6, <4>1
    <3>1. CASE chosen = <<>>
      <4>1. Ma!Range(chosen) = {} /\ bar = infinite
        BY <3>1 DEF Ma!Range, Bar
      <4>2. trial(l) = score[{l}]
        BY <4>1
      <4>3. l \in better \/ ~(trial(l) < bar)
        BY <4>1
      <4>4. bar \in Int
        BY <4>1
      <4> HIDE DEF at, trial, better, bar
      <4> QED
        BY <2>3, <3>0, <4>2, <4>3, <4>4
    <3>2. CASE chosen # <<>>
      <4>1. at(chosen, n) <= score[{l}]
        BY <3>2 DEF ChosenWell
      <4>2. bar <= score[{l}]
        BY <2>5, <4>1
      <4>3. bar \in Int
        <5>1. Ma!Range(chosen) # {}
          <6>1. 1 \in DOMAIN chosen
            BY <1>1, <3>2
          <6> QED
            BY <6>1 DEF Ma!Range
        <5>2. Ma!Range(chosen) \in (SUBSET layers) \ {{}}
          BY <1>1, <5>1
        <5> QED
          BY <1>0, <3>2, <5>2 DEF Bar
      <4> HIDE DEF at, trial, bar
      <4> QED
        BY <2>3, <3>0, <4>2, <4>3
    <3> QED
      BY <3>1, <3>2
  <2>11. Len(next) <= Len(chosen) + 1 /\ next # <<>>
    BY <1>1, <2>6
  <2> HIDE DEF at, n
  <2>12. ChosenWell(next, layers, score, infinite)
    BY <2>6, <2>8, <2>9, <2>10 DEF ChosenWell, at, S
  <2> QED
    BY <2>11, <2>12
<1> QED
  BY <1>6, <1>7

\* Those selected improve one after another, and are at least as good as any one.
LEMMA SelectedWell ==
    ASSUME NEW layers, NEW score, Scored(layers, score), NEW infinite \in Int,
           NEW k \in Nat \ {0},
           NEW chosen, chosen = Ma!SelectSourceLayers(layers, k, score, infinite)
    PROVE  /\ ChosenWell(chosen, layers, score, infinite)
           /\ Len(chosen) <= k
           /\ \A l \in layers : ScoreAt(chosen, Len(chosen), score, infinite) <= score[{l}]
<1>1. PICK r : RunsThrough(r, layers, k, score, infinite)
  BY ChosenRuns
<1>2. /\ r[0] = <<>> /\ r[k] = chosen
      /\ \A i \in 1..k : r[i] = ChosenIn(layers, score, infinite, r[i - 1], i)
  BY <1>1 DEF RunsThrough
<1> DEFINE Useless == \A l \in layers : infinite <= score[{l}]
           Well(s) == ChosenWell(s, layers, score, infinite)
           G == {i \in 0..k : Well(r[i]) /\ Len(r[i]) <= i
                                 /\ (i # 0 /\ r[i] = <<>> => Useless)}
<1>3. 0 \in G
  <2>1. Well(<<>>)
    BY DEF ChosenWell
  <2>2. Len(<<>>) <= 0 /\ 0 \in 0..k
    OBVIOUS
  <2> HIDE DEF Well
  <2> QED
    BY <1>2, <2>1, <2>2
<1>4. ASSUME NEW i \in 1..k, i - 1 \in G PROVE i \in G
  <2> DEFINE before == r[i - 1]
             after == r[i]
  <2>1. after = ChosenIn(layers, score, infinite, before, i) /\ i \in Nat
    BY <1>2
  <2>2. Well(before) /\ Len(before) <= i - 1 /\ (i - 1 # 0 /\ before = <<>> => Useless)
    BY <1>4
  <2>3. Len(before) \in Nat
    BY <2>2 DEF ChosenWell
  <2>4. before = <<>> \/ after # <<>>
    <3> HIDE DEF before, after, Well, Useless
    <3>1. ChosenWell(before, layers, score, infinite)
      BY <2>2 DEF Well
    <3> QED
      BY <2>1, <3>1, StaysChosenWell
  <2> HIDE DEF before, after
  <2>5. /\ Well(after) /\ Len(after) <= Len(before) + 1
        /\ (after = <<>> /\ i = 1 => Useless)
    BY <2>1, <2>2, StaysChosenWell
  <2>6. Len(after) \in Nat
    BY <2>5 DEF ChosenWell
  <2> HIDE DEF Well, Useless
  <2>7. after = <<>> => Useless
    <3>1. CASE i = 1
      BY <2>5, <3>1
    <3>2. CASE i # 1
      BY <2>2, <2>4, <3>2
    <3> QED
      BY <3>1, <3>2
  <2>8. Len(after) <= i
    BY <2>2, <2>3, <2>5, <2>6
  <2>9. i \in 0..k
    OBVIOUS
  <2> QED
    BY <2>5, <2>7, <2>8, <2>9 DEF after
<1>5. k \in G
  <2> HIDE DEF G
  <2>1. \A i \in 1..k : i - 1 \in G => i \in G
    BY <1>4
  <2>2. \A i \in 0..k : i \in G
    BY <1>3, <2>1, UpTo
  <2> QED
    BY <2>2
<1>6. Well(chosen) /\ Len(chosen) <= k /\ (chosen = <<>> => Useless)
  <2> HIDE DEF Well, Useless
  <2>1. k # 0
    OBVIOUS
  <2> QED
    BY <1>2, <1>5, <2>1
<1>7. ASSUME NEW l \in layers
      PROVE  ScoreAt(chosen, Len(chosen), score, infinite) <= score[{l}]
  <2>1. CASE chosen = <<>>
    <3>1. ScoreAt(chosen, Len(chosen), score, infinite) = infinite
      BY <2>1 DEF ScoreAt
    <3> QED
      BY <1>6, <2>1, <3>1
  <2>2. CASE chosen # <<>>
    BY <1>6, <2>2 DEF ChosenWell
  <2> QED
    BY <2>1, <2>2
<1> QED
  BY <1>6, <1>7

\* A vector made of what `of` names, none of whose pairs D is turned.
Plain(of, D) == [from |-> of, turn |-> [d \in D |-> 0]]

\* One turned as a rotation turns the vector of a position.
TurnedBy(of, D, position, rope) ==
    [from |-> of, turn |-> [d \in D |-> IF d <= rope.dims THEN position * rope.theta ELSE 0]]

\* A mean of vectors that are not turned is not turned.
LEMMA MixedIsPlain ==
    ASSUME NEW D, NEW xs, xs # {}, \A x \in xs : x = Plain(x.from, D)
    PROVE  Ma!Mixed(xs) = Plain(UNION {x.from : x \in xs}, D)
<1> DEFINE one == CHOOSE x \in xs : TRUE
<1>1. one \in xs
  OBVIOUS
<1>2. Ma!Mixed(xs) = [from |-> UNION {x.from : x \in xs},
                      turn |-> [d \in DOMAIN one.turn |->
                                   IF \A x \in xs : x.turn[d] = 0 THEN 0 ELSE Ma!Garbled]]
  BY DEF Ma!Mixed
<1> HIDE DEF one
<1>3. \A x \in xs : x.turn = [d \in D |-> 0]
  BY DEF Plain
<1>4. DOMAIN one.turn = D /\ \A x \in xs, d \in D : x.turn[d] = 0
  BY <1>1, <1>3
<1>5. [d \in DOMAIN one.turn |-> IF \A x \in xs : x.turn[d] = 0 THEN 0 ELSE Ma!Garbled]
         = [d \in D |-> 0]
  BY <1>4
<1> QED
  BY <1>2, <1>5 DEF Plain

\* The vectors of one layer, one for each token, not turned.
PlainLayer(vs, layer, tokens, D) ==
    /\ DOMAIN vs = tokens
    /\ \A t \in tokens : vs[t] = Plain({<<layer, t>>}, D)

\* Each token of the target weighs one of the source's at least.
Weighs(weights, tokens) ==
    weights # <<>> =>
        \A t \in 1..Len(weights) : \E u \in tokens : weights[t][u + 1] > 0

\* What a target token is made of, of a layer.
ReadFor(weights, tokens, t) ==
    IF weights = <<>> THEN {t} ELSE {s \in tokens : weights[t + 1][s + 1] > 0}

TargetTokens(weights, tokens) == IF weights = <<>> THEN tokens ELSE 0..Len(weights) - 1

\* The layers of Translate after the pooling, and after the map.
PooledAs(vs, weights, tokens) ==
    IF weights = <<>> THEN vs
    ELSE [t \in 0..Len(weights) - 1 |->
            Ma!Mixed({vs[s] : s \in {u \in tokens : weights[t + 1][u + 1] > 0}})]

MappedAs(vs, weights, tokens) ==
    [t \in DOMAIN PooledAs(vs, weights, tokens) |-> Ma!Mixed({PooledAs(vs, weights, tokens)[t]})]

\* Pooling reads the tokens it weighs, and turns nothing.
LEMMA PooledStaysPlain ==
    ASSUME NEW layer, NEW tokens, NEW D, NEW weights, Weighs(weights, tokens),
           Len(weights) \in Nat,
           NEW vs, PlainLayer(vs, layer, tokens, D)
    PROVE  /\ DOMAIN PooledAs(vs, weights, tokens) = TargetTokens(weights, tokens)
           /\ \A t \in TargetTokens(weights, tokens) :
                 PooledAs(vs, weights, tokens)[t]
                    = Plain({layer} \X ReadFor(weights, tokens, t), D)
<1>1. DOMAIN vs = tokens /\ \A t \in tokens : vs[t] = Plain({<<layer, t>>}, D)
  BY DEF PlainLayer
<1>2. CASE weights = <<>>
  <2>1. PooledAs(vs, weights, tokens) = vs /\ TargetTokens(weights, tokens) = tokens
    BY <1>2 DEF PooledAs, TargetTokens
  <2>2. \A t : ReadFor(weights, tokens, t) = {t} /\ {layer} \X {t} = {<<layer, t>>}
    BY <1>2 DEF ReadFor
  <2> QED
    BY <1>1, <2>1, <2>2
<1>3. CASE weights # <<>>
  <2> DEFINE n == Len(weights)
             read(t) == {u \in tokens : weights[t + 1][u + 1] > 0}
  <2>1. /\ PooledAs(vs, weights, tokens) = [t \in 0..n - 1 |-> Ma!Mixed({vs[s] : s \in read(t)})]
        /\ TargetTokens(weights, tokens) = 0..n - 1
    BY <1>3 DEF PooledAs, TargetTokens
  <2>2. \A t \in 0..n - 1 : ReadFor(weights, tokens, t) = read(t)
    BY <1>3 DEF ReadFor
  <2>3. ASSUME NEW t \in 0..n - 1
        PROVE  Ma!Mixed({vs[s] : s \in read(t)}) = Plain({layer} \X read(t), D)
    <3>1. t + 1 \in 1..n
      OBVIOUS
    <3>2. \A u \in 1..n : \E s \in tokens : weights[u][s + 1] > 0
      BY <1>3 DEF Weighs
    <3>3. read(t) # {}
      BY <3>1, <3>2
    <3> DEFINE Q == read(t)
               xs == {vs[s] : s \in Q}
    <3>4. Q \subseteq tokens /\ Q # {}
      BY <3>3
    <3> HIDE DEF Q, read
    <3>5. xs # {}
      BY <3>4
    <3>6. \A s \in Q : vs[s] = Plain({<<layer, s>>}, D) /\ vs[s].from = {<<layer, s>>}
      <4>1. \A s \in Q : vs[s] = Plain({<<layer, s>>}, D)
        BY <1>1, <3>4
      <4>2. \A of : Plain(of, D).from = of
        BY DEF Plain
      <4> QED
        BY <4>1, <4>2
    <3>7. \A x \in xs : x = Plain(x.from, D)
      BY <3>6
    <3>8. UNION {x.from : x \in xs} = {layer} \X Q
      <4>1. {x.from : x \in xs} = {{<<layer, s>>} : s \in Q}
        BY <3>6
      <4>2. UNION {{<<layer, s>>} : s \in Q} = {layer} \X Q
        OBVIOUS
      <4> QED
        BY <4>1, <4>2
    <3> HIDE DEF xs
    <3>9. Ma!Mixed(xs) = Plain(UNION {x.from : x \in xs}, D)
      BY <3>5, <3>7, MixedIsPlain
    <3> QED
      BY <3>8, <3>9 DEF xs, Q
  <2> HIDE DEF n, read
  <2>4. DOMAIN PooledAs(vs, weights, tokens) = TargetTokens(weights, tokens)
    BY <2>1
  <2>5. ASSUME NEW t \in TargetTokens(weights, tokens)
        PROVE  PooledAs(vs, weights, tokens)[t] = Plain({layer} \X ReadFor(weights, tokens, t), D)
    <3>1. t \in 0..n - 1
      BY <2>1
    <3>2. PooledAs(vs, weights, tokens)[t] = Ma!Mixed({vs[s] : s \in read(t)})
      BY <2>1, <3>1
    <3> QED
      BY <2>2, <2>3, <3>1, <3>2
  <2> QED
    BY <2>4, <2>5
<1> QED
  BY <1>2, <1>3

MappedPlain(vs, layer, tokens, D, weights) ==
    /\ DOMAIN MappedAs(vs, weights, tokens) = TargetTokens(weights, tokens)
    /\ \A t \in TargetTokens(weights, tokens) :
          MappedAs(vs, weights, tokens)[t] = Plain({layer} \X ReadFor(weights, tokens, t), D)

\* Nor does the map.
LEMMA MappedStaysPlain ==
    ASSUME NEW layer, NEW tokens, NEW D, NEW weights, Weighs(weights, tokens),
           Len(weights) \in Nat,
           NEW vs, PlainLayer(vs, layer, tokens, D)
    PROVE  MappedPlain(vs, layer, tokens, D, weights)
<1> DEFINE p == PooledAs(vs, weights, tokens)
           targets == TargetTokens(weights, tokens)
           of(t) == {layer} \X ReadFor(weights, tokens, t)
<1>1. DOMAIN p = targets /\ \A t \in targets : p[t] = Plain(of(t), D)
  BY PooledStaysPlain
<1>2. MappedAs(vs, weights, tokens) = [t \in DOMAIN p |-> Ma!Mixed({p[t]})]
  BY DEF MappedAs
<1> HIDE DEF p, targets, of
<1>3. ASSUME NEW t \in targets
      PROVE  Ma!Mixed({p[t]}) = Plain(of(t), D)
  <2> DEFINE x == Plain(of(t), D)
             xs == {x}
  <2>1. x.from = of(t)
    BY DEF Plain
  <2> HIDE DEF x
  <2>2. x = Plain(x.from, D)
    BY <2>1 DEF x
  <2>3. xs # {} /\ \A y \in xs : y = Plain(y.from, D)
    BY <2>2
  <2>4. UNION {y.from : y \in xs} = of(t)
    BY <2>1
  <2> HIDE DEF xs
  <2>5. Ma!Mixed(xs) = Plain(of(t), D)
    BY <2>3, <2>4, MixedIsPlain
  <2> QED
    BY <1>1, <2>5 DEF xs, x
<1>4. ASSUME NEW t \in targets
      PROVE  MappedAs(vs, weights, tokens)[t] = Plain(of(t), D)
  BY <1>1, <1>2, <1>3
<1>5. DOMAIN MappedAs(vs, weights, tokens) = targets
  BY <1>1, <1>2
<1> QED
  BY <1>4, <1>5 DEF targets, of, MappedPlain

\* Turning a vector that is not turned.
LEMMA TurnedOnce ==
    ASSUME NEW of, NEW D, D \subseteq Int, NEW position \in Int, NEW rope,
           rope.theta \in Int, rope.dims \in Int
    PROVE  Ma!Turned(Plain(of, D), 1, position, rope)
              = TurnedBy(of, D, position, rope)
<1> DEFINE x == Plain(of, D)
           a == rope.theta
           n == rope.dims
<1>1. x = [from |-> of, turn |-> [d \in D |-> 0]]
  BY DEF Plain
<1>2. Ma!Turned(x, 1, position, rope)
         = [x EXCEPT !.turn = [d \in DOMAIN x.turn |->
              IF d > n \/ x.turn[d] = -1 THEN x.turn[d] ELSE x.turn[d] + 1 * position * a]]
  BY DEF Ma!Turned, Ma!Garbled
<1> HIDE DEF x
<1>3. DOMAIN x.turn = D /\ \A d \in D : x.turn[d] = 0
  BY <1>1
<1>4. a \in Int /\ n \in Int
  OBVIOUS
<1> HIDE DEF a, n
<1>5. ASSUME NEW d \in D
      PROVE  (IF d > n \/ x.turn[d] = -1 THEN x.turn[d] ELSE x.turn[d] + 1 * position * a)
                = IF d <= n THEN position * a ELSE 0
  <2>1. d \in Int /\ x.turn[d] = 0
    BY <1>3
  <2>2. 0 + 1 * position * a = position * a
    BY <1>4
  <2> QED
    BY <1>4, <2>1, <2>2
<1>6. [d \in DOMAIN x.turn |->
         IF d > n \/ x.turn[d] = -1 THEN x.turn[d] ELSE x.turn[d] + 1 * position * a]
         = [d \in D |-> IF d <= n THEN position * a ELSE 0]
  BY <1>3, <1>5
<1>7. Ma!Turned(x, 1, position, rope)
         = [x EXCEPT !.turn = [d \in D |-> IF d <= n THEN position * a ELSE 0]]
  BY <1>2, <1>6
<1>8. Ma!Turned(x, 1, position, rope)
         = [from |-> of, turn |-> [d \in D |-> IF d <= n THEN position * a ELSE 0]]
  BY <1>1, <1>7
<1> QED
  BY <1>8 DEF x, a, n, TurnedBy

\* Turning it back.
LEMMA TurnedBack ==
    ASSUME NEW of, NEW D, D \subseteq Int, NEW position \in Nat, NEW rope,
           rope.theta \in Nat, rope.dims \in Int
    PROVE  Ma!Turned(TurnedBy(of, D, position, rope), -1, position, rope) = Plain(of, D)
<1> DEFINE x == TurnedBy(of, D, position, rope)
           a == rope.theta
           n == rope.dims
<1>1. a \in Nat /\ n \in Int
  OBVIOUS
<1>2. Ma!Turned(x, -1, position, rope)
         = [x EXCEPT !.turn = [d \in DOMAIN x.turn |->
              IF d > n \/ x.turn[d] = -1 THEN x.turn[d] ELSE x.turn[d] + (-1) * position * a]]
  BY DEF Ma!Turned, Ma!Garbled
<1>8. x = [from |-> of, turn |-> [d \in D |-> IF d <= n THEN position * a ELSE 0]]
  BY DEF TurnedBy
<1>3. DOMAIN x.turn = D /\ \A d \in D : x.turn[d] = IF d <= n THEN position * a ELSE 0
  BY <1>8
<1> HIDE DEF a, n, x
<1>4. ASSUME NEW d \in D
      PROVE  (IF d > n \/ x.turn[d] = -1 THEN x.turn[d] ELSE x.turn[d] + (-1) * position * a) = 0
  <2>1. d \in Int /\ position * a \in Nat /\ (-1) * position * a = -(position * a)
    BY <1>1
  <2>2. CASE d <= n
    <3>1. x.turn[d] = position * a
      BY <1>3, <2>2
    <3> QED
      BY <1>1, <2>1, <2>2, <3>1
  <2>3. CASE ~(d <= n)
    <3>1. x.turn[d] = 0
      BY <1>3, <2>3
    <3> QED
      BY <1>1, <2>1, <2>3, <3>1
  <2> QED
    BY <2>2, <2>3
<1>5. [d \in DOMAIN x.turn |->
         IF d > n \/ x.turn[d] = -1 THEN x.turn[d] ELSE x.turn[d] + (-1) * position * a]
         = [d \in D |-> 0]
  BY <1>3, <1>4
<1>6. Ma!Turned(x, -1, position, rope) = [x EXCEPT !.turn = [d \in D |-> 0]]
  BY <1>2, <1>5
<1>7. Ma!Turned(x, -1, position, rope) = [from |-> of, turn |-> [d \in D |-> 0]]
  BY <1>6, <1>8
<1> QED
  BY <1>7 DEF Plain, x

\* A cache of some layers as its runtime wrote it: keys turned by the place of
\* their token, if the rotation is applied, values never.
Written(cache, layers, tokens, D, from, applied) ==
    /\ DOMAIN cache.k = layers
    /\ DOMAIN cache.k[0] = tokens
    /\ tokens \subseteq Nat /\ D \subseteq Int
    /\ from.theta \in Nat /\ from.dims \in Int
    /\ \A l \in layers : PlainLayer(cache.v[l], l, tokens, D)
    /\ \A l \in layers, t \in tokens :
          cache.k[l][t] = [from |-> {<<l, t>>},
                           turn |-> [d \in D |-> IF applied /\ d <= from.dims
                                                 THEN t * from.theta ELSE 0]]

\* What is read of a layer with the rotation stripped, and written again.
StrippedLayer(cache, l, tokens, from, applied) ==
    [t \in tokens |-> IF applied THEN Ma!Turned(cache.k[l][t], -1, t, from) ELSE cache.k[l][t]]

RotatedLayer(vs, positions, to, applied) ==
    [t \in DOMAIN vs |-> IF applied THEN Ma!Turned(vs[t], 1, positions[t], to) ELSE vs[t]]

\* Stripping takes the whole rotation away.
LEMMA StrippedIsPlain ==
    ASSUME NEW cache, NEW layers, NEW tokens, NEW D, NEW from, NEW applied \in BOOLEAN,
           Written(cache, layers, tokens, D, from, applied), NEW l \in layers
    PROVE  PlainLayer(StrippedLayer(cache, l, tokens, from, applied), l, tokens, D)
<1> DEFINE s == StrippedLayer(cache, l, tokens, from, applied)
<1>1. s = [t \in tokens |->
              IF applied THEN Ma!Turned(cache.k[l][t], -1, t, from) ELSE cache.k[l][t]]
  BY DEF StrippedLayer
<1> HIDE DEF s
<1>2. ASSUME NEW t \in tokens
      PROVE  s[t] = Plain({<<l, t>>}, D)
  <2> DEFINE x == cache.k[l][t]
             of == {<<l, t>>}
  <2>1. /\ x = [from |-> of, turn |-> [d \in D |-> IF applied /\ d <= from.dims
                                                   THEN t * from.theta ELSE 0]]
        /\ t \in Nat /\ D \subseteq Int /\ from.theta \in Nat /\ from.dims \in Int
    BY DEF Written
  <2>2. s[t] = IF applied THEN Ma!Turned(x, -1, t, from) ELSE x
    BY <1>1
  <2> HIDE DEF x, of
  <2>3. CASE applied
    <3>1. x = TurnedBy(of, D, t, from)
      BY <2>1, <2>3 DEF TurnedBy
    <3>2. Ma!Turned(TurnedBy(of, D, t, from), -1, t, from) = Plain(of, D)
      BY <2>1, TurnedBack
    <3> QED
      BY <2>2, <2>3, <3>1, <3>2 DEF of
  <2>4. CASE ~applied
    <3>1. x = [from |-> of, turn |-> [d \in D |-> 0]]
      BY <2>1, <2>4
    <3> QED
      BY <2>2, <2>4, <3>1 DEF of, Plain
  <2> QED
    BY <2>3, <2>4
<1>3. DOMAIN s = tokens
  BY <1>1
<1> QED
  BY <1>2, <1>3 DEF PlainLayer, s

\* What Translate makes of a layer that a pair names.
LEMMA TranslatedLayer ==
    ASSUME NEW cache, NEW pairs, NEW weights, NEW positions, NEW from, NEW to, NEW applied,
           \A i, j \in DOMAIN pairs : pairs[i][1] = pairs[j][1] => i = j,
           NEW i \in DOMAIN pairs, pairs[i][2] \in DOMAIN cache.k
    PROVE  LET tokens == DOMAIN cache.k[0]
               out == Ma!Translate(cache, pairs, weights, positions, from, to, applied)
               s == StrippedLayer(cache, pairs[i][2], tokens, from, applied)
           IN  /\ out.k[pairs[i][1]]
                    = RotatedLayer(MappedAs(s, weights, tokens), positions, to, applied)
               /\ out.v[pairs[i][1]] = MappedAs(cache.v[pairs[i][2]], weights, tokens)
<1> DEFINE tokens == DOMAIN cache.k[0]
           out == Ma!Translate(cache, pairs, weights, positions, from, to, applied)
           S(l) == StrippedLayer(cache, l, tokens, from, applied)
           stripped == [l \in DOMAIN cache.k |-> S(l)]
           M(vs) == MappedAs(vs, weights, tokens)
           Rot(vs) == RotatedLayer(vs, positions, to, applied)
           at(l) == CHOOSE j \in DOMAIN pairs : pairs[j][1] = l
           named == {pairs[j][1] : j \in DOMAIN pairs}
<1>1. out = [k |-> [l \in named |-> Rot(M(stripped[pairs[at(l)][2]]))],
             v |-> [l \in named |-> M(cache.v[pairs[at(l)][2]])]]
  BY DEF Ma!Translate, StrippedLayer, MappedAs, PooledAs, RotatedLayer
<1>2. at(pairs[i][1]) = i
  <2> DEFINE j == at(pairs[i][1])
  <2>1. j \in DOMAIN pairs /\ pairs[j][1] = pairs[i][1]
    OBVIOUS
  <2> HIDE DEF j
  <2>2. j = i
    BY <2>1
  <2> QED
    BY <2>2 DEF j
<1>3. pairs[i][1] \in named /\ stripped[pairs[i][2]] = S(pairs[i][2])
  OBVIOUS
<1> HIDE DEF S, M, Rot, at, named, stripped, out
<1>4. /\ out.k[pairs[i][1]] = Rot(M(stripped[pairs[at(pairs[i][1])][2]]))
      /\ out.v[pairs[i][1]] = M(cache.v[pairs[at(pairs[i][1])][2]])
  BY <1>1, <1>3
<1>5. /\ out.k[pairs[i][1]] = Rot(M(S(pairs[i][2])))
      /\ out.v[pairs[i][1]] = M(cache.v[pairs[i][2]])
  BY <1>2, <1>3, <1>4
<1> QED
  BY <1>5 DEF S, M, Rot, out

(* MapsKeepPlaces: for any tokenizations, numbers of layers and heads, scores,
   caches, pairs and rotations, an alignment weighs what is shared and all of it,
   each head finds its own and layers keep their order, those chosen improve one
   after another, and keys come out turned by exactly the target's rotation and
   made of what they should be (align.align, geometry.convert,
   linear.select_source_layers, translate.translate). *)
THEOREM PlacesAreKept == Spec => []MapsKeepPlaces
<1>1. CallInv => MapsKeepPlaces
  <2> SUFFICES ASSUME CallInv
               PROVE  MapsKeepPlaces
    OBVIOUS
  <2> DEFINE c == call.of
             w == Ma!Align(c.source, c.target)
  <2>1. ASSUME call.rule = "align"
        PROVE  WeighsShared(c)
    <3>1. c \in Tokenizations
      BY <2>1 DEF CallInv
    <3>2. OfOneText(c.source, c.target)
      BY <3>1, TokenizationAssumption DEF OfOneText
    <3> HIDE DEF c
    <3>3. ASSUME w # <<>>, NEW t \in DOMAIN w
          PROVE  WeighsWhole(c.source, c.target, t)
      BY <3>2, <3>3, AlignedWeighsWhole
    <3> HIDE DEF w
    <3>4. w # <<>> => \A t \in DOMAIN w : WeighsWhole(c.source, c.target, t)
      BY <3>3
    <3> QED
      BY <3>4 DEF WeighsShared, WeighsWhole, w
  <2> DEFINE layer == Ma!DepthLayerMap(c.source, c.target)
             heads == Ma!Regroup(c.source, c.target, "mean")
             common == c.source * c.target
             spread == [t \in 1..c.target |-> <<t - 1, layer[t - 1]>>]
  <2>2. ASSUME call.rule = "geometry"
        PROVE  FitsInOrder(c)
    <3>1. c \in Geometries
      BY <2>2 DEF CallInv
    <3>2. c.source \in Nat \ {0} /\ c.target \in Nat \ {0}
      BY <3>1, GeometryAssumption
    <3> HIDE DEF c
    <3>3. /\ DOMAIN layer = 0..c.target - 1
          /\ \A t \in 0..c.target - 1 : layer[t] \in 0..c.source - 1
          /\ \A t, u \in 0..c.target - 1 : t <= u => layer[t] <= layer[u]
          /\ layer[0] = 0
          /\ c.target > 1 => layer[c.target - 1] = c.source - 1
      BY <3>2, LayersAreSpread
    <3> HIDE DEF layer
    <3>4. Ma!Convertible(spread, c.source, c.target)
      BY <3>2, <3>3, SpreadIsConvertible
    <3>5. {} \notin Range(heads) =>
             \A q \in 0..common - 1 : q \div c.target \in heads[q \div c.source]
      BY <3>2, HeadsFindTheirs
    <3>6. \A t, u \in DOMAIN layer : t <= u => layer[t] <= layer[u]
      BY <3>3
    <3> QED
      BY <3>3, <3>4, <3>5, <3>6 DEF FitsInOrder, layer
  <2> DEFINE chosen == Ma!SelectSourceLayers(c.layers, c.k, c.scores, c.infinite)
             upTo(n) == IF n = 0 THEN c.infinite ELSE c.scores[Range(SubSeq(chosen, 1, n))]
  <2>3. ASSUME call.rule = "layers"
        PROVE  ImprovesEachTime(c)
    <3>1. c \in LayerScores
      BY <2>3 DEF CallInv
    <3>2. Scored(c.layers, c.scores) /\ c.infinite \in Int /\ c.k \in Nat \ {0}
      BY <3>1, LayersAssumption DEF Scored
    <3> HIDE DEF c
    <3>3. /\ ChosenWell(chosen, c.layers, c.scores, c.infinite)
          /\ Len(chosen) <= c.k
          /\ \A l \in c.layers : ScoreAt(chosen, Len(chosen), c.scores, c.infinite) <= c.scores[{l}]
      BY <3>2, SelectedWell
    <3> HIDE DEF chosen
    <3>4. \A n : upTo(n) = ScoreAt(chosen, n, c.scores, c.infinite)
      BY DEF ScoreAt, Range, Ma!Range
    <3> HIDE DEF upTo
    <3>5. /\ DOMAIN chosen = 1..Len(chosen)
          /\ \A i, j \in 1..Len(chosen) : chosen[i] = chosen[j] => i = j
          /\ \A n \in 1..Len(chosen) : upTo(n) < upTo(n - 1)
      BY <3>3, <3>4 DEF ChosenWell
    <3>6. IsInjective(chosen)
      BY <3>5 DEF IsInjective
    <3>7. /\ \A n \in DOMAIN chosen : upTo(n) < upTo(n - 1)
          /\ \A l \in c.layers : upTo(Len(chosen)) <= c.scores[{l}]
      BY <3>3, <3>4, <3>5
    <3> QED
      BY <3>3, <3>6, <3>7 DEF ImprovesEachTime, chosen, upTo
  <2> DEFINE out == Ma!Translate(c.cache, c.pairs, c.weights, c.positions, c.from, c.to, c.applied)
  <2>4. ASSUME call.rule = "translate", Ma!Plannable(c.pairs, Cardinality(DOMAIN c.cache.k)),
               NEW i \in DOMAIN c.pairs, NEW t \in DOMAIN out.k[c.pairs[i][1]]
        PROVE  TurnedRight(c, out, i, t)
    <3>1. c \in Translations
      BY <2>4 DEF CallInv
    <3> DEFINE layers == DOMAIN c.cache.k
               tokens == DOMAIN c.cache.k[0]
               D == DOMAIN c.cache.v[0][0].turn
    <3>2. /\ layers = 0..Cardinality(layers) - 1
          /\ Len(c.weights) \in Nat
          /\ Weighs(c.weights, tokens)
          /\ \A u \in TargetTokens(c.weights, tokens) : c.positions[u] \in Int
          /\ c.to.theta \in Int /\ c.to.dims \in Int /\ D \subseteq Int /\ c.applied \in BOOLEAN
      BY <3>1, TranslationAssumption DEF Weighs, TargetTokens
    <3>3. Written(c.cache, layers, tokens, D, c.from, c.applied)
      <4> DEFINE turned(l, u) ==
                    [from |-> {<<l, u>>},
                     turn |-> [d \in D |-> IF c.applied /\ d <= c.from.dims
                                           THEN u * c.from.theta ELSE 0]]
      <4>1. /\ tokens \subseteq Nat /\ D \subseteq Int /\ c.from.theta \in Nat /\ c.from.dims \in Int
            /\ \A l \in layers :
                  /\ DOMAIN c.cache.v[l] = tokens
                  /\ \A u \in tokens :
                        /\ c.cache.v[l][u] = [from |-> {<<l, u>>}, turn |-> [d \in D |-> 0]]
                        /\ c.cache.k[l][u] = turned(l, u)
        BY <3>1, TranslationAssumption
      <4> HIDE DEF c, turned
      <4>2. \A l \in layers : PlainLayer(c.cache.v[l], l, tokens, D)
        BY <4>1 DEF PlainLayer, Plain
      <4>3. \A l \in layers, u \in tokens : c.cache.k[l][u] = turned(l, u)
        BY <4>1
      <4> QED
        BY <4>1, <4>2, <4>3 DEF Written, turned
    <3> HIDE DEF c
    <3>4. /\ c.pairs[i][2] \in layers
          /\ \A a, b \in DOMAIN c.pairs : c.pairs[a][1] = c.pairs[b][1] => a = b
      BY <2>4, <3>2 DEF Ma!Plannable, Ma!IsInjective
    <3> DEFINE l == c.pairs[i][2]
               s == StrippedLayer(c.cache, l, tokens, c.from, c.applied)
               ks == MappedAs(s, c.weights, tokens)
               vs == MappedAs(c.cache.v[l], c.weights, tokens)
               targets == TargetTokens(c.weights, tokens)
               of(u) == {l} \X ReadFor(c.weights, tokens, u)
    <3>5. /\ out.k[c.pairs[i][1]] = RotatedLayer(ks, c.positions, c.to, c.applied)
          /\ out.v[c.pairs[i][1]] = vs
      BY <3>4, TranslatedLayer
    <3>6. PlainLayer(s, l, tokens, D)
      BY <3>2, <3>3, <3>4, StrippedIsPlain
    <3>7. PlainLayer(c.cache.v[l], l, tokens, D)
      BY <3>3, <3>4 DEF Written
    <3> HIDE DEF s
    <3>8. MappedPlain(s, l, tokens, D, c.weights) /\ MappedPlain(c.cache.v[l], l, tokens, D, c.weights)
      BY <3>2, <3>6, <3>7, MappedStaysPlain
    <3>9. /\ DOMAIN ks = targets
          /\ \A u \in targets : ks[u] = Plain(of(u), D) /\ vs[u] = Plain(of(u), D)
      BY <3>8 DEF MappedPlain
    <3> DEFINE k == out.k[c.pairs[i][1]][t]
               v == out.v[c.pairs[i][1]][t]
    <3> HIDE DEF ks, vs, of, layers, out
    <3>10. /\ t \in targets /\ v = Plain(of(t), D)
           /\ k = IF c.applied THEN Ma!Turned(ks[t], 1, c.positions[t], c.to) ELSE ks[t]
      BY <2>4, <3>5, <3>9 DEF RotatedLayer
    <3> HIDE DEF targets, D
    <3>11. k = [from |-> of(t),
                turn |-> [d \in D |-> IF c.applied /\ d <= c.to.dims
                                      THEN c.positions[t] * c.to.theta ELSE 0]]
      <4>1. CASE c.applied
        <5> DEFINE p == c.positions[t]
                   rope == c.to
                   o == of(t)
        <5>1. p \in Int /\ rope.theta \in Int /\ rope.dims \in Int /\ D \subseteq Int
          BY <3>2, <3>10 DEF targets
        <5>2. k = Ma!Turned(Plain(o, D), 1, p, rope)
          BY <3>9, <3>10, <4>1
        <5> HIDE DEF p, rope, o, k
        <5>3. k = TurnedBy(o, D, p, rope)
          BY <5>1, <5>2, TurnedOnce
        <5> QED
          BY <4>1, <5>3 DEF TurnedBy, p, rope, o
      <4>2. CASE ~c.applied
        <5>1. k = Plain(of(t), D)
          BY <3>9, <3>10, <4>2
        <5> HIDE DEF k
        <5> QED
          BY <4>2, <5>1 DEF Plain
      <4> QED
        BY <4>1, <4>2
    <3>12. of(t) = {c.pairs[i][2]} \X (IF c.weights = <<>> THEN {t}
                       ELSE {u \in DOMAIN c.cache.k[0] : c.weights[t + 1][u + 1] > 0})
      BY DEF of, ReadFor
    <3> HIDE DEF k, v
    <3>13. v.from = of(t) /\ k.from = of(t) /\ DOMAIN k.turn = D
      BY <3>10, <3>11 DEF Plain
    <3>14. \A d \in D : /\ v.turn[d] = 0
                        /\ k.turn[d] = IF c.applied /\ d <= c.to.dims
                                       THEN c.positions[t] * c.to.theta ELSE 0
      BY <3>10, <3>11 DEF Plain
    <3> QED
      BY <3>12, <3>13, <3>14 DEF TurnedRight, k, v
  <2>5. ASSUME call.rule = "translate"
        PROVE  TurnsAsAsked(c)
    <3> HIDE DEF out, c
    <3>1. Ma!Plannable(c.pairs, Cardinality(DOMAIN c.cache.k)) =>
             \A i \in DOMAIN c.pairs : \A t \in DOMAIN out.k[c.pairs[i][1]] : TurnedRight(c, out, i, t)
      BY <2>4, <2>5
    <3> QED
      BY <3>1 DEF TurnsAsAsked, out
  <2> QED
    BY <2>1, <2>2, <2>3, <2>5 DEF MapsKeepPlaces, Of
<1> QED
  BY <1>1, CallsAreOfTheirFamily, PTL
-----------------------------------------------------------------------------
\* Sizes are added up alike.
LEMMA SameSum == \A s : Sz!Sum(s) = Ma!Total(s)
  BY DEF Sz!Sum, Ma!Total, Sz!FoldLeft, Ma!FoldLeft, Sz!MapThenFoldSet, Ma!MapThenFoldSet, Sz!Max, Ma!Max

\* What equal sizes add up to.
LEMMA SumOfEqual ==
    ASSUME NEW n \in Nat, NEW x \in Int, NEW s, DOMAIN s = 1..n, \A i \in 1..n : s[i] = x
    PROVE  Sz!Sum(s) = n * x
<1> DEFINE sum == [i \in 0..n |-> i * x]
<1>1. Numbers(s, n)
  BY DEF Numbers
<1>2. SumsUp(sum, s, n)
  <2>1. sum \in [0..n -> Int] /\ sum[0] = 0
    <3>1. \A i \in 0..n : i * x \in Int
      OBVIOUS
    <3> QED
      BY <3>1
  <2>2. ASSUME NEW i \in 1..n
        PROVE  sum[i] = sum[i - 1] + s[i]
    <3>1. i \in 0..n /\ i - 1 \in 0..n
      OBVIOUS
    <3>2. sum[i] = i * x /\ sum[i - 1] = (i - 1) * x
      BY <3>1
    <3>3. i * x = (i - 1) * x + x
      OBVIOUS
    <3> QED
      BY <3>2, <3>3
  <2> HIDE DEF sum
  <2> QED
    BY <2>1, <2>2 DEF SumsUp
<1>3. sum[n] = n * x
  OBVIOUS
<1> HIDE DEF sum
<1> QED
  BY <1>1, <1>2, <1>3, SumIs, SameSum

\* What two kinds of sizes add up to.
LEMMA SumOfBoth ==
    ASSUME NEW n \in Nat, NEW a, Numbers(a, n), NEW b, Numbers(b, n), NEW s, DOMAIN s = 1..n,
           \A i \in 1..n : s[i] = a[i] + b[i]
    PROVE  Sz!Sum(s) = Sz!Sum(a) + Sz!Sum(b)
<1>1. PICK p : SumsUp(p, a, n) /\ Ma!Total(a) = p[n]
  BY SumsExist
<1>2. PICK q : SumsUp(q, b, n) /\ Ma!Total(b) = q[n]
  BY SumsExist
<1> DEFINE sum == [i \in 0..n |-> p[i] + q[i]]
<1>3. /\ p \in [0..n -> Int] /\ p[0] = 0 /\ \A i \in 1..n : p[i] = p[i - 1] + a[i]
      /\ q \in [0..n -> Int] /\ q[0] = 0 /\ \A i \in 1..n : q[i] = q[i - 1] + b[i]
      /\ \A i \in 1..n : a[i] \in Int /\ b[i] \in Int
  BY <1>1, <1>2 DEF SumsUp, Numbers
<1>4. Numbers(s, n)
  BY <1>3 DEF Numbers
<1>5. SumsUp(sum, s, n)
  <2>1. sum \in [0..n -> Int] /\ sum[0] = 0
    BY <1>3
  <2>2. ASSUME NEW i \in 1..n
        PROVE  sum[i] = sum[i - 1] + s[i]
    <3>1. i \in 0..n /\ i - 1 \in 0..n
      OBVIOUS
    <3>2. sum[i] = p[i] + q[i] /\ sum[i - 1] = p[i - 1] + q[i - 1]
      BY <3>1
    <3>3. /\ p[i] = p[i - 1] + a[i] /\ q[i] = q[i - 1] + b[i] /\ s[i] = a[i] + b[i]
          /\ p[i - 1] \in Int /\ q[i - 1] \in Int /\ a[i] \in Int /\ b[i] \in Int
      BY <1>3, <3>1
    <3> HIDE DEF sum
    <3> QED
      BY <3>2, <3>3
  <2> HIDE DEF sum
  <2> QED
    BY <2>1, <2>2 DEF SumsUp
<1>6. sum[n] = p[n] + q[n]
  OBVIOUS
<1> HIDE DEF sum
<1> QED
  BY <1>1, <1>2, <1>4, <1>5, <1>6, SumIs, SameSum

\* Sizes add up to a size.
LEMMA SumOfSizes ==
    ASSUME NEW n \in Nat, NEW s, DOMAIN s = 1..n, \A i \in 1..n : s[i] \in Nat
    PROVE  Sz!Sum(s) \in Nat
<1>1. Numbers(s, n)
  BY DEF Numbers
<1>2. PICK p : SumsUp(p, s, n) /\ Ma!Total(s) = p[n]
  BY <1>1, SumsExist
<1>3. p[n] \in Nat
  BY <1>2, SumsGrow
<1> QED
  BY <1>2, <1>3, SameSum

\* What r sizes and r other ones behind them add up to.
LEMMA SumOfHalves ==
    ASSUME NEW r \in Nat, NEW x \in Int, NEW y \in Int, NEW s, DOMAIN s = 1..2 * r,
           \A i \in 1..2 * r : s[i] = IF i <= r THEN x ELSE y
    PROVE  Sz!Sum(s) = r * (x + y)
<1> DEFINE n == 2 * r
           at(i) == IF i <= r THEN i * x ELSE r * x + (i - r) * y
           sum == [i \in 0..n |-> at(i)]
<1>1. n \in Nat /\ r <= n
  OBVIOUS
<1>2. Numbers(s, n)
  BY DEF Numbers
<1>3. \A i \in 0..n : at(i) \in Int
  OBVIOUS
<1>4. ASSUME NEW i \in 1..n
      PROVE  at(i) = at(i - 1) + s[i]
  <2>1. CASE i <= r
    <3>1. at(i) = i * x /\ at(i - 1) = (i - 1) * x /\ s[i] = x
      BY <2>1
    <3>2. i * x = (i - 1) * x + x
      OBVIOUS
    <3> QED
      BY <3>1, <3>2
  <2>2. CASE i = r + 1
    <3>1. at(i) = r * x + y /\ at(i - 1) = r * x /\ s[i] = y
      BY <2>2
    <3> QED
      BY <3>1
  <2>3. CASE i > r + 1
    <3>1. at(i) = r * x + (i - r) * y /\ at(i - 1) = r * x + (i - 1 - r) * y /\ s[i] = y
      BY <2>3
    <3>2. (i - r) * y = (i - 1 - r) * y + y /\ r * x \in Int /\ (i - 1 - r) * y \in Int
      OBVIOUS
    <3> QED
      BY <3>1, <3>2
  <2> QED
    BY <2>1, <2>2, <2>3
<1>5. at(0) = 0
  OBVIOUS
<1>6. at(n) = r * (x + y)
  <2>1. CASE r = 0
    BY <2>1
  <2>2. CASE r > 0
    <3>1. at(n) = r * x + (n - r) * y /\ n - r = r
      BY <2>2
    <3>2. r * x + r * y = r * (x + y)
      OBVIOUS
    <3> QED
      BY <3>1, <3>2
  <2> QED
    BY <2>1, <2>2
<1> HIDE DEF at, n
<1>7. SumsUp(sum, s, n)
  <2>1. sum \in [0..n -> Int] /\ sum[0] = 0
    BY <1>1, <1>3, <1>5
  <2>2. \A i \in 1..n : sum[i] = sum[i - 1] + s[i]
    BY <1>1, <1>4
  <2> HIDE DEF sum
  <2> QED
    BY <2>1, <2>2 DEF SumsUp
<1>8. sum[n] = at(n)
  BY <1>1
<1> HIDE DEF sum
<1> QED
  BY <1>1, <1>2, <1>6, <1>7, <1>8, SumIs, SameSum

\* A row that can be sized is made of whole blocks.
LEMMA RowsAreWhole ==
    ASSUME NEW type, NEW n \in Nat, Sz!RowSize(type, n) # -1
    PROVE  /\ Sz!RowSize(type, n) \in Nat
           /\ Sz!WholeBlocks(type, Sz!RowSize(type, n))
<1> DEFINE row == Sz!RowSize(type, n)
<1>1. Sz!Types = [f32 |-> <<1, 4>>, f16 |-> <<1, 2>>, q8_0 |-> <<32, 34>>, q4_0 |-> <<32, 18>>]
  BY DEF Sz!Types
<1>2. type \in {"f32", "f16", "q8_0", "q4_0"} /\ row = (n \div Sz!Types[type][1]) * Sz!Types[type][2]
  BY <1>1 DEF Sz!RowSize
<1>3. /\ type = "f32" => Sz!Types[type][1] = 1 /\ Sz!Types[type][2] = 4
      /\ type = "f16" => Sz!Types[type][1] = 1 /\ Sz!Types[type][2] = 2
      /\ type = "q8_0" => Sz!Types[type][1] = 32 /\ Sz!Types[type][2] = 34
      /\ type = "q4_0" => Sz!Types[type][1] = 32 /\ Sz!Types[type][2] = 18
  BY <1>1
<1>4. type \in DOMAIN Sz!Types
  BY <1>1, <1>2
<1> HIDE DEF row
<1> DEFINE whole == row \in Nat /\ row % Sz!Types[type][2] = 0
<1>5. ASSUME type = "f32" PROVE whole
  <2>1. n \div 1 \in Nat
    OBVIOUS
  <2> DEFINE q == n \div 1
  <2> HIDE DEF q
  <2>2. row = q * 4 /\ q \in Nat
    BY <1>2, <1>3, <1>5, <2>1 DEF q
  <2>3. row \in Nat /\ row % 4 = 0
    BY <2>2
  <2> QED
    BY <1>3, <1>5, <2>3
<1>6. ASSUME type = "f16" PROVE whole
  <2>1. n \div 1 \in Nat
    OBVIOUS
  <2> DEFINE q == n \div 1
  <2> HIDE DEF q
  <2>2. row = q * 2 /\ q \in Nat
    BY <1>2, <1>3, <1>6, <2>1 DEF q
  <2>3. row \in Nat /\ row % 2 = 0
    BY <2>2
  <2> QED
    BY <1>3, <1>6, <2>3
<1>7. ASSUME type = "q8_0" PROVE whole
  <2>1. n \div 32 \in Nat
    OBVIOUS
  <2> DEFINE q == n \div 32
  <2> HIDE DEF q
  <2>2. row = q * 34 /\ q \in Nat
    BY <1>2, <1>3, <1>7, <2>1 DEF q
  <2>3. row \in Nat /\ row % 34 = 0
    BY <2>2
  <2> QED
    BY <1>3, <1>7, <2>3
<1>8. ASSUME type = "q4_0" PROVE whole
  <2>1. n \div 32 \in Nat
    OBVIOUS
  <2> DEFINE q == n \div 32
  <2> HIDE DEF q
  <2>2. row = q * 18 /\ q \in Nat
    BY <1>2, <1>3, <1>8, <2>1 DEF q
  <2>3. row \in Nat /\ row % 18 = 0
    BY <2>2
  <2> QED
    BY <1>3, <1>8, <2>3
<1>9. whole
  BY <1>2, <1>5, <1>6, <1>7, <1>8
<1> QED
  BY <1>4, <1>9 DEF Sz!WholeBlocks, row

\* The rows of layers that can be sized.
Rowed(layers, m, type) ==
    \A i \in 1..m : /\ Sz!KRow(layers[i], type) \in Nat /\ Sz!VRow(layers[i], type) \in Nat
                    /\ Sz!WholeBlocks(type, Sz!KRow(layers[i], type))
                    /\ Sz!WholeBlocks(type, Sz!VRow(layers[i], type))

Stacked(layers, m) ==
    /\ DOMAIN layers = 1..m
    /\ \A i \in 1..m : layers[i].heads \in Int /\ layers[i].key \in Int /\ layers[i].value \in Int

LEMMA RowsFit ==
    ASSUME NEW m \in Nat, NEW layers, Stacked(layers, m), NEW type, Sz!RowsOk(layers, type)
    PROVE  Rowed(layers, m, type)
<1> SUFFICES ASSUME NEW i \in 1..m
             PROVE  /\ Sz!KRow(layers[i], type) \in Nat /\ Sz!VRow(layers[i], type) \in Nat
                    /\ Sz!WholeBlocks(type, Sz!KRow(layers[i], type))
                    /\ Sz!WholeBlocks(type, Sz!VRow(layers[i], type))
  BY DEF Rowed
<1> DEFINE l == layers[i]
<1>1. l.heads \in Int /\ l.key \in Int /\ l.value \in Int
  BY DEF Stacked
<1>2. /\ l.heads > 0 /\ l.key > 0 /\ l.value > 0
      /\ -1 \notin {Sz!KRow(l, type), Sz!VRow(l, type)}
  BY DEF Stacked, Sz!RowsOk, Sz!LayerOk
<1>3. l.heads * l.key \in Nat /\ l.heads * l.value \in Nat
  <2> DEFINE a == l.heads
             b == l.key
             c == l.value
  <2>1. a \in Nat /\ b \in Nat /\ c \in Nat
    BY <1>1, <1>2
  <2> HIDE DEF a, b, c
  <2>2. a * b \in Nat /\ a * c \in Nat
    BY <2>1
  <2> QED
    BY <2>2 DEF a, b, c
<1> HIDE DEF l
<1>4. Sz!KRow(l, type) = Sz!RowSize(type, l.heads * l.key)
      /\ Sz!VRow(l, type) = Sz!RowSize(type, l.heads * l.value)
  BY DEF Sz!KRow, Sz!VRow
<1> QED
  BY <1>2, <1>3, <1>4, RowsAreWhole DEF l

\* A state in one section: where its attention ends is as it was sized.
Ended(layers, cells, type, ext) ==
    /\ Sz!AttentionBytes(Sz!AttentionOf(layers, cells, type), ext)
          = Sz!SectionBytes(layers, cells, type, ext)
    /\ Sz!SectionBytes(layers, cells, type, ext) \in Nat
    /\ Sz!Readable(Sz!AttentionOf(layers, cells, type), <<>>)

\* A list of n equal things.
LEMMA Repeated ==
    ASSUME NEW n \in Nat, NEW x
    PROVE  /\ Len(Sz!Repeat(n, x)) = n /\ DOMAIN Sz!Repeat(n, x) = 1..n
           /\ \A i \in 1..n : Sz!Repeat(n, x)[i] = x
           /\ Sz!Repeat(n, x) = <<>> <=> n = 0
<1> DEFINE s == Sz!Repeat(n, x)
<1>1. s = [i \in 1..n |-> x]
  BY DEF Sz!Repeat
<1>2. DOMAIN s = 1..n /\ \A i \in 1..n : s[i] = x
  BY <1>1
<1>3. s \in Seq({x}) /\ Len(s) = n
  BY <1>1
<1>4. s = <<>> <=> n = 0
  BY <1>3
<1> QED
  BY <1>2, <1>3, <1>4

\* One cell with its sequence, its extension and nothing else.
LEMMA LayerSums ==
    ASSUME NEW m \in Nat, NEW layers, Stacked(layers, m), NEW type, Rowed(layers, m, type),
           NEW cells \in Nat
    PROVE  /\ Sz!LayerBytes(layers, cells, type) \in Nat
           /\ LET s == Sz!AttentionOf(layers, cells, type)
              IN  Sz!KeyBytes(s) + Sz!ValueBytes(s) = Sz!LayerBytes(layers, cells, type)
                  /\ Sz!KeyBytes(s) \in Nat /\ Sz!ValueBytes(s) \in Nat
<1> DEFINE s == Sz!AttentionOf(layers, cells, type)
           k(i) == Sz!KRow(layers[i], type)
           v(i) == Sz!VRow(layers[i], type)
           ks == [i \in 1..m |-> 12 + cells * k(i)]
           vs == [i \in 1..m |-> 12 + cells * v(i)]
           both == [i \in 1..m |-> 2 * 12 + cells * (k(i) + v(i))]
<1>1. DOMAIN layers = 1..m /\ \A i \in 1..m : k(i) \in Nat /\ v(i) \in Nat
  BY DEF Stacked, Rowed
<1>2. /\ s.cells = Sz!Repeat(cells, 1) /\ s.vTrans = FALSE
      /\ s.layers = [i \in 1..m |-> [type |-> type, k |-> k(i), v |-> v(i), width |-> 0]]
  BY <1>1 DEF Sz!AttentionOf, Sz!Each
<1>3. Len(s.cells) = cells
  BY <1>2, Repeated
<1>4. DOMAIN s.layers = 1..m /\ \A i \in 1..m : s.layers[i].k = k(i) /\ s.layers[i].v = v(i)
  BY <1>2
<1>5. Sz!LayerBytes(layers, cells, type) = Sz!Sum(both)
  BY <1>1 DEF Sz!LayerBytes, Sz!Each, Sz!TensorHeader
<1> HIDE DEF s, k, v
<1>6. Sz!KeyBytes(s) = Sz!Sum(ks)
  BY <1>3, <1>4 DEF Sz!KeyBytes, Sz!Each, Sz!TensorHeader
<1>7. Sz!ValueBytes(s) = Sz!Sum(vs)
  <2>1. vs = [i \in 1..m |-> 12 + cells * s.layers[i].v * 1]
    BY <1>1, <1>4
  <2>2. Sz!ValueBytes(s) = Sz!Sum([i \in DOMAIN s.layers |-> 12 + Len(s.cells) * s.layers[i].v * 1])
    BY <1>2 DEF Sz!ValueBytes, Sz!Each, Sz!TensorHeader
  <2> QED
    BY <1>3, <1>4, <2>1, <2>2
<1>8. \A i \in 1..m : /\ cells * k(i) \in Nat /\ cells * v(i) \in Nat
                      /\ cells * (k(i) + v(i)) = cells * k(i) + cells * v(i)
  BY <1>1
<1>9. /\ \A i \in 1..m : ks[i] \in Nat /\ vs[i] \in Nat /\ both[i] = ks[i] + vs[i]
      /\ DOMAIN ks = 1..m /\ DOMAIN vs = 1..m /\ DOMAIN both = 1..m
  BY <1>8
<1> HIDE DEF ks, vs, both
<1>10. Numbers(ks, m) /\ Numbers(vs, m)
  BY <1>9 DEF Numbers
<1>11. Sz!Sum(both) = Sz!Sum(ks) + Sz!Sum(vs)
  BY <1>9, <1>10, SumOfBoth
<1>12. Sz!Sum(ks) \in Nat /\ Sz!Sum(vs) \in Nat
  BY <1>9, SumOfSizes
<1> QED
  BY <1>5, <1>6, <1>7, <1>11, <1>12 DEF s

LEMMA AttentionEnds ==
    ASSUME NEW m \in 1..512, NEW layers, Stacked(layers, m), NEW type, NEW cells \in Nat,
           cells > 0 => Sz!RowsOk(layers, type), NEW ext \in Nat
    PROVE  Ended(layers, cells, type, ext)
<1> DEFINE s == Sz!AttentionOf(layers, cells, type)
<1>0. m \in Nat
  OBVIOUS
<1>1. DOMAIN layers = 1..m
  BY DEF Stacked
<1>2. /\ s.streams = 1 /\ s.cells = Sz!Repeat(cells, 1) /\ s.vTrans = FALSE
      /\ s.layers = [i \in 1..m |-> [type |-> type, k |-> Sz!KRow(layers[i], type),
                                     v |-> Sz!VRow(layers[i], type), width |-> 0]]
  BY <1>1 DEF Sz!AttentionOf, Sz!Each
<1>3. /\ DOMAIN s.cells = 1..cells /\ \A i \in 1..cells : s.cells[i] = 1
      /\ s.cells = <<>> <=> cells = 0
  BY <1>2, Repeated
<1>4. CASE cells = 0
  <2>1. Sz!AttentionBytes(s, ext) = 8
    <3> HIDE DEF s
    <3> QED
      BY <1>3, <1>4 DEF Sz!AttentionBytes
  <2>2. Sz!SectionBytes(layers, cells, type, ext) = 8
    BY <1>4 DEF Sz!SectionBytes
  <2>3. Sz!Readable(s, <<>>)
    <3> HIDE DEF s
    <3> QED
      BY <1>2, <1>3, <1>4 DEF Sz!Readable
  <2> QED
    BY <2>1, <2>2, <2>3 DEF Ended
<1>5. CASE cells > 0
  <2>1. Rowed(layers, m, type)
    BY <1>0, <1>1, <1>5, RowsFit
  <2> DEFINE b == Sz!LayerBytes(layers, cells, type)
             metas == [i \in DOMAIN s.cells |-> 8 + ext + 4 * s.cells[i]]
             c == cells * (12 + ext)
  <2>2. /\ b \in Nat /\ Sz!KeyBytes(s) \in Nat /\ Sz!ValueBytes(s) \in Nat
        /\ Sz!KeyBytes(s) + Sz!ValueBytes(s) = b
    BY <1>0, <1>1, <2>1, LayerSums
  <2>3. DOMAIN s.layers = 1..m /\ \A i \in 1..m : /\ s.layers[i].type = type
                                                  /\ s.layers[i].k = Sz!KRow(layers[i], type)
                                                  /\ s.layers[i].v = Sz!VRow(layers[i], type)
    BY <1>2
  <2>4. s.layers \in Seq(Range(s.layers)) /\ Len(s.layers) = m
    <3> DEFINE t == s.layers
    <3>1. DOMAIN t = 1..m /\ t = [i \in 1..m |-> t[i]]
      BY <1>2
    <3> HIDE DEF t
    <3> QED
      BY <1>0, <3>1 DEF t, Range
  <2> HIDE DEF s, b
  <2>5. Sz!CellBytes(s, ext) = c /\ c \in Nat
    <3>1. Sz!CellBytes(s, ext) = Sz!Sum(metas)
      BY DEF Sz!CellBytes, Sz!Each
    <3>2. DOMAIN metas = 1..cells /\ \A i \in 1..cells : metas[i] = 12 + ext
      BY <1>3
    <3> HIDE DEF metas
    <3> QED
      BY <3>1, <3>2, SumOfEqual
  <2> HIDE DEF c
  <2>6. Sz!AttentionBytes(s, ext) = 8 + c + 8 + b
    BY <1>3, <1>5, <2>2, <2>5 DEF Sz!AttentionBytes
  <2>7. Sz!SectionBytes(layers, cells, type, ext) = 8 + c + 8 + b
    BY <1>5, <2>2, <2>5 DEF Sz!SectionBytes, Sz!Body, Sz!CellMeta, b, c
  <2>8. Sz!Readable(s, <<>>)
    <3>1. \A i \in 1..m : /\ Sz!WholeBlocks(s.layers[i].type, s.layers[i].k)
                          /\ Sz!WholeBlocks(s.layers[i].type, s.layers[i].v)
      BY <2>1, <2>3 DEF Rowed
    <3>2. \A i \in DOMAIN s.cells : s.cells[i] <= 64
      BY <1>3
    <3>3. s.streams = 1 /\ s.vTrans = FALSE /\ Len(s.layers) \in 1..512 /\ DOMAIN s.layers = 1..m
      BY <1>2, <2>3, <2>4
    <3> QED
      BY <3>1, <3>2, <3>3 DEF Sz!Readable
  <2> QED
    BY <2>2, <2>5, <2>6, <2>7, <2>8 DEF Ended, s
<1> QED
  BY <1>4, <1>5

\* A header says how long it is.
LEMMA HeaderIs ==
    ASSUME NEW n \in Nat, n <= 2^24
    PROVE  Sz!HeaderSize([magic |-> TRUE, count |-> n]) = 12 + 4 * n
  BY DEF Sz!HeaderSize

\* The layers of a model in which all are alike.
LEMMA UniformIs ==
    ASSUME NEW g, g.nLayer \in Nat, g.heads \in Int, g.key \in Int, g.value \in Int
    PROVE  /\ Stacked(Sz!Uniform(g), g.nLayer)
           /\ \A i \in 1..g.nLayer : Sz!Uniform(g)[i] = [heads |-> g.heads, key |-> g.key,
                                                         value |-> g.value, sliding |-> FALSE]
  BY DEF Sz!Uniform, Stacked

\* What equal layers take.
LEMMA UniformBytes ==
    ASSUME NEW g, g.nLayer \in Nat, NEW cells \in Int, NEW type,
           NEW k \in Int, NEW v \in Int,
           \A i \in 1..g.nLayer : Sz!KRow(Sz!Uniform(g)[i], type) = k /\ Sz!VRow(Sz!Uniform(g)[i], type) = v
    PROVE  Sz!LayerBytes(Sz!Uniform(g), cells, type) = g.nLayer * (24 + cells * (k + v))
<1> DEFINE layers == Sz!Uniform(g)
           n == g.nLayer
           s == [i \in DOMAIN layers |-> 2 * 12 + cells * (Sz!KRow(layers[i], type) + Sz!VRow(layers[i], type))]
           x == 24 + cells * (k + v)
<1>1. Sz!LayerBytes(layers, cells, type) = Sz!Sum(s)
  BY DEF Sz!LayerBytes, Sz!Each, Sz!TensorHeader
<1>2. DOMAIN layers = 1..n
  BY DEF Sz!Uniform
<1> HIDE DEF layers
<1>3. DOMAIN s = 1..n /\ \A i \in 1..n : s[i] = x
  BY <1>2 DEF layers
<1>4. x \in Int
  OBVIOUS
<1> HIDE DEF s, x
<1>5. Sz!Sum(s) = n * x
  BY <1>3, <1>4, SumOfEqual
<1> QED
  BY <1>1, <1>5 DEF x, layers

\* What a size counts for a section is what the section takes, with the extensions
\* of its cells and, where it has none, without the tail.
LEMMA ForeseenIs ==
    ASSUME NEW g, g.nLayer \in Nat, g.nLayer > 0, g.heads \in Int, g.key \in Int, g.value \in Int,
           NEW cells \in Nat, NEW type, Sz!RowsOk(Sz!Uniform(g), type), NEW ext \in Nat
    PROVE  LET layers == Sz!Uniform(g)
           IN  /\ Sz!Unwritten(layers, cells, type) \in Nat
               /\ Sz!Body(layers, cells, type, 0) \in Nat
               /\ Sz!Body(layers, cells, type, ext) = Sz!Body(layers, cells, type, 0) + ext * cells
               /\ Sz!Body(layers, cells, type, ext)
                     = Sz!SectionBytes(layers, cells, type, ext) + Sz!Unwritten(layers, cells, type)
<1> DEFINE layers == Sz!Uniform(g)
           L == g.nLayer
           k == Sz!KRow(layers[1], type)
           v == Sz!VRow(layers[1], type)
           rows(n) == Sz!LayerBytes(layers, n, type)
<1>1. /\ k \in Nat /\ v \in Nat
      /\ \A i \in 1..L : Sz!KRow(layers[i], type) = k /\ Sz!VRow(layers[i], type) = v
  <2>1. Stacked(layers, L) /\ \A i \in 1..L : layers[i] = [heads |-> g.heads, key |-> g.key,
                                                          value |-> g.value, sliding |-> FALSE]
    BY UniformIs
  <2>2. Rowed(layers, L, type)
    BY <2>1, RowsFit
  <2>3. 1 \in 1..L
    OBVIOUS
  <2> HIDE DEF layers
  <2>4. \A i \in 1..L : layers[i] = layers[1]
    BY <2>1, <2>3
  <2> QED
    BY <2>2, <2>3, <2>4 DEF Rowed
<1> HIDE DEF k, v
<1>2. \A n \in Nat : rows(n) = L * (24 + n * (k + v))
  BY <1>1, UniformBytes
<1>3. \A n \in Nat : rows(n) \in Nat
  <2> TAKE n \in Nat
  <2> DEFINE y == k + v
             x == 24 + n * y
  <2>1. y \in Nat
    BY <1>1
  <2> HIDE DEF y
  <2>2. x \in Nat
    BY <2>1
  <2> HIDE DEF x, rows, L
  <2>3. L \in Nat
    BY DEF L
  <2>4. L * x \in Nat
    BY <2>2, <2>3
  <2> QED
    BY <1>2, <2>4 DEF x, y
<1> HIDE DEF layers
<1>4. /\ Sz!Body(layers, cells, type, ext) = 8 + (12 + ext) * cells + 8 + rows(cells)
      /\ Sz!Body(layers, cells, type, 0) = 8 + (12 + 0) * cells + 8 + rows(cells)
      /\ Sz!Unwritten(layers, cells, type) = IF cells = 0 THEN 8 + rows(0) ELSE 0
      /\ Sz!SectionBytes(layers, cells, type, ext)
            = IF cells = 0 THEN 8 ELSE Sz!Body(layers, cells, type, ext)
  BY DEF Sz!Body, Sz!CellMeta, Sz!Unwritten, Sz!SectionBytes
<1> DEFINE a == rows(cells)
           z == rows(0)
           e == ext * cells
<1>5. a \in Nat /\ z \in Nat /\ (cells = 0 => a = z)
  BY <1>3
<1>6. e \in Nat /\ (12 + ext) * cells = 12 * cells + e /\ (cells = 0 => e = 0)
  OBVIOUS
<1> HIDE DEF rows, e, a, z
<1>7. /\ Sz!Body(layers, cells, type, ext) = 8 + (12 * cells + e) + 8 + a
      /\ Sz!Body(layers, cells, type, 0) = 8 + 12 * cells + 8 + a
      /\ Sz!Unwritten(layers, cells, type) = IF cells = 0 THEN 8 + z ELSE 0
  BY <1>4, <1>6 DEF a, z
<1> DEFINE whole == Sz!Body(layers, cells, type, ext)
           bare == Sz!Body(layers, cells, type, 0)
           spare == Sz!Unwritten(layers, cells, type)
           section == Sz!SectionBytes(layers, cells, type, ext)
<1>8. section = IF cells = 0 THEN 8 ELSE whole
  BY <1>4
<1> HIDE DEF whole, bare, spare, section
<1>9. spare \in Nat /\ bare \in Nat /\ whole = bare + e /\ whole = section + spare
  BY <1>5, <1>6, <1>7, <1>8 DEF whole, bare, spare
<1> QED
  BY <1>9 DEF whole, bare, spare, section, e, layers

\* state_bytes comes to where the reader of the attention section ends, but for
\* the extensions of the cells and the tail of a section without any.
LEMMA PlainEnds ==
    ASSUME NEW g, g.nLayer \in Int, g.nLayer <= 512, g.heads \in Int, g.key \in Int, g.value \in Int,
           g.arch.ext \in {-1, 0, 12},
           NEW cells \in Int, NEW type, NEW tokens \in Int, tokens <= 2^24
    PROVE  Sz!PlainIsExact(g, cells, type, tokens)
<1> DEFINE layers == Sz!Uniform(g)
           size == Sz!StateBytes(g, cells, type, tokens)
           at == Sz!HeaderSize([magic |-> TRUE, count |-> tokens])
           s == Sz!AttentionOf(layers, cells, type)
           spare == Sz!Unwritten(layers, cells, type)
<1>1. SUFFICES ASSUME size # -1, NEW ext \in Sz!Extensions(g.arch)
               PROVE  Sz!ReadAttention(s, at, size + ext * cells, ext, <<>>)
                        = size + ext * cells - spare
  BY DEF Sz!PlainIsExact
<1>2. /\ g.nLayer > 0 /\ tokens >= 0 /\ cells >= 0 /\ Sz!RowsOk(layers, type)
      /\ size = 12 + 4 * tokens + Sz!Body(layers, cells, type, 0)
  BY <1>1 DEF Sz!StateBytes, Sz!FileHeader
<1>3. g.nLayer \in 1..512 /\ g.nLayer \in Nat /\ tokens \in Nat /\ cells \in Nat /\ ext \in Nat
  BY <1>1, <1>2 DEF Sz!Extensions
<1>4. Stacked(layers, g.nLayer)
  BY <1>3, UniformIs
<1>5. /\ spare \in Nat /\ Sz!Body(layers, cells, type, 0) \in Nat
      /\ Sz!Body(layers, cells, type, ext) = Sz!Body(layers, cells, type, 0) + ext * cells
      /\ Sz!Body(layers, cells, type, ext) = Sz!SectionBytes(layers, cells, type, ext) + spare
  BY <1>2, <1>3, ForeseenIs
<1> HIDE DEF layers, size
<1>6. Ended(layers, cells, type, ext)
  BY <1>2, <1>3, <1>4, AttentionEnds
<1>7. at = 12 + 4 * tokens
  BY <1>3, HeaderIs
<1> HIDE DEF s, at, spare
<1> DEFINE e == ext * cells
           section == Sz!SectionBytes(layers, cells, type, ext)
           bare == Sz!Body(layers, cells, type, 0)
<1>8. /\ e \in Nat /\ bare \in Nat /\ spare \in Nat /\ bare + e = section + spare
      /\ size = 12 + 4 * tokens + bare
  BY <1>2, <1>3, <1>5
<1>9. Sz!AttentionBytes(s, ext) = section /\ section \in Nat /\ Sz!Readable(s, <<>>)
  BY <1>6 DEF Ended, s
<1> HIDE DEF e, section, bare
<1> DEFINE n == Sz!AttentionBytes(s, ext)
<1>10. at + n = size + e - spare /\ at + n <= size + e
  <2>1. at \in Nat /\ size = at + bare /\ n = section
    BY <1>3, <1>7, <1>8, <1>9
  <2>2. /\ e \in Nat /\ bare \in Nat /\ spare \in Nat /\ section \in Nat
        /\ bare + e = section + spare
    BY <1>8, <1>9
  <2> HIDE DEF n
  <2>3. at + n = size + e - spare
    BY <2>1, <2>2
  <2>4. at + n <= size + e
    BY <2>1, <2>2
  <2> QED
    BY <2>3, <2>4
<1> QED
  BY <1>9, <1>10 DEF Sz!ReadAttention, e

\* What one token more adds does not depend on how many there are.
LEMMA GrowsEvenly ==
    ASSUME NEW c, c.g.nLayer \in Int, c.g.heads \in Int, c.g.key \in Int, c.g.value \in Int,
           c.cells \in Int
    PROVE  GrowsByTheToken(c)
<1> DEFINE g == c.g
           type == c.type
           layers == Sz!Uniform(g)
           size(n) == Sz!StateBytes(g, n, type, n)
<1>1. SUFFICES ASSUME c.cells > 0, size(c.cells) # -1
               PROVE  size(c.cells + 1) = size(c.cells) + Sz!BytesPerToken(g, type)
  BY DEF GrowsByTheToken
<1>2. g.nLayer > 0 /\ Sz!RowsOk(layers, type)
  BY <1>1 DEF Sz!StateBytes
<1>3. \A n \in Nat : size(n) = 12 + 4 * n + Sz!Body(layers, n, type, 0)
  BY <1>1 DEF Sz!StateBytes, Sz!FileHeader
<1> HIDE DEF size
<1>4. g.nLayer \in Nat
  BY <1>2
<1> DEFINE k == Sz!KRow(layers[1], type)
           v == Sz!VRow(layers[1], type)
           L == g.nLayer
<1>5. /\ k \in Nat /\ v \in Nat
      /\ \A i \in 1..L : Sz!KRow(layers[i], type) = k /\ Sz!VRow(layers[i], type) = v
  <2>1. Stacked(layers, L) /\ \A i \in 1..L : layers[i] = [heads |-> g.heads, key |-> g.key,
                                                          value |-> g.value, sliding |-> FALSE]
    BY <1>4, UniformIs
  <2>2. Rowed(layers, L, type)
    BY <1>2, <1>4, <2>1, RowsFit
  <2>3. 1 \in 1..L
    BY <1>2, <1>4
  <2> HIDE DEF layers
  <2>4. \A i \in 1..L : layers[i] = layers[1]
    BY <2>1, <2>3
  <2> QED
    BY <2>2, <2>3, <2>4 DEF Rowed
<1> HIDE DEF k, v
<1>6. \A n \in Nat : Sz!LayerBytes(layers, n, type) = L * (24 + n * (k + v))
  BY <1>4, <1>5, UniformBytes
<1> DEFINE w == L * (k + v)
<1>7. \A n \in Nat : size(n) = 12 + 4 * n + (8 + 12 * n + 8 + (L * 24 + n * w))
  <2> TAKE n \in Nat
  <2>1. L * (24 + n * (k + v)) = L * 24 + n * w
    <3> HIDE DEF L
    <3>1. L \in Nat /\ k \in Nat /\ v \in Nat
      BY <1>4, <1>5 DEF L
    <3> DEFINE x == k + v
    <3>2. x \in Nat
      BY <3>1
    <3> HIDE DEF x
    <3>3. L * (24 + n * x) = L * 24 + n * (L * x)
      BY <3>1, <3>2
    <3> QED
      BY <3>3 DEF x
  <2> HIDE DEF L, w, layers
  <2>2. Sz!Body(layers, n, type, 0) = 8 + (12 + 0) * n + 8 + (L * 24 + n * w)
    BY <1>6, <2>1 DEF Sz!Body, Sz!CellMeta
  <2> QED
    BY <1>3, <2>2 DEF w
<1>8. Sz!BytesPerToken(g, type) = size(1) - size(0)
  BY DEF Sz!BytesPerToken, size
<1>9. w \in Nat /\ L * 24 \in Nat
  <2>1. L \in Nat /\ k + v \in Nat
    BY <1>4, <1>5
  <2> HIDE DEF L
  <2> DEFINE x == k + v
  <2> HIDE DEF x
  <2>2. L * x \in Nat /\ L * 24 \in Nat
    BY <2>1 DEF x
  <2> QED
    BY <2>2 DEF x
<1> DEFINE b == L * 24
           n == c.cells
<1>10. n \in Nat /\ n + 1 \in Nat
  BY <1>1
<1> HIDE DEF w, b, n, g, type
<1>11. /\ size(0) = 12 + 4 * 0 + (8 + 12 * 0 + 8 + (b + 0 * w))
       /\ size(1) = 12 + 4 * 1 + (8 + 12 * 1 + 8 + (b + 1 * w))
       /\ size(n) = 12 + 4 * n + (8 + 12 * n + 8 + (b + n * w))
       /\ size(n + 1) = 12 + 4 * (n + 1) + (8 + 12 * (n + 1) + 8 + (b + (n + 1) * w))
  BY <1>7, <1>10 DEF b
<1>12. (n + 1) * w = n * w + w /\ n * w \in Nat
  BY <1>9, <1>10
<1>13. size(n + 1) = size(n) + (size(1) - size(0))
  BY <1>9, <1>10, <1>11, <1>12 DEF b
<1> QED
  BY <1>8, <1>13 DEF n, g, type

\* An appendix of n records of one buffer each.
Buffered(a, n) ==
    /\ a.magic = TRUE /\ a.version = 1 /\ a.count = n
    /\ a.records \in Seq(Range(a.records)) /\ DOMAIN a.records = 1..n
    /\ \A i \in 1..n : LET c == a.records[i]
                       IN  /\ c.target \in Nat /\ c.target <= 2^20
                           /\ c.dft = 0 /\ c.spec = 0 /\ ~Sz!BadExtent(c)

RecordSizes(a) == [i \in DOMAIN a.records |-> Sz!RecordBytes(a.records[i])]

\* It is measured to its end.
LEMMA AppendixIsMeasured ==
    ASSUME NEW a, NEW n \in Nat, n <= 1024, Buffered(a, n), NEW start \in Nat, NEW size \in Int,
           size = start + 12 + Sz!Sum(RecordSizes(a)), Sz!Sum(RecordSizes(a)) <= 2^22
    PROVE  Sz!ParseStream(a, start, size) = "ok" /\ Recorded(a)
<1> DEFINE t(i) == a.records[i].target
           s == RecordSizes(a)
           S == Range(a.records)
<1>1. /\ a.magic = TRUE /\ a.version = 1 /\ a.count = n /\ a.records \in Seq(S)
      /\ DOMAIN a.records = 1..n
      /\ \A i \in 1..n : /\ t(i) \in Nat /\ t(i) <= 2^20
                         /\ a.records[i].dft = 0 /\ a.records[i].spec = 0
                         /\ ~Sz!BadExtent(a.records[i])
  BY DEF Buffered
<1>2. Len(a.records) = n
  BY <1>1
<1>3. Recorded(a)
  <2>1. \A c \in S : Measurable(c)
    BY <1>1 DEF Measurable, Range
  <2> QED
    BY <1>1, <2>1 DEF Recorded
<1>4. Counted(a) = a.records
  <2>1. Sz!Min({a.count, Len(a.records)}) = n
    <3>1. \A x \in {a.count, Len(a.records)} : x = n
      BY <1>1, <1>2
    <3> QED
      BY <1>1, <1>2, <3>1 DEF Sz!Min
  <2> QED
    BY <1>1, <1>2, <2>1 DEF Counted
<1>5. DOMAIN s = 1..n /\ \A i \in 1..n : s[i] = 40 + t(i)
  <2>1. DOMAIN s = 1..n
    BY <1>1 DEF RecordSizes
  <2>2. ASSUME NEW i \in 1..n
        PROVE  s[i] = 40 + t(i)
    <3> DEFINE c == a.records[i]
    <3>1. c.target \in Nat /\ c.dft = 0 /\ c.spec = 0 /\ t(i) = c.target
      BY <1>1
    <3>2. s[i] = Sz!RecordBytes(c)
      BY <1>1 DEF RecordSizes
    <3> HIDE DEF c, s, t
    <3>3. Sz!RecordBytes(c) = 40 + c.target
      BY <3>1 DEF Sz!RecordBytes
    <3> QED
      BY <3>1, <3>2, <3>3
  <2> QED
    BY <2>1, <2>2
<1>6. /\ Numbers(s, n) /\ \A i \in 1..n : s[i] \in Nat
      /\ \A i \in 1..n : Measurable(a.records[i])
  <2> HIDE DEF s
  <2>1. ASSUME NEW i \in 1..n
        PROVE  s[i] \in Nat /\ s[i] \in Int
    <3>1. s[i] = 40 + t(i) /\ t(i) \in Nat
      BY <1>1, <1>5
    <3> HIDE DEF t
    <3> QED
      BY <3>1
  <2>2. Numbers(s, n)
    BY <1>5, <2>1 DEF Numbers
  <2>3. ASSUME NEW i \in 1..n
        PROVE  Measurable(a.records[i])
    <3>1. t(i) \in Nat /\ a.records[i].dft = 0 /\ a.records[i].spec = 0
      BY <1>1
    <3> QED
      BY <3>1 DEF Measurable
  <2> QED
    BY <2>1, <2>2, <2>3
<1> HIDE DEF s
<1>7. PICK p : SumsUp(p, s, n) /\ Ma!Total(s) = p[n]
  BY <1>6, SumsExist
<1>8. /\ p[n] = Sz!Sum(s) /\ p[0] = 0 /\ \A i \in 1..n : p[i] = p[i - 1] + s[i]
      /\ \A i \in 0..n : p[i] \in Nat
      /\ \A i \in 1..n : p[i] <= p[n]
  <2>1. p[n] = Sz!Sum(s)
    BY <1>7, SameSum
  <2>2. /\ \A i \in 0..n : p[i] \in Nat
        /\ \A i \in 1..n : p[i - 1] <= p[i] /\ p[i] <= p[n]
    BY <1>6, <1>7, SumsGrow
  <2> QED
    BY <1>7, <2>1, <2>2 DEF SumsUp
<1>9. PICK r : MeasuresUp(r, a, Counted(a), n, start, size)
  BY <1>1, <1>3, <1>4, <1>6, StreamRuns
<1>10. /\ r \in [0..n -> Walk] /\ r[0] = [at |-> start + 12, total |-> 0, says |-> "reading"]
       /\ r[n] = Sz!MeasureRecords(a, start, size)
       /\ \A i \in 1..n : r[i] = Sz!MeasureRecord(r[i - 1], a.records[i], size)
  BY <1>4, <1>9 DEF MeasuresUp
<1> DEFINE G == {i \in 0..n : /\ r[i].says = "reading" /\ r[i].at = start + 12 + p[i]
                              /\ r[i].total \in Int /\ r[i].total <= p[i]}
<1>11. 0 \in G
  BY <1>8, <1>10
<1>12. ASSUME NEW i \in 1..n, i - 1 \in G
       PROVE  i \in G
  <2> DEFINE w == r[i - 1]
             c == a.records[i]
             x == t(i)
  <2>1. /\ w \in Walk /\ w.says = "reading" /\ w.at = start + 12 + p[i - 1]
        /\ w.total \in Int /\ w.total <= p[i - 1]
        /\ r[i] = Sz!MeasureRecord(w, c, size)
    BY <1>10, <1>12
  <2>2. /\ x \in Nat /\ x <= 2^20 /\ c.dft = 0 /\ c.spec = 0 /\ ~Sz!BadExtent(c)
        /\ c.target = x
    BY <1>1
  <2>3. p[i] = p[i - 1] + 40 + x /\ p[i - 1] \in Nat /\ p[i] \in Nat /\ p[i] <= p[n]
    <3>1. i - 1 \in 0..n /\ i \in 0..n /\ s[i] = 40 + x
      BY <1>5
    <3> HIDE DEF x
    <3> QED
      BY <1>8, <2>2, <3>1
  <2>4. p[n] <= 2^22 /\ p[n] \in Nat /\ size = start + 12 + p[n]
    BY <1>8 DEF s
  <2> HIDE DEF w, c, x
  <2>5. w.total + x <= 2^22 /\ w.at + 40 + x <= size
    BY <2>1, <2>2, <2>3, <2>4
  <2>6. r[i] = [at |-> w.at + 40 + x, total |-> w.total + x, says |-> "reading"]
    BY <2>1, <2>2, <2>5, MeasuresRecordOn
  <2>7. /\ r[i].says = "reading" /\ r[i].at = start + 12 + p[i]
        /\ r[i].total \in Int /\ r[i].total <= p[i]
    BY <2>1, <2>2, <2>3, <2>6
  <2> QED
    BY <2>7
<1>13. n \in G
  <2> HIDE DEF G
  <2>1. \A i \in 1..n : i - 1 \in G => i \in G
    BY <1>12
  <2>2. \A i \in 0..n : i \in G
    BY <1>11, <2>1, UpTo
  <2> QED
    BY <2>2
<1> DEFINE walked == Sz!MeasureRecords(a, start, size)
<1>14. walked.says = "reading" /\ walked.at = size
  <2>1. r[n].says = "reading" /\ r[n].at = start + 12 + p[n]
    BY <1>13
  <2> QED
    BY <1>8, <1>10, <2>1 DEF s
<1>15. start + 12 <= size
  <2>1. n \in 0..n
    OBVIOUS
  <2>2. p[n] \in Nat /\ size = start + 12 + p[n]
    BY <1>8, <2>1 DEF s
  <2> QED
    BY <2>2
<1> HIDE DEF walked
<1>16. Sz!ParseStream(a, start, size) = "ok"
  <2>1. ~(start + 12 > size) /\ ~(a.count > Len(a.records)) /\ ~(a.count > 1024)
    BY <1>1, <1>2, <1>15
  <2> QED
    BY <1>1, <1>14, <2>1 DEF Sz!ParseStream, walked
<1> QED
  BY <1>3, <1>16

\* An appendix as its writer leaves it.
LEMMA WrittenIsBuffered ==
    ASSUME NEW n \in Nat, NEW bodies, DOMAIN bodies = 1..n, Len(bodies) = n,
           NEW sizes, \A i \in 1..n : sizes[i] \in Nat /\ 8 + sizes[i] <= 2^20
    PROVE  LET a == Sz!AppendixOf(bodies, sizes)
           IN  /\ Buffered(a, n)
               /\ DOMAIN RecordSizes(a) = 1..n
               /\ \A i \in 1..n : /\ RecordSizes(a)[i] = 48 + sizes[i]
                                  /\ a.records[i].target = 8 + sizes[i]
                                  /\ a.records[i].body = bodies[i]
<1> DEFINE a == Sz!AppendixOf(bodies, sizes)
           record(i) == [tokens |-> 1, posMin |-> 0, posMax |-> 0, target |-> 8 + sizes[i],
                         dft |-> 0, spec |-> 0, body |-> bodies[i]]
           s == [i \in 1..n |-> record(i)]
<1>1. /\ a.magic = TRUE /\ a.version = 1 /\ a.count = n /\ a.records = s
  BY DEF Sz!AppendixOf
<1>2. \A i \in 1..n : /\ record(i).target = 8 + sizes[i] /\ record(i).body = bodies[i]
                      /\ record(i).dft = 0 /\ record(i).spec = 0
                      /\ ~Sz!BadExtent(record(i))
                      /\ Sz!RecordBytes(record(i)) = 48 + sizes[i]
  BY DEF Sz!BadExtent, Sz!RecordBytes
<1> HIDE DEF record, a
<1>3. DOMAIN s = 1..n /\ \A i \in 1..n : s[i] = record(i)
  OBVIOUS
<1>4. s \in Seq(Range(s))
  <2>1. \A i \in 1..n : s[i] \in Range(s)
    BY <1>3 DEF Range
  <2> QED
    BY <1>3, <2>1
<1> HIDE DEF s
<1>5. Buffered(a, n)
  BY <1>1, <1>2, <1>3, <1>4 DEF Buffered
<1>6. DOMAIN RecordSizes(a) = 1..n /\ \A i \in 1..n : RecordSizes(a)[i] = 48 + sizes[i]
  BY <1>1, <1>2, <1>3 DEF RecordSizes
<1> QED
  BY <1>1, <1>2, <1>3, <1>5, <1>6 DEF a

\* The recurrent state of a hybrid geometry.
Recurs(g) ==
    /\ g.nLayer \in Int /\ g.recurrentLayers \in Nat /\ g.conv \in Nat /\ g.ssm \in Nat
    /\ g.conv % 4 = 0 /\ g.ssm % 4 = 0 /\ g.nLayer > 0 /\ g.nLayer + g.recurrentLayers <= 512

\* One recurrent cell takes what it was sized at, and is read as that.
LEMMA RecurrentIs ==
    ASSUME NEW g, Recurs(g)
    PROVE  /\ Sz!RecurrentBytes(Sz!RecurrentOf(g, 1)) = Sz!RecurrentTail(g, 1)
           /\ Sz!RecurrentTail(g, 1) \in Nat /\ Sz!RecurrentTail(g, 1) >= 20
           /\ \A start, end \in Int : start + Sz!RecurrentTail(g, 1) <= end =>
                 Sz!ReadRecurrent(Sz!RecurrentOf(g, 1), start, end, Sz!RecurrentMap(g))
                    = start + Sz!RecurrentTail(g, 1)
<1> DEFINE rec == Sz!RecurrentOf(g, 1)
           r == g.recurrentLayers
           left == Sz!Repeat(r, g.conv)
           right == Sz!Repeat(r, g.ssm)
           tail == Sz!RecurrentTail(g, 1)
           map == Sz!RecurrentMap(g)
<1>1. /\ r \in Nat /\ g.conv \in Nat /\ g.ssm \in Nat /\ g.conv % 4 = 0 /\ g.ssm % 4 = 0
      /\ g.nLayer \in Int /\ g.nLayer > 0 /\ g.nLayer + r <= 512
  BY DEF Recurs
<1>2. /\ rec.cells = Sz!Repeat(1, 0) /\ rec.sTrans = FALSE /\ rec.nLayer = g.nLayer + r
      /\ rec.rows = left \o right
  BY DEF Sz!RecurrentOf
<1>3. /\ left = [i \in 1..r |-> g.conv] /\ right = [i \in 1..r |-> g.ssm]
  BY DEF Sz!Repeat
<1>4. /\ Len(rec.rows) = 2 * r /\ DOMAIN rec.rows = 1..2 * r
      /\ \A i \in 1..2 * r : rec.rows[i] = IF i <= r THEN g.conv ELSE g.ssm
  <2> HIDE DEF r
  <2>1. left \in Seq(Nat) /\ right \in Seq(Nat) /\ Len(left) = r /\ Len(right) = r
    BY <1>1, <1>3
  <2>2. \A i \in 1..r : left[i] = g.conv /\ right[i] = g.ssm
    BY <1>3
  <2> DEFINE rows == left \o right
  <2> HIDE DEF left, right
  <2>3. Len(rows) = r + r /\ DOMAIN rows = 1..r + r
        /\ \A i \in 1..r + r : rows[i] = IF i <= r THEN left[i] ELSE right[i - r]
    <3>1. r \in Nat
      BY <1>1
    <3>2. Len(rows) = r + r /\ DOMAIN rows = 1..r + r
      BY <2>1, <3>1
    <3>3. ASSUME NEW i \in 1..r + r
          PROVE  rows[i] = IF i <= r THEN left[i] ELSE right[i - r]
      <4>1. CASE i <= r
        <5>1. i \in 1..Len(left)
          BY <2>1, <4>1
        <5> QED
          BY <2>1, <4>1, <5>1, Joined
      <4>2. CASE i > r
        <5> DEFINE j == i - r
        <5>1. j \in 1..Len(right) /\ Len(left) + j = i
          BY <2>1, <3>1, <4>2
        <5> HIDE DEF j
        <5>2. rows[Len(left) + j] = right[j]
          BY <2>1, <5>1, Joined
        <5> QED
          BY <3>1, <4>2, <5>1, <5>2 DEF j
      <4> HIDE DEF rows
      <4>3. i <= r \/ i > r
        BY <3>1
      <4> QED
        BY <4>1, <4>2, <4>3
    <3> HIDE DEF rows
    <3> QED
      BY <3>2, <3>3
  <2> HIDE DEF rows
  <2>4. r + r = 2 * r /\ \A i \in 1..r + r : i > r => i - r \in 1..r
    BY <1>1
  <2>5. \A i \in 1..2 * r : rows[i] = IF i <= r THEN g.conv ELSE g.ssm
    BY <1>1, <2>2, <2>3, <2>4
  <2> QED
    BY <1>2, <2>3, <2>4, <2>5 DEF rows
<1>5. DOMAIN rec.cells = 1..1 /\ rec.cells[1] = 0 /\ Len(rec.cells) = 1 /\ rec.cells # <<>>
  <2> DEFINE one == Sz!Repeat(1, 0)
  <2>1. 1 \in Nat /\ 1 \in 1..1 /\ 1 # 0
    OBVIOUS
  <2>2. /\ Len(one) = 1 /\ DOMAIN one = 1..1 /\ \A i \in 1..1 : one[i] = 0
        /\ one = <<>> <=> 1 = 0
    BY <2>1, Repeated
  <2> HIDE DEF one, rec
  <2>3. one[1] = 0 /\ one # <<>>
    BY <2>1, <2>2
  <2> QED
    BY <1>2, <2>2, <2>3 DEF one
<1> HIDE DEF rec, left, right
<1> DEFINE ids == [i \in DOMAIN rec.cells |-> 8 + 4 * rec.cells[i]]
           rows == [i \in DOMAIN rec.rows |-> 12 + Len(rec.cells) * rec.rows[i]]
<1>6. Sz!Sum(ids) = 1 * 8
  <2>1. DOMAIN ids = 1..1 /\ \A i \in 1..1 : ids[i] = 8
    BY <1>5
  <2>2. 1 \in Nat /\ 8 \in Int
    OBVIOUS
  <2> HIDE DEF ids
  <2> QED
    BY <2>1, <2>2, SumOfEqual
<1>7. Sz!Sum(rows) = r * ((12 + g.conv) + (12 + g.ssm))
  <2>1. DOMAIN rows = 1..2 * r
        /\ \A i \in 1..2 * r : rows[i] = IF i <= r THEN 12 + g.conv ELSE 12 + g.ssm
    BY <1>1, <1>4, <1>5
  <2>2. 12 + g.conv \in Int /\ 12 + g.ssm \in Int
    BY <1>1
  <2> DEFINE x == 12 + g.conv
             y == 12 + g.ssm
  <2>3. r \in Nat
    BY <1>1
  <2> HIDE DEF rows, r, x, y
  <2>4. Sz!Sum(rows) = r * (x + y)
    BY <2>1, <2>2, <2>3, SumOfHalves DEF x, y
  <2> QED
    BY <2>4 DEF x, y
<1>8. Sz!RecurrentBytes(rec) = 4 + Sz!Sum(ids) + 8 + Sz!Sum(rows)
  BY <1>5 DEF Sz!RecurrentBytes, Sz!Each, Sz!TensorHeader
<1>9. tail = 4 + 8 * 1 + 8 + r * (2 * 12 + 1 * (g.conv + g.ssm))
  BY DEF Sz!RecurrentTail, Sz!TensorHeader
<1>10. Sz!RecurrentBytes(rec) = tail /\ tail \in Nat /\ tail >= 20
  <2> DEFINE x == g.conv + g.ssm
             y == r * (24 + x)
  <2>1. x \in Nat /\ (12 + g.conv) + (12 + g.ssm) = 24 + x /\ 2 * 12 + 1 * (g.conv + g.ssm) = 24 + x
    BY <1>1
  <2> HIDE DEF x, tail, ids, rows, r
  <2>2. y \in Nat
    BY <1>1, <2>1
  <2>3. tail = 20 + y /\ Sz!RecurrentBytes(rec) = 20 + y
    <3>1. Sz!Sum(rows) = y /\ tail = 4 + 8 * 1 + 8 + y
      BY <1>7, <1>9, <2>1
    <3> HIDE DEF y
    <3> QED
      BY <1>6, <1>8, <2>2, <3>1
  <2> HIDE DEF y
  <2> QED
    BY <2>2, <2>3
<1>11. /\ DOMAIN map = 1..r /\ Len(map) = r /\ \A i \in 1..r : map[i] = i - 1
       /\ map \in Seq(Int)
  BY <1>1 DEF Sz!RecurrentMap
<1> HIDE DEF map, tail
<1>12. rec.nLayer \in 1..512 /\ rec.nLayer > r
  <2> DEFINE n == g.nLayer
  <2>1. n \in Int /\ n > 0 /\ n + r <= 512 /\ r \in Nat /\ rec.nLayer = n + r
    BY <1>1, <1>2
  <2> HIDE DEF n, r
  <2> QED
    BY <2>1
<1>13. Sz!IsInjective(map) /\ \A i \in DOMAIN map : map[i] \in 0..rec.nLayer - 1
  <2>1. \A i, j \in 1..r : map[i] = map[j] => i = j
    BY <1>1, <1>11
  <2>2. \A i \in 1..r : map[i] \in 0..rec.nLayer - 1
    <3> DEFINE top == rec.nLayer
    <3>1. r \in Nat /\ top \in Int /\ top > r
      BY <1>1, <1>12
    <3> HIDE DEF r, top
    <3>2. \A i \in 1..r : i - 1 \in 0..top - 1
      BY <3>1
    <3>3. \A i \in 1..r : map[i] = i - 1
      BY <1>11 DEF r
    <3> QED
      BY <3>2, <3>3 DEF top
  <2> QED
    BY <1>11, <2>1, <2>2 DEF Sz!IsInjective
<1>14. \A i \in DOMAIN rec.rows : Sz!WholeBlocks("f32", rec.rows[i])
  <2>1. \A i \in DOMAIN rec.rows : rec.rows[i] % 4 = 0
    BY <1>1, <1>4
  <2>2. "f32" \in DOMAIN Sz!Types /\ Sz!Types["f32"][2] = 4
    BY DEF Sz!Types
  <2> QED
    BY <2>1, <2>2 DEF Sz!WholeBlocks
<1>15. ASSUME NEW start \in Int, NEW end \in Int, start + tail <= end
       PROVE  Sz!ReadRecurrent(rec, start, end, map) = start + tail
  <2>1. \A i \in DOMAIN rec.cells : rec.cells[i] = 0
    BY <1>5
  <2>2. Len(rec.rows) = 2 * Len(map)
    BY <1>4, <1>11
  <2> HIDE DEF r
  <2> QED
    BY <1>2, <1>10, <1>13, <1>14, <1>15, <1>12, <2>1, <2>2 DEF Sz!ReadRecurrent
<1> QED
  BY <1>10, <1>15 DEF rec, map, tail

\* An appendix of p recurrent states ends with its file, for both of its readers,
\* and not a byte before it.
LEMMA RecurrentAppendixEnds ==
    ASSUME NEW g, Recurs(g), NEW p \in 1..1024, p * (8 + Sz!RecurrentTail(g, 1)) <= 2^20,
           NEW start \in Nat, NEW size \in Int,
           size = start + 12 + p * (48 + Sz!RecurrentTail(g, 1))
    PROVE  LET rec == Sz!RecurrentOf(g, 1)
           IN  Sz!AppendixEnds(Sz!AppendixOf(Sz!Repeat(p, rec), Sz!Repeat(p, Sz!RecurrentBytes(rec))),
                               start, size, Sz!RecurrentMap(g))
<1> DEFINE rec == Sz!RecurrentOf(g, 1)
           x == Sz!RecurrentTail(g, 1)
           map == Sz!RecurrentMap(g)
           bodies == Sz!Repeat(p, rec)
           sizes == Sz!Repeat(p, Sz!RecurrentBytes(rec))
           a == Sz!AppendixOf(bodies, sizes)
<1>1. /\ Sz!RecurrentBytes(rec) = x /\ x \in Nat /\ x >= 20
      /\ \A s, e \in Int : s + x <= e => Sz!ReadRecurrent(rec, s, e, map) = s + x
  BY RecurrentIs
<1>2. p \in Nat /\ p >= 1 /\ p <= 1024
  OBVIOUS
<1>3. /\ DOMAIN bodies = 1..p /\ Len(bodies) = p /\ \A i \in 1..p : bodies[i] = rec
      /\ \A i \in 1..p : sizes[i] = x
  BY <1>1, <1>2, Repeated
<1> HIDE DEF bodies, sizes, x, rec, map
<1>4. 8 + x <= 2^20 /\ p * (48 + x) \in Nat /\ p * (48 + x) <= 2^22
  <2> DEFINE y == 8 + x
             z == p * y
  <2>1. y \in Nat /\ 48 + x = y + 40
    BY <1>1
  <2>2. z <= 2^20
    BY DEF x
  <2> HIDE DEF y
  <2>3. z \in Nat /\ y <= z
    BY <1>2, <2>1
  <2>4. p * (y + 40) = z + p * 40
    BY <1>2, <2>1
  <2> HIDE DEF z
  <2> DEFINE total == p * (48 + x)
  <2>5. total = z + p * 40
    BY <2>1, <2>4
  <2> HIDE DEF total
  <2>6. total \in Nat /\ total <= 2^22 /\ y <= 2^20
    BY <1>2, <2>1, <2>2, <2>3, <2>5
  <2> QED
    BY <2>6 DEF total, y
<1>5. /\ Buffered(a, p) /\ DOMAIN RecordSizes(a) = 1..p
      /\ \A i \in 1..p : /\ RecordSizes(a)[i] = 48 + x
                         /\ a.records[i].target = 8 + x
                         /\ a.records[i].body = rec
  <2>1. \A i \in 1..p : sizes[i] \in Nat /\ 8 + sizes[i] <= 2^20
    BY <1>1, <1>3, <1>4
  <2>2. /\ Buffered(a, p) /\ DOMAIN RecordSizes(a) = 1..p
        /\ \A i \in 1..p : /\ RecordSizes(a)[i] = 48 + sizes[i]
                           /\ a.records[i].target = 8 + sizes[i]
                           /\ a.records[i].body = bodies[i]
    BY <1>2, <1>3, <2>1, WrittenIsBuffered
  <2> HIDE DEF a
  <2>3. ASSUME NEW i \in 1..p
        PROVE  /\ RecordSizes(a)[i] = 48 + x
               /\ a.records[i].target = 8 + x
               /\ a.records[i].body = rec
    <3>1. bodies[i] = rec /\ sizes[i] = x
      BY <1>3
    <3>2. /\ RecordSizes(a)[i] = 48 + sizes[i]
          /\ a.records[i].target = 8 + sizes[i]
          /\ a.records[i].body = bodies[i]
      BY <2>2
    <3> QED
      BY <3>1, <3>2
  <2> QED
    BY <2>2, <2>3
<1> HIDE DEF a
<1>6. Sz!Sum(RecordSizes(a)) = p * (48 + x)
  <2>1. 48 + x \in Int
    BY <1>1
  <2> QED
    BY <1>2, <1>5, <2>1, SumOfEqual
<1>7. size = start + 12 + Sz!Sum(RecordSizes(a)) /\ Sz!Sum(RecordSizes(a)) <= 2^22
  BY <1>4, <1>6 DEF x
<1>8. Sz!ParseStream(a, start, size) = "ok" /\ Recorded(a)
  BY <1>2, <1>5, <1>7, AppendixIsMeasured
<1>9. Sz!AppendixAt(a, start, size) = "ok"
  BY <1>8, UsableIsOk
<1>10. Sz!ParseStream(a, start, size - 1) # "ok"
  <2>1. size - 1 \in Int /\ size - 1 # size /\ start \in Int
    OBVIOUS
  <2> QED
    BY <1>8, <2>1, StreamEndsOnce
<1>11. \A end : Sz!ReadAppendix(a, start, end, map) = IF size = end THEN size ELSE -1
  <2>1. ASSUME NEW i \in 1..p
        PROVE  LET c == a.records[i]
               IN  /\ ~Sz!BadExtent(c) /\ c.target <= 2^20 /\ c.dft = 0 /\ c.spec = 0 /\ c.target > 8
                   /\ Sz!ReadRecurrent(c.body, 8, c.target, map) = c.target
    <3> DEFINE c == a.records[i]
    <3>1. ~Sz!BadExtent(c) /\ c.dft = 0 /\ c.spec = 0 /\ c.target = 8 + x /\ c.body = rec
      BY <1>5 DEF Buffered
    <3> HIDE DEF c
    <3>2. 8 + x \in Int /\ 8 \in Int /\ 8 + x > 8
      BY <1>1
    <3>3. Sz!ReadRecurrent(rec, 8, 8 + x, map) = 8 + x
      BY <1>1, <3>2
    <3> QED
      BY <1>4, <3>1, <3>2, <3>3 DEF c
  <2>2. a.magic = TRUE /\ a.version = 1 /\ a.count = p /\ Len(a.records) = p /\ DOMAIN a.records = 1..p
    BY <1>2, <1>5 DEF Buffered
  <2>3. Sz!Sum(Sz!Each(a.records, Sz!RecordBytes)) = Sz!Sum(RecordSizes(a))
    BY DEF Sz!Each, RecordSizes
  <2>4. start + 12 + Sz!Sum(Sz!Each(a.records, Sz!RecordBytes)) = size
    BY <1>7, <2>3
  <2> QED
    BY <1>2, <2>1, <2>2, <2>4 DEF Sz!ReadAppendix
<1>12. size # size - 1
  OBVIOUS
<1> QED
  BY <1>8, <1>9, <1>10, <1>11, <1>12 DEF Sz!AppendixEnds, a, bodies, sizes, rec, map

\* A state that can be sized has an architecture that tells the extension of its cells.
HybridSized(g, cells, checkpoints, tokens) ==
    /\ g.nLayer \in Int /\ g.recurrentLayers \in Int /\ g.nLayer + g.recurrentLayers <= 512
    /\ g.heads \in Int /\ g.key \in Int /\ g.value \in Int /\ g.arch.ext \in {-1, 0, 12}
    /\ g.conv \in Int /\ g.ssm \in Int /\ g.conv % 4 = 0 /\ g.ssm % 4 = 0
    /\ cells \in Int /\ tokens \in Int /\ tokens <= 2^24
    /\ checkpoints \in Int /\ checkpoints <= 1024
    /\ checkpoints * (8 + Sz!RecurrentTail(g, 1)) <= 2^20

\* hybrid_state_bytes comes to where the readers of both sections and of the
\* appendix end.
LEMMA HybridEnds ==
    ASSUME NEW g, NEW cells, NEW p, NEW type, NEW tokens, HybridSized(g, cells, p, tokens)
    PROVE  Sz!HybridIsExact(g, cells, p, type, tokens)
<1> DEFINE layers == Sz!Uniform(g)
           ext == g.arch.ext
           foreseen == Sz!HybridStateBytes(g, cells, p, type, tokens, 1)
           spare == Sz!Unwritten(layers, cells, type)
           size == foreseen - spare
           at == Sz!HeaderSize([magic |-> TRUE, count |-> tokens])
           rec == Sz!RecurrentOf(g, 1)
           map == Sz!RecurrentMap(g)
           s == Sz!AttentionOf(layers, cells, type)
           tail == Sz!ReadAttention(s, at, size, ext, <<>>)
           end == Sz!ReadRecurrent(rec, tail, size, map)
           a == Sz!AppendixOf(Sz!Repeat(p, rec), Sz!Repeat(p, Sz!RecurrentBytes(rec)))
           x == Sz!RecurrentTail(g, 1)
           whole == Sz!Body(layers, cells, type, ext)
           b == Sz!SectionBytes(layers, cells, type, ext)
<1>0. /\ g.nLayer \in Int /\ g.recurrentLayers \in Int /\ g.nLayer + g.recurrentLayers <= 512
      /\ g.heads \in Int /\ g.key \in Int /\ g.value \in Int /\ ext \in {-1, 0, 12}
      /\ g.conv \in Int /\ g.ssm \in Int /\ g.conv % 4 = 0 /\ g.ssm % 4 = 0
      /\ cells \in Int /\ tokens \in Int /\ tokens <= 2^24
      /\ p \in Int /\ p <= 1024 /\ p * (8 + x) <= 2^20
  BY DEF HybridSized
<1>1. SUFFICES ASSUME foreseen # -1
               PROVE  /\ tail # -1
                      /\ IF p = 0 THEN end = size ELSE Sz!AppendixEnds(a, end, size, map)
  BY DEF Sz!HybridIsExact
<1>2. /\ ext # -1 /\ p >= 0 /\ tokens >= 0 /\ cells >= 0 /\ g.nLayer > 0 /\ g.recurrentLayers >= 0
      /\ g.conv > 0 /\ g.ssm > 0 /\ Sz!RowsOk(layers, type)
      /\ foreseen = 12 + 4 * tokens + whole + x + (IF p = 0 THEN 0 ELSE 12 + p * (16 + 24 + 8 + x))
  <2> DEFINE refused == \/ ext = -1
                        \/ p < 0 \/ cells < 0 \/ tokens < 0 \/ 1 < 1
                        \/ g.nLayer <= 0 \/ g.recurrentLayers < 0 \/ g.conv <= 0 \/ g.ssm <= 0
                        \/ ~Sz!RowsOk(layers, type)
             sum == 12 + 4 * tokens + whole + x + (IF p = 0 THEN 0 ELSE 12 + p * (16 + 24 + 8 + x))
  <2>1. foreseen = IF refused THEN -1 ELSE sum
    BY DEF Sz!HybridStateBytes, Sz!FileHeader
  <2> HIDE DEF sum, foreseen, refused
  <2>2. ~refused /\ foreseen = sum
    BY <1>1, <2>1
  <2> HIDE DEF whole, x, layers
  <2>3. /\ ext # -1 /\ ~(p < 0) /\ ~(cells < 0) /\ ~(tokens < 0) /\ ~(g.nLayer <= 0) /\ ~(g.recurrentLayers < 0)
        /\ ~(g.conv <= 0) /\ ~(g.ssm <= 0) /\ Sz!RowsOk(layers, type)
    BY <2>2 DEF refused
  <2> QED
    BY <1>0, <2>2, <2>3 DEF sum
<1>3. Recurs(g)
  BY <1>0, <1>2 DEF Recurs
<1>4. g.nLayer \in 1..512 /\ g.nLayer \in Nat /\ tokens \in Nat /\ cells \in Nat /\ ext \in Nat
  <2> DEFINE n == g.nLayer
             m == g.recurrentLayers
  <2>1. n \in Int /\ m \in Int /\ n > 0 /\ m >= 0 /\ n + m <= 512
    BY <1>0, <1>2
  <2> HIDE DEF n, m
  <2>2. n \in 1..512 /\ n \in Nat
    BY <2>1
  <2>3. tokens \in Nat /\ cells \in Nat
    BY <1>0, <1>1, <1>2
  <2>4. ext \in Nat
    BY <1>0, <1>2
  <2> QED
    BY <2>2, <2>3, <2>4 DEF n
<1>5. Stacked(layers, g.nLayer)
  BY <1>0, <1>4, UniformIs
<1>6. /\ Sz!RecurrentBytes(rec) = x /\ x \in Nat
      /\ \A u, e \in Int : u + x <= e => Sz!ReadRecurrent(rec, u, e, map) = u + x
  BY <1>3, RecurrentIs
<1>8. spare \in Nat /\ whole = b + spare
  <2>1. /\ g.nLayer \in Nat /\ g.nLayer > 0 /\ g.heads \in Int /\ g.key \in Int /\ g.value \in Int
        /\ cells \in Nat /\ Sz!RowsOk(Sz!Uniform(g), type) /\ ext \in Nat
    BY <1>0, <1>2, <1>4
  <2> HIDE DEF ext
  <2> QED
    BY <2>1, ForeseenIs
<1> HIDE DEF layers, foreseen, ext
<1>7. Ended(layers, cells, type, ext)
  BY <1>2, <1>4, <1>5, AttentionEnds
<1>9. at = 12 + 4 * tokens
  BY <1>0, <1>4, HeaderIs
<1> HIDE DEF s, at, b, x, whole, spare
<1>10. Sz!AttentionBytes(s, ext) = b /\ b \in Nat /\ Sz!Readable(s, <<>>)
  BY <1>7 DEF Ended, s, b
<1> DEFINE rest == IF p = 0 THEN 0 ELSE 12 + p * (48 + x)
<1>11. /\ rest \in Nat /\ size = at + b + x + rest
       /\ p = 0 => rest = 0
       /\ p > 0 => rest = 12 + p * (48 + x)
  <2>1. p * (48 + x) \in Nat
    <3> DEFINE y == 48 + x
    <3>1. y \in Nat /\ p \in Nat
      BY <1>0, <1>2, <1>6
    <3> HIDE DEF y
    <3>2. p * y \in Nat
      BY <3>1
    <3> QED
      BY <3>2 DEF y
  <2>2. 16 + 24 + 8 + x = 48 + x
    BY <1>6
  <2> DEFINE q == p * (48 + x)
  <2>3. foreseen = 12 + 4 * tokens + whole + x + (IF p = 0 THEN 0 ELSE 12 + q)
    BY <1>2, <2>2
  <2>4. q \in Nat /\ rest = IF p = 0 THEN 0 ELSE 12 + q
    BY <2>1
  <2> HIDE DEF q, rest, at, b, x
  <2>5. rest \in Nat /\ (p = 0 => rest = 0) /\ (p > 0 => rest = 12 + q)
    BY <2>4
  <2>6. size = at + b + x + rest
    BY <1>4, <1>6, <1>8, <1>9, <1>10, <2>3, <2>4
  <2> QED
    BY <2>5, <2>6 DEF q
<1> HIDE DEF rest, size
<1>12. at \in Nat /\ size \in Int /\ tail = at + b /\ at + b \in Nat /\ at + b + x <= size
  <2>1. at \in Nat
    BY <1>4, <1>9
  <2>2. size \in Int /\ at + b \in Nat /\ at + b <= size /\ at + b + x <= size
    BY <1>6, <1>10, <1>11, <2>1
  <2>3. tail = at + b
    BY <1>10, <2>2 DEF Sz!ReadAttention
  <2> HIDE DEF tail
  <2> QED
    BY <2>1, <2>2, <2>3
<1> HIDE DEF tail
<1>13. end = at + b + x /\ end \in Nat
  <2>1. tail \in Int /\ size \in Int /\ tail + x <= size
    BY <1>6, <1>10, <1>12
  <2>2. end = tail + x
    BY <1>6, <2>1
  <2> HIDE DEF end
  <2> QED
    BY <1>6, <1>10, <1>12, <2>2
<1> HIDE DEF end
<1>14. CASE p = 0
  <2>1. end = size /\ tail # -1
    BY <1>6, <1>10, <1>11, <1>12, <1>13, <1>14
  <2> QED
    BY <1>14, <2>1
<1>15. CASE p # 0
  <2>1. p \in 1..1024 /\ p > 0
    BY <1>0, <1>2, <1>15
  <2>2. size = end + 12 + p * (48 + x)
    <3> DEFINE q == p * (48 + x)
    <3>1. rest = 12 + q /\ rest \in Nat
      BY <1>11, <2>1
    <3> HIDE DEF q
    <3>2. q \in Int
      <4>1. q \in Int
        <5> DEFINE y == 48 + x
        <5>1. y \in Int
          BY <1>6
        <5> HIDE DEF y
        <5>2. p * y \in Int
          BY <1>0, <5>1
        <5> QED
          BY <5>2 DEF q, y
      <4> QED
        BY <4>1
    <3>3. size = end + 12 + q
      BY <1>6, <1>11, <1>13, <3>1, <3>2
    <3> QED
      BY <3>3 DEF q
  <2>3. p * (8 + x) <= 2^20
    BY <1>0
  <2> HIDE DEF rec, map
  <2>4. Sz!AppendixEnds(a, end, size, map)
    BY <1>3, <1>12, <1>13, <2>1, <2>2, <2>3, RecurrentAppendixEnds DEF x, rec, map
  <2> HIDE DEF a
  <2>5. tail # -1
    BY <1>12
  <2> QED
    BY <1>15, <2>4, <2>5
<1> QED
  BY <1>14, <1>15

\* The layers of one section are layers of the model, no more than it has, and of
\* the kind asked for.
LEMMA SectionIs ==
    ASSUME NEW S, NEW g, g.layers \in Seq(S), NEW side
    PROVE  /\ Sz!Section(g, side) \in Seq({l \in S : l.sliding = side})
           /\ Len(Sz!Section(g, side)) <= Len(g.layers)
<1> DEFINE list == g.layers
           n == Len(list)
           V == Seq({l \in S : l.sliding = side})
           M(v, l) == IF l.sliding = side THEN Append(v, l) ELSE v
           step == [i \in 1..n |-> [v \in V |-> M(v, list[i])]]
           Is(h) == h = [s \in SUBSET (1..n) |->
                            IF s = {} THEN << >> ELSE M(h[s \ {Max(s)}], list[Max(s)])]
           h == CHOOSE h : Is(h)
<1>0. DOMAIN list = 1..n /\ n \in Nat /\ \A i \in 1..n : list[i] \in S
  OBVIOUS
<1>1. Sz!Section(g, side) = h[1..n]
  BY <1>0 DEF Sz!Section, Sz!FoldLeft, Sz!MapThenFoldSet, Sz!Max, Max
<1>2. << >> \in V
  OBVIOUS
<1>3. \A i \in 1..n, v \in V : M(v, list[i]) \in V
  BY <1>0
<1>4. \A i \in 1..n, v \in V : Len(M(v, list[i])) <= Len(v) + 1 /\ Len(v) \in Nat
  OBVIOUS
<1> HIDE DEF V, M
<1>5. step \in [1..n -> [V -> V]]
  BY <1>3
<1>6. \A i \in 1..n, v \in V : step[i][v] = M(v, list[i])
  OBVIOUS
<1> HIDE DEF step, n, list
<1>7. PICK f : Folds(f, n, V, << >>, step)
  BY <1>0, <1>2, <1>5, FoldExists
<1>8. \A s \in SUBSET (1..n) : s # {} =>
         s \ {Max(s)} \in SUBSET (1..n) /\ Max(s) \in 1..n
  BY <1>0, LargestPlace
<1>9. Is(f)
  <2>1. ASSUME NEW s \in SUBSET (1..n)
        PROVE  f[s] = IF s = {} THEN << >> ELSE M(f[s \ {Max(s)}], list[Max(s)])
    BY <1>6, <1>7, <1>8 DEF Folds
  <2>2. f = [s \in SUBSET (1..n) |-> f[s]]
    BY <1>7 DEF Folds
  <2> QED
    BY <2>1, <2>2
<1>10. Is(h)
  <2> HIDE DEF Is
  <2> QED
    BY <1>9
<1> HIDE DEF h
<1>11. Follows(h, n, V, << >>, step)
  BY <1>6, <1>8, <1>10 DEF Follows
<1> HIDE DEF Is
<1>12. PICK r : RunsTo(r, n, V, << >>, step, h[1..n])
  BY <1>0, <1>7, <1>11, FoldsRun
<1>13. r[0] = << >> /\ r[n] = h[1..n] /\ \A i \in 0..n : r[i] \in V
  BY <1>12 DEF RunsTo
<1>14. \A i \in 1..n : r[i] = M(r[i - 1], list[i])
  <2>1. \A i \in 1..n : r[i] = step[i][r[i - 1]] /\ i - 1 \in 0..n
    BY <1>0, <1>12 DEF RunsTo
  <2> QED
    BY <1>6, <1>13, <2>1
<1> DEFINE G == {i \in 0..n : Len(r[i]) <= i}
<1>15. 0 \in G
  BY <1>0, <1>13
<1>16. ASSUME NEW i \in 1..n, i - 1 \in G PROVE i \in G
  <2>1. i - 1 \in 0..n /\ r[i - 1] \in V /\ Len(r[i - 1]) <= i - 1
    BY <1>13, <1>16
  <2>2. r[i] = M(r[i - 1], list[i]) /\ r[i] \in V
    BY <1>13, <1>14
  <2>3. Len(r[i]) <= Len(r[i - 1]) + 1 /\ Len(r[i - 1]) \in Nat
    BY <1>4, <2>1, <2>2
  <2>4. Len(r[i]) \in Nat
    BY <2>2 DEF V
  <2> QED
    BY <2>1, <2>3, <2>4
<1>17. n \in G
  <2> HIDE DEF G
  <2>1. \A i \in 1..n : i - 1 \in G => i \in G
    BY <1>16
  <2>2. \A i \in 0..n : i \in G
    BY <1>0, <1>15, <2>1, UpTo
  <2> QED
    BY <1>0, <2>2
<1> QED
  BY <1>0, <1>1, <1>13, <1>17 DEF V, n, list

\* No number of a list is larger than their sum.
LEMMA SumHoldsEach ==
    ASSUME NEW n \in Nat, NEW s, DOMAIN s = 1..n, \A i \in 1..n : s[i] \in Nat
    PROVE  \A i \in 1..n : s[i] <= Sz!Sum(s)
<1>1. Numbers(s, n)
  BY DEF Numbers
<1>2. PICK sum : SumsUp(sum, s, n) /\ Ma!Total(s) = sum[n]
  BY <1>1, SumsExist
<1>3. \A i \in 1..n : sum[i] = sum[i - 1] + s[i] /\ sum[i] \in Int /\ sum[i - 1] \in Int
  BY <1>2 DEF SumsUp
<1>4. sum[0] = 0
  BY <1>2 DEF SumsUp
<1> DEFINE G == {i \in 0..n : sum[i] >= 0 /\ \A j \in 1..i : s[j] <= sum[i]}
<1>5. 0 \in G
  BY <1>4
<1>6. ASSUME NEW i \in 1..n, i - 1 \in G PROVE i \in G
  <2>1. sum[i - 1] >= 0 /\ \A j \in 1..(i - 1) : s[j] <= sum[i - 1]
    BY <1>6
  <2>2. s[i] \in Nat /\ sum[i] = sum[i - 1] + s[i] /\ sum[i - 1] \in Int
    BY <1>3
  <2>3. ASSUME NEW j \in 1..i PROVE s[j] <= sum[i]
    <3>1. CASE j = i
      BY <2>1, <2>2, <3>1
    <3>2. CASE j # i
      <4>1. j \in 1..(i - 1) /\ j \in 1..n
        BY <3>2
      <4>2. s[j] <= sum[i - 1] /\ s[j] \in Nat
        BY <2>1, <4>1
      <4> QED
        BY <2>2, <4>2
    <3> QED
      BY <3>1, <3>2
  <2>4. sum[i] >= 0
    BY <2>1, <2>2
  <2> QED
    BY <2>3, <2>4
<1>7. n \in G
  <2> HIDE DEF G
  <2>1. \A i \in 1..n : i - 1 \in G => i \in G
    BY <1>6
  <2>2. \A i \in 0..n : i \in G
    BY <1>5, <2>1, UpTo
  <2> QED
    BY <2>2
<1> QED
  BY <1>2, <1>7, SameSum

\* A layered state that can be sized: the architecture of one that slides has a window.
Layered(g, cells, swa, checkpoints, type) ==
    /\ g.layers \in Seq([heads : Int, key : Int, value : Int, sliding : BOOLEAN])
    /\ Len(g.layers) <= 512 /\ g.arch.ext \in {-1, 0, 12}
    /\ cells \in Int /\ cells <= 2^24 /\ swa \in Nat \union {-1}
    /\ checkpoints \in Seq(Int) /\ Len(checkpoints) <= 1024
    /\ Sz!LayeredStateBytes(g, cells, swa, checkpoints, type, cells) <= 2^20

LEMMA Within ==
    /\ \A k, m \in Nat : k <= m /\ m <= 512 => k \in 0..512
    /\ \A k \in 0..512 : k \in Nat /\ (k # 0 => k \in 1..512)
  OBVIOUS

\* A section of the layers has those numbers, and no more of them than a reader takes.
LEMMA SectionStacks ==
    ASSUME NEW g, NEW side,
           g.layers \in Seq([heads : Int, key : Int, value : Int, sliding : BOOLEAN]),
           Len(g.layers) <= 512
    PROVE  LET s == Sz!Section(g, side)
           IN  Len(s) \in 0..512 /\ Stacked(s, Len(s)) /\ (s = <<>> <=> Len(s) = 0)
<1> DEFINE S == [heads : Int, key : Int, value : Int, sliding : BOOLEAN]
           s == Sz!Section(g, side)
<1>1. s \in Seq({l \in S : l.sliding = side}) /\ Len(s) <= Len(g.layers)
  BY SectionIs
<1> HIDE DEF s
<1>2. /\ Len(s) \in Nat /\ DOMAIN s = 1..Len(s) /\ (s = <<>> <=> Len(s) = 0)
      /\ \A i \in 1..Len(s) : s[i] \in S
  BY <1>1
<1>3. Len(s) \in 0..512
  <2>1. Len(g.layers) \in Nat
    OBVIOUS
  <2> QED
    <3>1. Len(s) <= Len(g.layers) /\ Len(s) \in Nat /\ Len(g.layers) <= 512
      BY <1>1, <1>2
    <3> QED
      BY <2>1, <3>1, Within
<1>4. Stacked(s, Len(s))
  BY <1>2 DEF Stacked
<1> QED
  BY <1>2, <1>3, <1>4 DEF s

\* What the size of a layered state is made of, where it is foreseen.
LEMMA LayeredSize ==
    ASSUME NEW g, NEW cells, NEW swa, NEW ck, NEW type, Layered(g, cells, swa, ck, type),
           Sz!LayeredStateBytes(g, cells, swa, ck, type, cells) # -1
    PROVE  LET sliding == Sz!Sliding(g)
               ext == g.arch.ext
               records == [i \in DOMAIN ck |-> 48 + Sz!SectionBytes(sliding, ck[i], type, ext)]
           IN  /\ ext \in Nat /\ cells \in Nat /\ (sliding = <<>> <=> swa = -1)
               /\ ck # <<>> => sliding # <<>>
               /\ \A i \in DOMAIN ck : ck[i] \in 0..swa
               /\ cells > 0 => Sz!RowsOk(Sz!Base(g), type)
               /\ swa > 0 => Sz!RowsOk(sliding, type)
               /\ Sz!LayeredStateBytes(g, cells, swa, ck, type, cells)
                     = 12 + 4 * cells + Sz!SectionBytes(Sz!Base(g), cells, type, ext)
                       + (IF sliding = <<>> THEN 0 ELSE Sz!SectionBytes(sliding, swa, type, ext))
                       + (IF ck = <<>> THEN 0 ELSE 12 + Sz!Sum(records))
<1> DEFINE sliding == Sz!Sliding(g)
           ext == g.arch.ext
           size == Sz!LayeredStateBytes(g, cells, swa, ck, type, cells)
           record(n) == 16 + 24 + 8 + Sz!SectionBytes(sliding, n, type, ext)
           refused == \/ g.arch.hybrid \/ g.arch.recurrent \/ ext = -1 \/ ~Sz!LayeredOk(g)
                      \/ cells < 0 \/ cells < 0
                      \/ (sliding = <<>>) # (swa = -1)
                      \/ swa > cells
                      \/ ck # <<>> /\ sliding = <<>>
                      \/ \E i \in DOMAIN ck : ck[i] \notin 0..swa
                      \/ cells > 0 /\ ~Sz!RowsOk(Sz!Base(g), type)
                      \/ swa > 0 /\ ~Sz!RowsOk(sliding, type)
           given == [i \in DOMAIN ck |-> record(ck[i])]
           records == [i \in DOMAIN ck |-> 48 + Sz!SectionBytes(sliding, ck[i], type, ext)]
           sum(r) == 12 + 4 * cells + Sz!SectionBytes(Sz!Base(g), cells, type, ext)
                     + (IF sliding = <<>> THEN 0 ELSE Sz!SectionBytes(sliding, swa, type, ext))
                     + (IF ck = <<>> THEN 0 ELSE 12 + Sz!Sum(r))
<1>1. size = IF refused THEN -1 ELSE sum(given)
  BY DEF Sz!LayeredStateBytes, Sz!FileHeader, Sz!Each
<1> HIDE DEF size, refused, sum
<1>2. ~refused /\ size = sum(given)
  BY <1>1 DEF size
<1>3. given = records
  <2>1. \A b : 16 + 24 + 8 + b = 48 + b
    OBVIOUS
  <2> QED
    BY <2>1
<1>4. size = sum(records)
  BY <1>2, <1>3
<1>5. ext \in {-1, 0, 12} /\ cells \in Int
  BY DEF Layered
<1> HIDE DEF given, records
<1>6. /\ ext # -1 /\ ~(cells < 0) /\ ~(ck # <<>> /\ sliding = <<>>)
      /\ (sliding = <<>>) = (swa = -1)
      /\ \A i \in DOMAIN ck : ck[i] \in 0..swa
      /\ cells > 0 => Sz!RowsOk(Sz!Base(g), type)
      /\ swa > 0 => Sz!RowsOk(sliding, type)
  BY <1>2 DEF refused
<1>7. ext \in Nat /\ cells \in Nat
  BY <1>5, <1>6
<1> QED
  BY <1>4, <1>6, <1>7 DEF size, sum, records

\* The bytes of a section of those layers are a number.
LEMMA SectionIsCounted ==
    ASSUME NEW layers, Stacked(layers, Len(layers)), Len(layers) \in Nat, NEW type,
           NEW cells \in Nat, cells > 0 => Sz!RowsOk(layers, type), NEW ext \in Nat
    PROVE  Sz!SectionBytes(layers, cells, type, ext) \in Nat
<1>1. CASE cells = 0
  BY <1>1 DEF Sz!SectionBytes
<1>2. CASE cells > 0
  <2>1. Rowed(layers, Len(layers), type)
    BY <1>2, RowsFit
  <2>2. Sz!LayerBytes(layers, cells, type) \in Nat
    BY <2>1, LayerSums
  <2>3. (12 + ext) * cells \in Nat
    <3> DEFINE x == 12 + ext
    <3>1. x \in Nat
      OBVIOUS
    <3> HIDE DEF x
    <3>2. x * cells \in Nat
      BY <3>1
    <3> QED
      BY <3>2 DEF x
  <2> DEFINE y == (12 + ext) * cells
             z == Sz!LayerBytes(layers, cells, type)
  <2>4. Sz!SectionBytes(layers, cells, type, ext) = 8 + y + 8 + z
    BY <1>2 DEF Sz!SectionBytes, Sz!Body, Sz!CellMeta
  <2>5. y \in Nat /\ z \in Nat
    BY <2>2, <2>3
  <2> HIDE DEF y, z
  <2>6. 8 + y + 8 + z \in Nat
    BY <2>5
  <2> QED
    BY <2>4, <2>6
<1> QED
  BY <1>1, <1>2

\* layered_state_bytes comes to where the readers of both sections and of the
\* appendix end.
LEMMA LayeredEnds ==
    ASSUME NEW g, NEW cells, NEW swa, NEW ck, NEW type, Layered(g, cells, swa, ck, type)
    PROVE  Sz!LayeredIsExact(g, cells, swa, ck, type)
<1> DEFINE size == Sz!LayeredStateBytes(g, cells, swa, ck, type, cells)
           at == Sz!HeaderSize([magic |-> TRUE, count |-> cells])
           ext == g.arch.ext
           base == Sz!Base(g)
           sliding == Sz!Sliding(g)
           slid(n) == Sz!AttentionOf(sliding, n, type)
           first == Sz!ReadAttention(Sz!AttentionOf(base, cells, type), at, size, ext, <<>>)
           end == IF swa = -1 THEN first ELSE Sz!ReadAttention(slid(swa), first, size, ext, <<>>)
           held == Sz!Each(ck, slid)
           sizes == Sz!Each(held, LAMBDA b : Sz!AttentionBytes(b, ext))
           a == Sz!AppendixOf(held, sizes)
           sec(n) == Sz!SectionBytes(sliding, n, type, ext)
           records == [i \in DOMAIN ck |-> 48 + sec(ck[i])]
           n == Len(ck)
<1>1. SUFFICES ASSUME size # -1, base # <<>>
               PROVE  /\ first # -1 /\ end # -1
                      /\ IF ck = <<>> THEN end = size ELSE Sz!ParseStream(a, end, size) = "ok"
  BY DEF Sz!LayeredIsExact
<1> DEFINE b == Sz!SectionBytes(base, cells, type, ext)
           w == IF sliding = <<>> THEN 0 ELSE sec(swa)
           rest == IF ck = <<>> THEN 0 ELSE 12 + Sz!Sum(records)
<1>2. /\ ext \in Nat /\ cells \in Nat /\ (sliding = <<>> <=> swa = -1)
      /\ ck # <<>> => sliding # <<>>
      /\ \A i \in DOMAIN ck : ck[i] \in 0..swa
      /\ cells > 0 => Sz!RowsOk(base, type)
      /\ swa > 0 => Sz!RowsOk(sliding, type)
      /\ size = 12 + 4 * cells + b + w + rest
  BY <1>1, LayeredSize
<1>3. /\ cells <= 2^24 /\ swa \in Nat \union {-1} /\ n \in Nat /\ n <= 1024 /\ DOMAIN ck = 1..n
      /\ size <= 2^20 /\ (ck = <<>> <=> n = 0) /\ \A i \in 1..n : ck[i] \in Int
  BY DEF Layered
<1>4. /\ Len(base) \in 0..512 /\ Stacked(base, Len(base)) /\ (base = <<>> <=> Len(base) = 0)
      /\ Len(sliding) \in 0..512 /\ Stacked(sliding, Len(sliding))
      /\ (sliding = <<>> <=> Len(sliding) = 0)
  <2>1. /\ g.layers \in Seq([heads : Int, key : Int, value : Int, sliding : BOOLEAN])
        /\ Len(g.layers) <= 512
    BY DEF Layered
  <2>2. Len(base) \in 0..512 /\ Stacked(base, Len(base)) /\ (base = <<>> <=> Len(base) = 0)
    BY <2>1, SectionStacks DEF Sz!Base
  <2>3. /\ Len(sliding) \in 0..512 /\ Stacked(sliding, Len(sliding))
        /\ (sliding = <<>> <=> Len(sliding) = 0)
    BY <2>1, SectionStacks DEF Sz!Sliding
  <2> HIDE DEF base, sliding
  <2> QED
    BY <2>2, <2>3
<1> HIDE DEF size, at, ext, base, sliding, n
<1>5. Len(base) \in 1..512
  BY <1>1, <1>4, Within
<1>6. Ended(base, cells, type, ext)
  BY <1>2, <1>4, <1>5, AttentionEnds
<1>7. \A k \in 0..swa : Ended(sliding, k, type, ext)
  <2>1. ASSUME NEW k \in 0..swa PROVE Ended(sliding, k, type, ext)
    <3>1. swa # -1 /\ k \in Nat /\ (k > 0 => swa > 0) /\ Len(sliding) \in 1..512
      <4>1. swa # -1 /\ k \in Nat /\ (k > 0 => swa > 0)
        BY <1>3
      <4>2. Len(sliding) # 0
        BY <1>2, <1>4, <4>1
      <4>3. Len(sliding) \in 1..512
        BY <1>4, <4>2, Within
      <4> QED
        BY <4>1, <4>3
    <3> QED
      BY <1>2, <1>4, <3>1, AttentionEnds
  <2> QED
    BY <2>1
<1> HIDE DEF b
<1>8. b \in Nat /\ Sz!AttentionBytes(Sz!AttentionOf(base, cells, type), ext) = b
      /\ Sz!Readable(Sz!AttentionOf(base, cells, type), <<>>)
  BY <1>6 DEF Ended, b
<1>9. \A k \in 0..swa : /\ sec(k) \in Nat /\ Sz!AttentionBytes(slid(k), ext) = sec(k)
                        /\ Sz!Readable(slid(k), <<>>)
  BY <1>7 DEF Ended
<1> HIDE DEF slid, sec
<1>10. swa # -1 => swa \in 0..swa
  BY <1>3
<1>11. w \in Nat /\ (swa = -1 => w = 0) /\ (swa # -1 => w = sec(swa))
  BY <1>2, <1>9, <1>10
<1>12. DOMAIN records = 1..n /\ \A i \in 1..n : /\ records[i] = 48 + sec(ck[i])
                                                 /\ sec(ck[i]) \in Nat /\ records[i] \in Nat
  <2>1. DOMAIN records = 1..n /\ \A i \in 1..n : records[i] = 48 + sec(ck[i])
    BY <1>3
  <2>2. \A i \in 1..n : sec(ck[i]) \in Nat
    BY <1>2, <1>3, <1>9
  <2> HIDE DEF records
  <2> QED
    BY <2>1, <2>2
<1> HIDE DEF records, w
<1> DEFINE total == Sz!Sum(records)
<1>13. total \in Nat /\ \A i \in 1..n : records[i] <= total
  BY <1>3, <1>12, SumOfSizes, SumHoldsEach
<1> HIDE DEF total
<1>14. rest \in Nat /\ (ck = <<>> => rest = 0) /\ (ck # <<>> => rest = 12 + total)
  <2>1. rest = IF ck = <<>> THEN 0 ELSE 12 + total
    BY DEF total
  <2> HIDE DEF rest
  <2> QED
    BY <1>13, <2>1
<1> HIDE DEF rest
<1>15. at = 12 + 4 * cells /\ at \in Nat
  <2>1. at = 12 + 4 * cells
    BY <1>2, <1>3, HeaderIs DEF at
  <2> QED
    BY <1>2, <2>1
<1>16. size = at + b + w + rest /\ size \in Nat
  BY <1>2, <1>8, <1>11, <1>14, <1>15
<1>22. /\ at \in Nat /\ b \in Nat /\ w \in Nat /\ rest \in Nat
        /\ size = at + b + w + rest
  BY <1>8, <1>11, <1>14, <1>15, <1>16
<1>17. first = at + b /\ at + b \in Nat
  <2>1. at + b \in Nat /\ at + b <= size
    BY <1>8, <1>11, <1>14, <1>15, <1>16
  <2>2. first = at + b
    BY <1>8, <2>1 DEF Sz!ReadAttention
  <2> HIDE DEF first
  <2> QED
    BY <2>1, <2>2
<1> HIDE DEF first
<1>18. end = at + b + w /\ end \in Nat
  <2>1. CASE swa = -1
    <3>1. end = first /\ w = 0
      BY <1>11, <2>1
    <3> HIDE DEF end
    <3> QED
      BY <1>8, <1>15, <1>17, <3>1
  <2>2. CASE swa # -1
    <3>1. end = Sz!ReadAttention(slid(swa), first, size, ext, <<>>) /\ w = sec(swa)
      BY <1>11, <2>2
    <3>2. /\ Sz!AttentionBytes(slid(swa), ext) = w /\ Sz!Readable(slid(swa), <<>>)
      BY <1>9, <1>10, <2>2, <3>1
    <3>3. first + w \in Nat /\ first + w <= size /\ first + w = at + b + w
      BY <1>17, <1>22
    <3> HIDE DEF end
    <3>4. end = first + w
      BY <3>1, <3>2, <3>3 DEF Sz!ReadAttention
    <3> QED
      BY <3>3, <3>4
  <2> QED
    BY <2>1, <2>2
<1> HIDE DEF end
<1>19. first # -1 /\ end # -1
  BY <1>17, <1>18
<1>20. CASE ck = <<>>
  <2>1. rest = 0
    BY <1>14, <1>20
  <2>2. end = size
    BY <1>18, <1>22, <2>1
  <2> QED
    BY <1>19, <1>20, <2>2
<1>21. CASE ck # <<>>
  <2>1. rest = 12 + total
    BY <1>14, <1>21
  <2>2. size = end + 12 + total /\ total <= 2^20
    <3>1. size = end + rest
      BY <1>18, <1>22
    <3>2. size <= 2^20
      BY <1>3
    <3>3. total \in Nat /\ end \in Nat /\ rest \in Nat
      BY <1>13, <1>18, <1>22
    <3>4. size = end + 12 + total
      BY <2>1, <3>1, <3>3
    <3>5. total <= 2^20
      <4> DEFINE top == 2^20
      <4>1. top \in Nat /\ size <= top
        BY <3>2
      <4> HIDE DEF top
      <4>2. total <= top
        BY <3>3, <3>4, <4>1
      <4> QED
        BY <4>2 DEF top
    <3> QED
      BY <3>4, <3>5
  <2>3. /\ DOMAIN held = 1..n /\ Len(held) = n
        /\ \A i \in 1..n : sizes[i] = sec(ck[i])
    <3>1. DOMAIN held = 1..n /\ \A i \in 1..n : held[i] = slid(ck[i])
      BY <1>3 DEF Sz!Each
    <3>2. Len(held) = n
      BY <1>3, <3>1
    <3>3. \A i \in 1..n : sizes[i] = Sz!AttentionBytes(held[i], ext)
      BY <3>1 DEF Sz!Each
    <3> HIDE DEF held, sizes
    <3>4. ASSUME NEW i \in 1..n PROVE sizes[i] = sec(ck[i])
      <4>1. ck[i] \in 0..swa
        BY <1>2, <1>3
      <4> QED
        BY <1>9, <3>1, <3>3, <4>1
    <3> QED
      BY <3>1, <3>2, <3>4
  <2> HIDE DEF held, sizes
  <2>4. \A i \in 1..n : sizes[i] \in Nat /\ 8 + sizes[i] <= 2^20
    <3>1. ASSUME NEW i \in 1..n PROVE sizes[i] \in Nat /\ 8 + sizes[i] <= 2^20
      <4>1. sizes[i] = sec(ck[i]) /\ sec(ck[i]) \in Nat /\ records[i] = 48 + sec(ck[i])
            /\ records[i] <= total
        BY <1>12, <1>13, <2>3
      <4> QED
        BY <1>13, <2>2, <4>1
    <3> QED
      BY <3>1
  <2>5. /\ Buffered(a, n)
        /\ DOMAIN RecordSizes(a) = 1..n
        /\ \A i \in 1..n : RecordSizes(a)[i] = 48 + sizes[i]
    BY <1>3, <2>3, <2>4, WrittenIsBuffered
  <2> HIDE DEF a
  <2>6. RecordSizes(a) = records
    <3> DEFINE r == RecordSizes(a)
    <3>1. r = [i \in DOMAIN r |-> r[i]]
      BY DEF RecordSizes
    <3>2. records = [i \in DOMAIN records |-> records[i]]
      BY DEF records
    <3> HIDE DEF r
    <3>3. DOMAIN r = 1..n /\ \A i \in 1..n : r[i] = records[i]
      <4>1. DOMAIN r = 1..n /\ \A i \in 1..n : r[i] = 48 + sizes[i]
        BY <2>5 DEF r
      <4> QED
        BY <1>12, <2>3, <4>1
    <3>4. r = records
      BY <1>12, <3>1, <3>2, <3>3
    <3> QED
      BY <3>4 DEF r
  <2>7. total = Sz!Sum(RecordSizes(a))
    BY <2>6 DEF total
  <2>8. Sz!Sum(RecordSizes(a)) <= 2^22 /\ size = end + 12 + Sz!Sum(RecordSizes(a)) /\ size \in Int
    BY <1>13, <1>16, <2>2, <2>7
  <2>9. Sz!ParseStream(a, end, size) = "ok"
    BY <1>3, <1>18, <2>5, <2>8, AppendixIsMeasured
  <2> QED
    BY <1>19, <1>21, <2>9
<1> QED
  BY <1>20, <1>21

\* One can be sized with the cells its own window holds, where one of some size can.
LEMMA WindowSizes ==
    ASSUME NEW g, NEW cells, NEW swa, NEW ck, NEW type, Layered(g, cells, swa, ck, type),
           (\E l \in Range(g.layers) : l.sliding) => g.arch.swa, g.window \in Int, swa # 0,
           Sz!LayeredStateBytes(g, cells, swa, ck, type, cells) # -1,
           \A i \in DOMAIN ck : ck[i] <= Sz!SlidingCells(g, cells)
    PROVE  Sz!LayeredStateBytes(g, cells, Sz!SlidingCells(g, cells), ck, type, cells) # -1
<1> DEFINE S == [heads : Int, key : Int, value : Int, sliding : BOOLEAN]
           sliding == Sz!Sliding(g)
           own == Sz!SlidingCells(g, cells)
           window == g.window
           arch == g.arch
           refused(w) == \/ arch.hybrid \/ arch.recurrent \/ arch.ext = -1 \/ ~Sz!LayeredOk(g)
                         \/ cells < 0 \/ cells < 0
                         \/ (sliding = <<>>) # (w = -1)
                         \/ w > cells
                         \/ ck # <<>> /\ sliding = <<>>
                         \/ \E i \in DOMAIN ck : ck[i] \notin 0..w
                         \/ cells > 0 /\ ~Sz!RowsOk(Sz!Base(g), type)
                         \/ w > 0 /\ ~Sz!RowsOk(sliding, type)
           sum(w) == 12 + 4 * cells + Sz!SectionBytes(Sz!Base(g), cells, type, arch.ext)
                     + (IF sliding = <<>> THEN 0 ELSE Sz!SectionBytes(sliding, w, type, arch.ext))
                     + (IF ck = <<>> THEN 0
                        ELSE 12 + Sz!Sum(Sz!Each(ck, LAMBDA n : 16 + 24 + 8 + Sz!SectionBytes(sliding, n, type, arch.ext))))
<1>1. \A w : Sz!LayeredStateBytes(g, cells, w, ck, type, cells) = IF refused(w) THEN -1 ELSE sum(w)
  BY DEF Sz!LayeredStateBytes, Sz!FileHeader
<1>2. ~refused(swa)
  BY <1>1
<1> HIDE DEF sum
<1>3. /\ g.layers \in Seq(S) /\ Len(g.layers) <= 512 /\ arch.ext \in {-1, 0, 12}
      /\ cells \in Int /\ swa \in Nat \union {-1} /\ ck \in Seq(Int)
  BY DEF Layered
<1>4. CASE sliding = <<>>
  <2>1. own = -1 /\ swa = -1
    <3>1. own = -1
      BY <1>4 DEF Sz!SlidingCells
    <3>2. swa = -1
      BY <1>2, <1>4
    <3> QED
      BY <3>1, <3>2
  <2> QED
    BY <2>1
<1>5. CASE sliding # <<>>
  <2>1. swa \in Nat /\ swa > 0 /\ swa <= cells /\ cells \in Nat
    <3>1. (sliding = <<>>) = (swa = -1)
      BY <1>2
    <3>2. swa # -1 /\ ~(swa > cells) /\ ~(cells < 0)
      BY <1>2, <1>5, <3>1
    <3> QED
      BY <1>3, <3>2
  <2>2. window \in Int /\ window > 0 /\ Sz!LayeredOk(g)
    <3>1. Sz!LayeredOk(g)
      BY <1>2
    <3> QED
      BY <1>5, <3>1 DEF Sz!LayeredOk
  <2>3. arch.swa
    <3>1. g.layers \in Seq(Range(g.layers))
      <4> DEFINE t == g.layers
      <4>1. DOMAIN t = 1..Len(t) /\ Len(t) \in Nat /\ t = [i \in 1..Len(t) |-> t[i]]
        BY <1>3
      <4> HIDE DEF t
      <4> QED
        BY <4>1 DEF t, Range
    <3>2. sliding \in Seq({l \in Range(g.layers) : l.sliding = TRUE})
      BY <3>1, SectionIs DEF Sz!Sliding
    <3> HIDE DEF sliding
    <3>3. sliding[1] \in {l \in Range(g.layers) : l.sliding = TRUE}
      BY <1>5, <3>2
    <3> QED
      BY <3>3
  <2>4. own \in Nat /\ own > 0 /\ own <= cells
    <3> DEFINE both == {cells, window}
               least == CHOOSE x \in both : \A y \in both : x =< y
    <3>1. own = least
      BY <1>5, <2>1, <2>3 DEF Sz!SlidingCells, Sz!Min
    <3>2. \E x \in both : \A y \in both : x =< y
      <4>1. CASE cells <= window
        BY <2>1, <2>2, <4>1
      <4>2. CASE window <= cells
        BY <2>1, <2>2, <4>2
      <4> QED
        BY <2>1, <2>2, <4>1, <4>2
    <3>3. least \in both /\ \A y \in both : least =< y
      BY <3>2
    <3>4. cells > 0
      BY <2>1
    <3> HIDE DEF least, own
    <3>5. own \in both /\ own <= cells
      BY <3>1, <3>3
    <3>6. own = cells \/ own = window
      BY <3>5
    <3> QED
      BY <2>1, <2>2, <3>4, <3>5, <3>6
  <2>5. /\ ~arch.hybrid /\ ~arch.recurrent /\ arch.ext # -1 /\ ~(cells < 0)
        /\ \A i \in DOMAIN ck : ck[i] \in 0..swa
        /\ cells > 0 => Sz!RowsOk(Sz!Base(g), type)
        /\ Sz!RowsOk(sliding, type)
    BY <1>2, <2>1
  <2>6. \A i \in DOMAIN ck : ck[i] \in 0..own
    <3>1. ASSUME NEW i \in DOMAIN ck PROVE ck[i] \in 0..own
      <4>1. ck[i] \in 0..swa /\ ck[i] <= own
        BY <2>5
      <4> HIDE DEF own
      <4> QED
        BY <2>1, <2>4, <4>1
    <3> QED
      BY <3>1
  <2>7. ~(own > cells) /\ own # -1
    <3> HIDE DEF own
    <3> QED
      BY <2>1, <2>4
  <2> HIDE DEF own, sliding
  <2>8. ~refused(own)
    BY <1>5, <2>2, <2>5, <2>6, <2>7
  <2> HIDE DEF refused
  <2>9. arch.ext \in Nat
    BY <1>3, <2>5
  <2>10. /\ Len(Sz!Base(g)) \in Nat /\ Stacked(Sz!Base(g), Len(Sz!Base(g)))
         /\ Len(sliding) \in Nat /\ Stacked(sliding, Len(sliding))
    <3> DEFINE b == Sz!Section(g, FALSE)
               s == Sz!Section(g, TRUE)
    <3>1. Len(b) \in 0..512 /\ Stacked(b, Len(b))
      BY <1>3, SectionStacks
    <3>2. Len(s) \in 0..512 /\ Stacked(s, Len(s))
      BY <1>3, SectionStacks
    <3>3. b = Sz!Base(g) /\ s = sliding
      BY DEF Sz!Base, Sz!Sliding, sliding
    <3> HIDE DEF b, s
    <3>4. Len(b) \in Nat /\ Len(s) \in Nat
      BY <3>1, <3>2, Within
    <3> QED
      BY <3>1, <3>2, <3>3, <3>4
  <2> DEFINE sec(n) == Sz!SectionBytes(sliding, n, type, arch.ext)
             r == Sz!Each(ck, LAMBDA n : 16 + 24 + 8 + sec(n))
             b == Sz!SectionBytes(Sz!Base(g), cells, type, arch.ext)
  <2>11. b \in Nat
    BY <2>1, <2>5, <2>9, <2>10, SectionIsCounted
  <2>12. \A n \in Nat : sec(n) \in Nat
    BY <2>5, <2>9, <2>10, SectionIsCounted
  <2>13. Sz!Sum(r) \in Nat
    <3>1. Len(ck) \in Nat /\ DOMAIN ck = 1..Len(ck)
      BY <1>3
    <3>2. \A i \in DOMAIN ck : ck[i] \in Nat
      BY <2>1, <2>5
    <3> HIDE DEF sec
    <3>3. DOMAIN r = 1..Len(ck) /\ \A i \in 1..Len(ck) : r[i] = 16 + 24 + 8 + sec(ck[i])
      BY <3>1 DEF Sz!Each
    <3>4. \A i \in 1..Len(ck) : sec(ck[i]) \in Nat
      BY <2>12, <3>1, <3>2
    <3> HIDE DEF r
    <3>5. \A i \in 1..Len(ck) : r[i] \in Nat
      BY <3>3, <3>4
    <3> QED
      BY <3>1, <3>3, <3>5, SumOfSizes
  <2>14. sum(own) = 12 + 4 * cells + b + sec(own) + (IF ck = <<>> THEN 0 ELSE 12 + Sz!Sum(r))
    BY <1>5 DEF sum
  <2> DEFINE total == Sz!Sum(r)
             last == sec(own)
             rest == IF ck = <<>> THEN 0 ELSE 12 + total
  <2>15. last \in Nat /\ total \in Nat
    BY <2>4, <2>12, <2>13
  <2> HIDE DEF total, last
  <2>16. rest \in Nat
    BY <2>15
  <2>17. sum(own) = 12 + 4 * cells + b + last + rest
    BY <2>14 DEF last, total
  <2> HIDE DEF rest, b
  <2>18. sum(own) # -1
    BY <2>1, <2>11, <2>15, <2>16, <2>17
  <2>19. Sz!LayeredStateBytes(g, cells, own, ck, type, cells) = sum(own)
    BY <1>1, <2>8
  <2> QED
    BY <2>18, <2>19 DEF own
<1> QED
  BY <1>4, <1>5

\* The sizes predicted for a call are those its readers come to, but for the
\* extension of a plain state's cells and for the tail of a plain or hybrid state
\* without cells; they grow by the bytes of a token and stay known in the model's
\* own window (sizing.state_bytes and its siblings).
THEOREM SizesAreExact == Spec => []SizeIsExact
<1>1. CallInv => SizeIsExact
  <2> SUFFICES ASSUME CallInv
               PROVE  SizeIsExact
    OBVIOUS
  <2> DEFINE c == call.of
  <2>1. ASSUME call.rule = "plain"
        PROVE  Sz!PlainIsExact(c.g, c.cells, c.type, c.tokens) /\ GrowsByTheToken(c)
    <3>1. c \in PlainStates
      BY <2>1 DEF CallInv
    <3> HIDE DEF c
    <3>2. /\ c.g.nLayer \in Int /\ c.g.nLayer <= 512
          /\ c.g.heads \in Int /\ c.g.key \in Int /\ c.g.value \in Int
          /\ c.g.arch.ext \in {-1, 0, 12}
          /\ c.cells \in Int /\ c.tokens \in Int /\ c.tokens <= 2^24
      BY <3>1, SizeAssumption
    <3> QED
      BY <3>2, PlainEnds, GrowsEvenly
  <2>2. ASSUME call.rule = "hybridSize"
        PROVE  Sz!HybridIsExact(c.g, c.cells, c.checkpoints, c.type, c.tokens)
    <3>1. c \in HybridStates
      BY <2>2 DEF CallInv
    <3> HIDE DEF c
    <3>2. HybridSized(c.g, c.cells, c.checkpoints, c.tokens)
      <4> DEFINE held == c.checkpoints * (8 + Sz!RecurrentTail(c.g, 1))
      <4>1. held <= 2^20
        BY <3>1, SizeAssumption
      <4>2. c.g.conv % 4 = 0 /\ c.g.ssm % 4 = 0
        BY <3>1, SizeAssumption
      <4>3. /\ c.g.nLayer \in Int /\ c.g.recurrentLayers \in Int
            /\ c.g.heads \in Int /\ c.g.key \in Int /\ c.g.value \in Int
            /\ c.g.conv \in Int /\ c.g.ssm \in Int /\ c.g.arch.ext \in {-1, 0, 12}
        BY <3>1, SizeAssumption
      <4>4. /\ c.g.nLayer + c.g.recurrentLayers <= 512
            /\ c.cells \in Int /\ c.tokens \in Int /\ c.tokens <= 2^24
            /\ c.checkpoints \in Int /\ c.checkpoints <= 1024
        BY <3>1, SizeAssumption
      <4> QED
        BY <4>1, <4>2, <4>3, <4>4 DEF HybridSized
    <3> QED
      BY <3>2, HybridEnds
  <2>3. ASSUME call.rule = "layered"
        PROVE  Sz!LayeredIsExact(c.g, c.cells, c.swa, c.checkpoints, c.type) /\ SizesItsWindow(c)
    <3>1. c \in LayeredStates
      BY <2>3 DEF CallInv
    <3> HIDE DEF c
    <3>2. /\ Layered(c.g, c.cells, c.swa, c.checkpoints, c.type)
          /\ (\E l \in Range(c.g.layers) : l.sliding) => c.g.arch.swa
          /\ c.g.window \in Int
      BY <3>1, SizeAssumption DEF Layered
    <3>3. SizesItsWindow(c)
      BY <3>2, WindowSizes DEF SizesItsWindow
    <3> QED
      BY <3>2, <3>3, LayeredEnds
  <2> HIDE DEF c
  <2> QED
    BY <2>1, <2>2, <2>3 DEF SizeIsExact, Of, c
<1> QED
  BY <1>1, CallsAreOfTheirFamily, PTL

==============================================================================
