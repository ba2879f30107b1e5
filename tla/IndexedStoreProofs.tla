--------------------------- MODULE IndexedStoreProofs ---------------------------
(***************************************************************************)
(* What holds of the artifact index for every number of processes, digests *)
(* and sizes, wherever a call is cut short; and of the fold that counts    *)
(* the bytes in it.                                                        *)
(***************************************************************************)
EXTENDS IndexedStore, FiniteSetTheorems, TLAPS

-----------------------------------------------------------------------------
(* The count of bytes: a fold over a finite set of digests *)

\* TotalBytes is BytesOf(row, Held).
BytesOf(rows, S) == MapThenSumSet(LAMBDA d : rows[d].nbytes, S)

\* f[s] is the sum over s, for each subset s of S, in the order of CHOOSE.
First(s) == CHOOSE d \in s : TRUE
Sums(rows, S, f) ==
    f = [s \in SUBSET S |->
            IF s = {} THEN 0 ELSE rows[First(s)].nbytes + f[s \ {First(s)}]]

\* What holds of a subset of S when it holds of all those within it, holds of S.
LEMMA SubsetInduction ==
    ASSUME NEW S, IsFiniteSet(S), NEW G,
           \A s \in SUBSET S : (\A r \in SUBSET s : r # s => r \in G) => s \in G
    PROVE  S \in G
<1> DEFINE T == (SUBSET S) \ G
<1>1. SUFFICES ASSUME T # {} PROVE FALSE
  OBVIOUS
<1>2. T \subseteq FiniteSubsetsOf(S)
  BY FS_Subset DEF FiniteSubsetsOf
<1>3. PICK s \in T : \A r \in T : ~(<<r, s>> \in StrictSubsetOrdering(S))
  <2> HIDE DEF T
  <2> QED  BY <1>1, <1>2, WFMin, FS_StrictSubsetOrderingWellFounded
<1>4. \A r \in SUBSET s : r # s => r \in G
  BY <1>3 DEF StrictSubsetOrdering
<1> QED  BY <1>3, <1>4

\* The definition of BytesOf, with those of the library unfolded.
LEMMA BytesOfDef ==
    ASSUME NEW rows, NEW S
    PROVE  BytesOf(rows, S) = (CHOOSE f : Sums(rows, S, f))[S]
  BY DEF BytesOf, MapThenSumSet, MapThenFoldSet, Sums, First

\* Two such functions agree on the finite sets that both are about.
LEMMA SumsAgree ==
    ASSUME NEW rows, NEW S, NEW f, Sums(rows, S, f),
           NEW R, NEW g, Sums(rows, R, g),
           NEW U, U \subseteq S, U \subseteq R, IsFiniteSet(U)
    PROVE  f[U] = g[U]
<1> DEFINE G == {s \in SUBSET U : f[s] = g[s]}
<1>1. ASSUME NEW s \in SUBSET U, \A r \in SUBSET s : r # s => r \in G
      PROVE  s \in G
  <2>1. s # {} => First(s) \in s /\ s \ {First(s)} \in SUBSET s /\ s \ {First(s)} # s
    BY DEF First
  <2>2. s # {} => f[s \ {First(s)}] = g[s \ {First(s)}]
    BY <1>1, <2>1
  <2> QED  BY <2>2 DEF Sums
<1>2. U \in G
  <2> HIDE DEF G
  <2> QED  BY <1>1, SubsetInduction
<1> QED  BY <1>2

\* Over a finite set there is such a function.
LEMMA SumsExist ==
    ASSUME NEW rows, NEW S, IsFiniteSet(S)
    PROVE  \E f : Sums(rows, S, f)
<1> DEFINE F(r) == CHOOSE f : Sums(rows, r, f)
           G == {s \in SUBSET S : \E f : Sums(rows, s, f)}
<1>1. ASSUME NEW s \in SUBSET S, \A r \in SUBSET s : r # s => r \in G
      PROVE  s \in G
  <2> DEFINE W == [r \in SUBSET s |->
                    IF r = {} THEN 0
                    ELSE rows[First(r)].nbytes + F(r \ {First(r)})[r \ {First(r)}]]
  <2>1. ASSUME NEW r \in SUBSET s, r # {}
        PROVE  W[r \ {First(r)}] = F(r \ {First(r)})[r \ {First(r)}]
    <3> DEFINE t == r \ {First(r)}
               v == t \ {First(t)}
    <3>1. First(r) \in r
      BY <2>1 DEF First
    <3>2. t \subseteq s /\ t # s /\ v \subseteq s /\ v # s
      BY <3>1
    <3>3. Sums(rows, t, F(t)) /\ Sums(rows, v, F(v))
      <4>1. (\E f : Sums(rows, t, f)) /\ (\E f : Sums(rows, v, f))
        BY <1>1, <3>2
      <4> QED  BY <4>1
    <3>4. F(t)[t] = IF t = {} THEN 0 ELSE rows[First(t)].nbytes + F(t)[v]
      BY <3>3 DEF Sums
    <3>5. F(t)[v] = F(v)[v]
      <4>1. IsFiniteSet(v)
        BY <3>2, FS_Subset
      <4> HIDE DEF F, t
      <4> QED  BY <4>1, <3>3, SumsAgree DEF v
    <3>6. W[t] = IF t = {} THEN 0 ELSE rows[First(t)].nbytes + F(v)[v]
      BY <3>2
    <3> QED  BY <3>4, <3>5, <3>6
  <2>2. Sums(rows, s, W)
    <3> HIDE DEF F
    <3>1. \A r \in SUBSET s :
            W[r] = IF r = {} THEN 0 ELSE rows[First(r)].nbytes + W[r \ {First(r)}]
      BY <2>1
    <3>2. W = [r \in SUBSET s |-> W[r]]
      OBVIOUS
    <3> HIDE DEF W
    <3> QED  BY <3>1, <3>2 DEF Sums
  <2> QED  BY <2>2
<1>2. S \in G
  <2> HIDE DEF G
  <2> QED  BY <1>1, SubsetInduction
<1> QED  BY <1>2

\* So the sum over a set is that over the set without its first, and the first.
LEMMA BytesUnfold ==
    ASSUME NEW rows, NEW S, IsFiniteSet(S)
    PROVE  BytesOf(rows, S) =
               IF S = {} THEN 0
               ELSE rows[First(S)].nbytes + BytesOf(rows, S \ {First(S)})
<1> DEFINE F(s) == CHOOSE f : Sums(rows, s, f)
           R == S \ {First(S)}
<1>1. IsFiniteSet(R)
  BY FS_Subset
<1>2. Sums(rows, S, F(S)) /\ Sums(rows, R, F(R))
  <2>1. (\E f : Sums(rows, S, f)) /\ (\E f : Sums(rows, R, f))
    <3> HIDE DEF R
    <3> QED  BY <1>1, SumsExist
  <2> QED  BY <2>1
<1>3. F(S)[S] = IF S = {} THEN 0 ELSE rows[First(S)].nbytes + F(S)[R]
  BY <1>2 DEF Sums
<1>4. F(S)[R] = F(R)[R]
  <2>1. R \subseteq S
    OBVIOUS
  <2> HIDE DEF F, R
  <2> QED  BY <1>1, <1>2, <2>1, SumsAgree
<1>5. BytesOf(rows, S) = F(S)[S] /\ BytesOf(rows, R) = F(R)[R]
  BY BytesOfDef
<1> QED  BY <1>3, <1>4, <1>5

\* What a set that is not empty is made of.
LEMMA FirstOf ==
    ASSUME NEW S, S # {}
    PROVE  First(S) \in S /\ S \ {First(S)} \in SUBSET S /\ S \ {First(S)} # S
  BY DEF First

\* Rows that describe whole files have a size that is a number.
LEMMA BytesAreCounted ==
    ASSUME NEW rows, NEW S, IsFiniteSet(S), \A d \in S : rows[d].nbytes \in Int
    PROVE  BytesOf(rows, S) \in Int
<1> DEFINE G == {s \in SUBSET S : BytesOf(rows, s) \in Int}
<1>1. ASSUME NEW s \in SUBSET S, \A r \in SUBSET s : r # s => r \in G
      PROVE  s \in G
  <2>1. IsFiniteSet(s)
    BY FS_Subset
  <2>2. s # {} => BytesOf(rows, s \ {First(s)}) \in Int /\ rows[First(s)].nbytes \in Int
    BY <1>1, FirstOf
  <2> QED  BY <2>1, <2>2, BytesUnfold
<1>2. S \in G
  <2> HIDE DEF G
  <2> QED  BY <1>1, SubsetInduction
<1> QED  BY <1>2

\* Whichever of them is taken out, the sum is less by its size.
LEMMA BytesWithout ==
    ASSUME NEW rows, NEW S, IsFiniteSet(S), \A d \in S : rows[d].nbytes \in Int,
           NEW y \in S
    PROVE  BytesOf(rows, S) = rows[y].nbytes + BytesOf(rows, S \ {y})
<1> DEFINE Less(s, x) == BytesOf(rows, s) = rows[x].nbytes + BytesOf(rows, s \ {x})
           G == {s \in SUBSET S : \A x \in s : Less(s, x)}
<1>1. ASSUME NEW s \in SUBSET S, \A r \in SUBSET s : r # s => r \in G, NEW x \in s
      PROVE  Less(s, x)
  <2> DEFINE p == First(s)
             v == (s \ {p}) \ {x}
  <2>1. p \in s /\ IsFiniteSet(s) /\ IsFiniteSet(v)
    <3>1. p \in s
      BY DEF First
    <3> QED  BY <3>1, FS_Subset
  <2>2. Less(s, p)
    BY <2>1, BytesUnfold
  <2>3. SUFFICES ASSUME p # x PROVE Less(s, x)
    BY <2>2
  <2>4. ASSUME NEW r \in SUBSET s, r # s, NEW z \in r PROVE Less(r, z)
    BY <1>1, <2>4
  <2>5. BytesOf(rows, s \ {p}) = rows[x].nbytes + BytesOf(rows, v)
    <3>1. Less(s \ {p}, x)
      <4> HIDE DEF Less, p
      <4> QED  BY <2>1, <2>3, <2>4
    <3> QED  BY <3>1
  <2>6. BytesOf(rows, s \ {x}) = rows[p].nbytes + BytesOf(rows, v)
    <3>1. Less(s \ {x}, p)
      <4> HIDE DEF Less, p
      <4> QED  BY <2>1, <2>3, <2>4
    <3>2. (s \ {x}) \ {p} = v
      OBVIOUS
    <3> QED  BY <3>1, <3>2
  <2>7. BytesOf(rows, v) \in Int
    <3>1. v \subseteq S
      OBVIOUS
    <3> HIDE DEF v
    <3> QED  BY <2>1, <3>1, BytesAreCounted
  <2>8. rows[x].nbytes \in Int /\ rows[p].nbytes \in Int
    BY <2>1
  <2> HIDE DEF p, v
  <2> QED  BY <2>2, <2>5, <2>6, <2>7, <2>8
<1>2. \A s \in SUBSET S : (\A r \in SUBSET s : r # s => r \in G) => s \in G
  <2> HIDE DEF Less
  <2> QED  BY <1>1
<1>3. S \in G
  <2> HIDE DEF G
  <2> QED  BY <1>2, SubsetInduction
<1> QED  BY <1>3

\* Only the rows of the set count.
LEMMA BytesAgree ==
    ASSUME NEW rows, NEW others, NEW S, IsFiniteSet(S), \A d \in S : rows[d] = others[d]
    PROVE  BytesOf(rows, S) = BytesOf(others, S)
<1> DEFINE G == {s \in SUBSET S : BytesOf(rows, s) = BytesOf(others, s)}
<1>1. ASSUME NEW s \in SUBSET S, \A r \in SUBSET s : r # s => r \in G
      PROVE  s \in G
  <2>1. IsFiniteSet(s)
    BY FS_Subset
  <2>2. s # {} => /\ BytesOf(rows, s \ {First(s)}) = BytesOf(others, s \ {First(s)})
                  /\ rows[First(s)] = others[First(s)]
    BY <1>1, FirstOf
  <2> QED  BY <2>1, <2>2, BytesUnfold
<1>2. S \in G
  <2> HIDE DEF G
  <2> QED  BY <1>1, SubsetInduction
<1> QED  BY <1>2

\* The bytes in the index, before a step and after it.
LEMMA TotalIsBytes ==
    TotalBytes = BytesOf(row, Held) /\ TotalBytes' = BytesOf(row', Held')
<1>1. TotalBytes = BytesOf(row, Held)
  BY DEF TotalBytes, BytesOf, MapThenSumSet, MapThenFoldSet
<1>2. TotalBytes' = BytesOf(row', Held')
  BY DEF TotalBytes, BytesOf, MapThenSumSet, MapThenFoldSet
<1> QED  BY <1>1, <1>2

-----------------------------------------------------------------------------
(* The inductive invariant *)

Puts == {"copy", "install", "lookup", "stat", "record"}
Passes == {"age", "count", "bytes"}
Labels == {"idle", "select", "exists", "touch", "find", "unlink", "drop", "list"}
            \cup Puts \cup Passes

\* What a call is, and carries, by where it is.
Carries(p) ==
    /\ pc[p] \in Puts => call[p].op = "put" /\ call[p].source \in Sizes
    /\ pc[p] \in {"select", "exists"} => call[p].op = "get"
    /\ pc[p] = "touch" => call[p].op = "touch"
    /\ pc[p] \in {"find", "unlink"} => call[p].op = "delete"
    /\ pc[p] = "drop" => call[p].op \in {"get", "delete"}
    /\ pc[p] \in {"list"} \cup Passes => call[p].op = "prune"
    /\ pc[p] \notin {"idle", "list"} \cup Passes => Target(p) \in Digest
    /\ pc[p] = "record" => call[p].nbytes \in Sizes
    /\ pc[p] \notin Passes => call[p].left = {}
    /\ call[p].victim \subseteq call[p].left
    /\ \A d \in call[p].left : call[p].view[d] # None

\* A call that began alone, and during which nobody else began one, is alone.
Solo == \A p, q \in Process : alone[p] /\ pc[p] # "idle" /\ pc[q] # "idle" => p = q

\* No two calls have the same time, and no two rows were used at the same time.
Ticks ==
    /\ \A p \in Process : pc[p] # "idle" => call[p].now <= clock
    /\ \A d \in Held : row[d].used <= clock
    /\ \A p, q \in Process :
            pc[p] # "idle" /\ pc[q] # "idle" /\ call[p].now = call[q].now => p = q
    /\ \A p \in Process, d \in Held :
            pc[p] # "idle" /\ row[d].used = call[p].now => d = Target(p)
    /\ \A d, e \in Held : row[d].used = row[e].used => d = e

\* How far a put that is alone has come.
PutSoFar(p) ==
    /\ pc[p] = "install" => part[Target(p)] = call[p].source
    /\ pc[p] \in {"lookup", "stat", "record"} => file[Target(p)] = call[p].source
    /\ pc[p] = "record" => call[p].nbytes = call[p].source

Listed(p) == {d \in Digest : call[p].view[d] # None}
Gone(p) == Listed(p) \ call[p].left
Used(p, d) == call[p].view[d].used

\* One of its limits was exceeded while d was there.
Needed(p, d) ==
    \/ Used(p, d) < call[p].limits.cutoff
    \/ /\ call[p].limits.entries > 0
       /\ Cardinality(call[p].left) >= call[p].limits.entries
    \/ /\ call[p].limits.bytes > 0 /\ pc[p] = "bytes"
       /\ call[p].total + call[p].view[d].nbytes > call[p].limits.bytes

\* The index is the listing without what was removed, which was removed in the order
\* of last use and for a reason.
Follows(p) ==
    /\ row = [d \in Digest |-> IF d \in call[p].left THEN call[p].view[d] ELSE None]
    /\ \A d \in Gone(p), e \in call[p].left : Used(p, d) < Used(p, e)
    /\ \A d, e \in Listed(p) : Used(p, d) = Used(p, e) => d = e
    /\ \A d \in Gone(p) : (\A e \in Gone(p) : Used(p, e) <= Used(p, d)) => Needed(p, d)

\* The record being removed is the oldest, and there is a reason.
Removes(p) ==
    /\ \A d, e \in call[p].victim : d = e
    /\ call[p].victim # {} => Exceeds(p)
    /\ call[p].victim \subseteq Oldest(p)

\* What the passes that are over have seen to, and what the last one counts.
Passed(p) ==
    /\ pc[p] # "age" => \A d \in call[p].left : Used(p, d) >= call[p].limits.cutoff
    /\ pc[p] = "bytes" =>
        /\ call[p].limits.entries > 0 => Cardinality(call[p].left) <= call[p].limits.entries
        /\ call[p].total = TotalBytes

\* How far a prune that is alone has come.
PruneSoFar(p) == pc[p] \in Passes => Follows(p) /\ Removes(p) /\ Passed(p)

IndexInv ==
    /\ IndexTypeOK
    /\ IsFiniteSet(Held)
    /\ \A p \in Process : Carries(p)
    /\ Solo
    /\ Ticks
    /\ \A p \in Process : alone[p] => PutSoFar(p) /\ PruneSoFar(p)

-----------------------------------------------------------------------------
(* What one call's step leaves of it *)

\* A call of any operation is one.
LEMMA OfIsCall ==
    ASSUME NEW o \in Operation, NEW now \in Time
    PROVE  /\ Of(o, now) \in Call
           /\ Of(o, now).op = o /\ Of(o, now).now = now
           /\ Of(o, now).left = {} /\ Of(o, now).victim = {}
<1>1. (CHOOSE l \in Limits : TRUE) \in Limits
  BY IndexAssumption
<1>2. 0 \in Time
  BY IndexAssumption DEF Time
<1> QED  BY <1>1, <1>2 DEF Of, Call, Size

\* Nor does it carry anything when there is none.
LEMMA NoCallIsCall == NoCall \in Call /\ NoCall.left = {} /\ NoCall.victim = {}
<1>1. 0 \in Time /\ "get" \in Operation
  BY IndexAssumption DEF Time, Operation
<1> QED  BY <1>1, OfIsCall DEF NoCall

\* A step of a call that is running: what holds of the others goes on holding, if it
\* writes no row but its own target's, with its own time.
LEMMA Within ==
    ASSUME IndexInv, NEW p \in Process, pc[p] # "idle",
           NEW label \in Labels, Goto(p, label),
           NEW c \in Call, call' = [call EXCEPT ![p] = c],
           clock' = clock, alone' = alone, stops' \in 0..MaxStops,
           file' \in [Digest -> Size], part' \in [Digest -> Size],
           row' \in [Digest -> Row \cup {None}],
           label # "idle" => c.now = call[p].now /\ c.digest = call[p].digest,
           \A d \in Held' : \/ d \in Held /\ row'[d].used = row[d].used
                            \/ d = Target(p) /\ row'[d].used = call[p].now,
           Carries(p)',
           alone[p] => (PutSoFar(p) /\ PruneSoFar(p))'
    PROVE  IndexInv'
<1> USE DEF Goto
<1>1. /\ pc \in [Process -> Labels] /\ call \in [Process -> Call]
      /\ alone \in [Process -> BOOLEAN]
  BY DEF IndexInv, IndexTypeOK, Labels, Puts, Passes
<1>2. /\ pc'[p] = label /\ call'[p] = c
      /\ \A q \in Process : q # p => pc'[q] = pc[q] /\ call'[q] = call[q]
  BY <1>1
<1>3. \A q \in Process : Carries(q)'
  <2>1. ASSUME NEW q \in Process, q # p PROVE Carries(q)'
    <3>1. Carries(q)
      BY DEF IndexInv
    <3> QED  BY <1>2, <2>1, <3>1 DEF Carries, Target
  <2> QED  BY <2>1
<1>4. IndexTypeOK'
  <2>1. \A q \in Process : call'[q].left # {} => call'[q].op = "prune"
    BY <1>1, <1>3 DEF Carries, Labels
  <2> QED  BY <1>1, <2>1 DEF IndexInv, IndexTypeOK, Labels, Puts, Passes
<1>5. IsFiniteSet(Held')
  <2>1. Held' \subseteq Held \cup {Target(p)}
    OBVIOUS
  <2>2. IsFiniteSet(Held \cup {Target(p)})
    BY FS_AddElement DEF IndexInv
  <2> QED  BY <2>1, <2>2, FS_Subset
<1>6. Solo'
  BY <1>2 DEF IndexInv, Solo
<1>7. Ticks'
  <2>1. Ticks
    BY DEF IndexInv
  <2>2. \A d \in Held' : row'[d].used <= clock
    BY <2>1 DEF Ticks
  <2>3. \A q \in Process : pc'[q] # "idle" => pc[q] # "idle" /\ call'[q].now = call[q].now
    BY <1>2
  <2>4. \A q \in Process, d \in Held' :
            pc'[q] # "idle" /\ row'[d].used = call'[q].now => d = Target(q)'
    <3>1. SUFFICES ASSUME NEW q \in Process, NEW d \in Held',
                          pc'[q] # "idle", row'[d].used = call'[q].now
                   PROVE  d = Target(q)'
      OBVIOUS
    <3>2. Target(q)' = Target(q)
      BY <1>2, <3>1 DEF Target
    <3> QED  BY <2>1, <2>3, <3>1, <3>2 DEF Ticks
  <2>5. \A d, e \in Held' : row'[d].used = row'[e].used => d = e
    BY <2>1 DEF Ticks
  <2> QED  BY <2>1, <2>2, <2>3, <2>4, <2>5 DEF Ticks
<1>8. \A q \in Process : alone'[q] => (PutSoFar(q) /\ PruneSoFar(q))'
  <2>1. ASSUME NEW q \in Process, q # p, alone[q] PROVE (PutSoFar(q) /\ PruneSoFar(q))'
    <3>1. pc'[q] = "idle"
      BY <1>2, <2>1 DEF IndexInv, Solo
    <3> QED  BY <3>1 DEF PutSoFar, PruneSoFar, Passes
  <2> QED  BY <2>1
<1> QED  BY <1>3, <1>4, <1>5, <1>6, <1>7, <1>8 DEF IndexInv

\* A call that leaves.
LEMMA Leaving ==
    ASSUME IndexInv, NEW p \in Process, pc[p] # "idle", Leave(p),
           clock' = clock, alone' = alone, stops' \in 0..MaxStops,
           file' \in [Digest -> Size], part' \in [Digest -> Size],
           row' \in [Digest -> Row \cup {None}],
           \A d \in Held' : \/ d \in Held /\ row'[d].used = row[d].used
                            \/ d = Target(p) /\ row'[d].used = call[p].now
    PROVE  IndexInv'
<1>1. pc'[p] = "idle" /\ call'[p] = NoCall
  BY DEF IndexInv, IndexTypeOK, Leave, Goto
<1>2. Carries(p)' /\ PutSoFar(p)' /\ PruneSoFar(p)'
  BY <1>1, NoCallIsCall DEF Carries, PutSoFar, PruneSoFar, Puts, Passes
<1>3. "idle" \in Labels
  BY DEF Labels
<1> QED  BY <1>2, <1>3, NoCallIsCall, Within DEF Leave

\* A call that leaves things as they are.
LEMMA LeavingQuietly ==
    ASSUME IndexInv, NEW p \in Process, pc[p] # "idle", Leave(p), UNCHANGED disk,
           clock' = clock, alone' = alone, stops' \in 0..MaxStops
    PROVE  IndexInv'
<1>1. Held' = Held
  BY DEF Held, disk
<1> QED  BY <1>1, Leaving DEF IndexInv, IndexTypeOK, disk

\* A call that goes on, having written no row.
LEMMA GoingOn ==
    ASSUME IndexInv, NEW p \in Process, pc[p] # "idle",
           NEW label \in Labels, Goto(p, label),
           NEW c \in Call, call' = [call EXCEPT ![p] = c],
           c.now = call[p].now, c.digest = call[p].digest,
           file' \in [Digest -> Size], part' \in [Digest -> Size], row' = row, Same,
           Carries(p)',
           alone[p] => (PutSoFar(p) /\ PruneSoFar(p))'
    PROVE  IndexInv'
<1>1. Held' = Held
  BY DEF Held
<1>2. row' \in [Digest -> Row \cup {None}] /\ stops' \in 0..MaxStops
  BY DEF IndexInv, IndexTypeOK, Same
<1> QED  BY <1>1, <1>2, Within DEF Same

-----------------------------------------------------------------------------
(* Each step keeps the invariant *)

\* Nothing is held at first, and nobody is in a call.
LEMMA InitIndex == Init => IndexInv
<1> SUFFICES ASSUME Init PROVE IndexInv
  OBVIOUS
<1>1. \A p \in Process : pc[p] = "idle" /\ call[p] = NoCall
  BY DEF Init
<1>2. Held = {} /\ IsFiniteSet(Held)
  <2>1. Held = {}
    BY DEF Init, Held
  <2> QED  BY <2>1, FS_EmptySet
<1>3. IndexTypeOK
  <2>1. 0 \in Time /\ 0 \in 0..MaxStops /\ 0 \in Size
    BY IndexAssumption DEF Time, Size, Absent
  <2>2. call \in [Process -> Call] /\ \A p \in Process : call[p].left = {}
    BY NoCallIsCall DEF Init
  <2> QED  BY <2>1, <2>2 DEF Init, IndexTypeOK, Absent
<1>4. \A p \in Process : Carries(p)
  BY <1>1, NoCallIsCall DEF Carries, Puts, Passes
<1>5. Solo /\ Ticks
  BY <1>1, <1>2 DEF Solo, Ticks
<1>6. \A p \in Process : PutSoFar(p) /\ PruneSoFar(p)
  BY <1>1 DEF PutSoFar, PruneSoFar, Passes
<1> QED  BY <1>2, <1>3, <1>4, <1>5, <1>6 DEF IndexInv

\* A call begins at a time of its own; the others are not alone any more.
LEMMA StepBegin == ASSUME IndexInv, NEW p \in Process, Begin(p) PROVE IndexInv'
<1>1. /\ pc \in [Process -> Labels] /\ call \in [Process -> Call]
      /\ alone \in [Process -> BOOLEAN] /\ clock \in Time
  BY DEF IndexInv, IndexTypeOK, Labels, Puts, Passes
<1>2. clock' = clock + 1 /\ clock' \in Time /\ clock \in Int
  BY <1>1, IndexAssumption DEF Begin, Time
<1>3. PICK o \in Operation, d \in Digest, n \in Sizes, l \in Limits :
            /\ call' = [call EXCEPT ![p] =
                    CASE o = "put" -> [Of(o, clock') EXCEPT !.digest = d, !.source = n]
                      [] o = "prune" -> [Of(o, clock') EXCEPT !.limits = l]
                      [] OTHER -> [Of(o, clock') EXCEPT !.digest = d]]
            /\ Goto(p, Entry(o))
  BY DEF Begin
<1> DEFINE c == CASE o = "put" -> [Of(o, clock') EXCEPT !.digest = d, !.source = n]
                  [] o = "prune" -> [Of(o, clock') EXCEPT !.limits = l]
                  [] OTHER -> [Of(o, clock') EXCEPT !.digest = d]
<1>4. /\ c \in Call /\ c.op = o /\ c.now = clock' /\ c.left = {} /\ c.victim = {}
      /\ o = "put" => c.source \in Sizes
      /\ o # "prune" => c.digest \in Digest
  <2>1. Of(o, clock') \in Call /\ Of(o, clock').op = o /\ Of(o, clock').now = clock'
          /\ Of(o, clock').left = {} /\ Of(o, clock').victim = {}
    BY <1>2, OfIsCall
  <2> QED  BY <2>1 DEF Call, Size
<1>5. /\ pc'[p] = Entry(o) /\ call'[p] = c
      /\ \A q \in Process : q # p => pc'[q] = pc[q] /\ call'[q] = call[q]
  <2> HIDE DEF c
  <2>1. call' = [call EXCEPT ![p] = c] /\ pc' = [pc EXCEPT ![p] = Entry(o)]
    BY <1>3 DEF c, Goto
  <2> QED  BY <1>1, <2>1
<1> HIDE DEF c
<1>6. /\ Entry(o) \in {"copy", "select", "touch", "find", "list"}
      /\ Entry(o) = "copy" => o = "put"
      /\ Entry(o) = "select" => o = "get"
      /\ Entry(o) = "touch" => o = "touch"
      /\ Entry(o) = "find" => o = "delete"
      /\ Entry(o) = "list" => o = "prune"
  BY DEF Entry, Operation
<1>7. UNCHANGED <<file, part, row, stops>> /\ Held' = Held
  BY DEF Begin, disk, Held
<1>8. \A q \in Process : Carries(q)'
  <2>1. Carries(p)'
    BY <1>4, <1>5, <1>6 DEF Carries, Target, Puts, Passes
  <2>2. ASSUME NEW q \in Process, q # p PROVE Carries(q)'
    <3>1. Carries(q)
      BY DEF IndexInv
    <3> QED  BY <1>5, <2>2, <3>1 DEF Carries, Target
  <2> QED  BY <2>1, <2>2
<1>9. IndexTypeOK'
  <2>1. \A q \in Process : call'[q].left # {} => call'[q].op = "prune"
    BY <1>4, <1>5 DEF IndexInv, IndexTypeOK
  <2>2. call' \in [Process -> Call] /\ pc' \in [Process -> Labels]
    <3>1. Entry(o) \in Labels
      BY <1>6 DEF Labels, Puts
    <3>2. call' = [call EXCEPT ![p] = c] /\ pc' = [pc EXCEPT ![p] = Entry(o)]
      BY <1>3 DEF c, Goto
    <3> QED  BY <1>1, <1>4, <3>1, <3>2
  <2>3. alone' \in [Process -> BOOLEAN]
    BY DEF Begin
  <2> QED  BY <1>2, <1>7, <2>1, <2>2, <2>3
           DEF IndexInv, IndexTypeOK, Labels, Puts, Passes
<1>10. \A q \in Process : alone'[q] => q = p /\ \A r \in Process : pc[r] = "idle"
  BY DEF Begin
<1>11. Solo'
  BY <1>5, <1>10 DEF Solo
<1>12. Ticks'
  <2>1. Ticks
    BY DEF IndexInv
  <2>2. \A q \in Process : call[q].now \in Int
    BY <1>1, IndexAssumption DEF Call, Time
  <2>3. \A e \in Held : row[e].used \in Int
    BY IndexAssumption DEF IndexInv, IndexTypeOK, Held, Row, Time
  <2>4. \A q \in Process : q # p /\ pc[q] # "idle" => call[q].now < clock'
    BY <1>2, <2>1, <2>2 DEF Ticks
  <2>5. \A e \in Held : row[e].used < clock'
    BY <1>2, <2>1, <2>3 DEF Ticks
  <2>6. \A q, r \in Process :
            pc'[q] # "idle" /\ pc'[r] # "idle" /\ call'[q].now = call'[r].now => q = r
    BY <1>2, <1>4, <1>5, <2>1, <2>4 DEF Ticks
  <2>7. \A q \in Process, e \in Held :
            pc'[q] # "idle" /\ row[e].used = call'[q].now => e = Target(q)'
    <3>1. SUFFICES ASSUME NEW q \in Process, NEW e \in Held,
                          pc'[q] # "idle", row[e].used = call'[q].now
                   PROVE  e = Target(q)'
      OBVIOUS
    <3>2. q # p
      BY <1>2, <1>4, <1>5, <2>3, <2>5, <3>1
    <3> QED  BY <1>5, <2>1, <3>1, <3>2 DEF Ticks, Target
  <2>8. \A q \in Process : pc'[q] # "idle" => call'[q].now <= clock'
    BY <1>2, <1>4, <1>5, <2>2, <2>4
  <2> QED  BY <1>2, <1>7, <2>1, <2>3, <2>5, <2>6, <2>7, <2>8 DEF Ticks
<1>13. \A q \in Process : alone'[q] => (PutSoFar(q) /\ PruneSoFar(q))'
  <2>1. (PutSoFar(p) /\ PruneSoFar(p))'
    BY <1>5, <1>6 DEF PutSoFar, PruneSoFar, Passes
  <2> QED  BY <1>10, <2>1
<1> QED  BY <1>7, <1>8, <1>9, <1>11, <1>12, <1>13 DEF IndexInv

\* A process is killed.
LEMMA StepStop == ASSUME IndexInv, NEW p \in Process, Stop(p) PROVE IndexInv'
<1>1. stops' \in 0..MaxStops
  BY IndexAssumption DEF IndexInv, IndexTypeOK, Stop
<1> QED  BY <1>1, LeavingQuietly DEF Stop

\* A put goes from one of its places to the next.
LEMMA StepPut == ASSUME IndexInv, NEW p \in Process, Put(p) PROVE IndexInv'
<1>1. /\ file \in [Digest -> Size] /\ part \in [Digest -> Size]
      /\ row \in [Digest -> Row \cup {None}]
      /\ stops \in 0..MaxStops /\ call \in [Process -> Call] /\ Carries(p)
      /\ pc \in [Process -> Labels]
  BY DEF IndexInv, IndexTypeOK, Labels, Puts, Passes
<1>2. alone[p] => PutSoFar(p)
  BY DEF IndexInv
<1>3. call[p] \in Call /\ call' = call => call' = [call EXCEPT ![p] = call[p]]
  BY <1>1
<1> USE DEF Put
<1>4. CASE CopyIn(p)
  <2>1. pc'[p] = "install" /\ pc[p] = "copy" /\ call' = call /\ "install" \in Labels
    BY <1>1, <1>4 DEF CopyIn, Step, Goto, Labels, Puts
  <2>2. Target(p) \in Digest /\ call[p].source \in Sizes /\ call[p].source \in Size
    BY <1>1, <2>1 DEF Carries, Puts, Passes, Size
  <2>3. part' \in [Digest -> Size] /\ part'[Target(p)] = call[p].source
    BY <1>1, <1>4, <2>2 DEF CopyIn
  <2>4. Carries(p)' /\ PutSoFar(p)' /\ PruneSoFar(p)'
    BY <1>1, <2>1, <2>2, <2>3 DEF Carries, PutSoFar, PruneSoFar, Puts, Passes, Target
  <2> QED  BY <1>1, <1>3, <1>4, <2>1, <2>3, <2>4, GoingOn DEF CopyIn, Step
<1>5. CASE Install(p)
  <2>1. pc'[p] = "lookup" /\ pc[p] = "install" /\ call' = call /\ "lookup" \in Labels
    BY <1>1, <1>5 DEF Install, Step, Goto, Labels, Puts
  <2>2. Target(p) \in Digest /\ call[p].source \in Sizes /\ Absent \in Size
    BY <1>1, <2>1 DEF Carries, Puts, Passes, Size
  <2>3. /\ part' \in [Digest -> Size] /\ file' \in [Digest -> Size]
        /\ file'[Target(p)] = part[Target(p)]
    BY <1>1, <1>5, <2>2 DEF Install
  <2>4. Carries(p)' /\ PruneSoFar(p)' /\ (alone[p] => PutSoFar(p)')
    BY <1>1, <1>2, <2>1, <2>2, <2>3 DEF Carries, PutSoFar, PruneSoFar, Puts, Passes, Target
  <2> QED  BY <1>1, <1>3, <1>5, <2>1, <2>3, <2>4, GoingOn DEF Install, Step
<1>6. CASE InstallFails(p)
  BY <1>1, <1>6, LeavingQuietly DEF InstallFails, Same
<1>7. CASE LookUp(p)
  <2> DEFINE made == IF row[Target(p)] = None THEN call[p].now ELSE row[Target(p)].created
             c == [call[p] EXCEPT !.created = made]
  <2>1. pc'[p] = "stat" /\ pc[p] = "lookup" /\ call' = [call EXCEPT ![p] = c]
          /\ "stat" \in Labels
    BY <1>1, <1>7 DEF LookUp, Step, Goto, Labels, Puts
  <2>2. made \in Time
    BY <1>1, <2>1 DEF Carries, Call, Row, Puts, Passes
  <2>3. /\ c \in Call /\ c.now = call[p].now /\ c.digest = call[p].digest
        /\ c.op = call[p].op /\ c.source = call[p].source /\ c.left = call[p].left
        /\ c.victim = call[p].victim /\ c.view = call[p].view
    BY <1>1, <2>2 DEF Call
  <2> HIDE DEF c
  <2>4. call'[p] = c
    BY <1>1, <2>1
  <2>5. Carries(p)' /\ PruneSoFar(p)' /\ (alone[p] => PutSoFar(p)')
    BY <1>1, <1>2, <1>7, <2>1, <2>3, <2>4
       DEF LookUp, disk, Carries, PutSoFar, PruneSoFar, Puts, Passes, Target
  <2> QED  BY <1>1, <1>7, <2>1, <2>3, <2>5, GoingOn DEF LookUp, Step, disk
<1>8. CASE Stat(p)
  <2> DEFINE c == [call[p] EXCEPT !.nbytes = file[Target(p)]]
  <2>1. pc'[p] = "record" /\ pc[p] = "stat" /\ call' = [call EXCEPT ![p] = c]
          /\ "record" \in Labels
    BY <1>1, <1>8 DEF Stat, Step, Goto, Labels, Puts
  <2>2. file[Target(p)] \in Sizes /\ file[Target(p)] \in Size
    BY <1>1, <1>8, <2>1 DEF Carries, Stat, Size, Puts, Passes
  <2>3. /\ c \in Call /\ c.now = call[p].now /\ c.digest = call[p].digest
        /\ c.op = call[p].op /\ c.source = call[p].source /\ c.left = call[p].left
        /\ c.victim = call[p].victim /\ c.view = call[p].view
        /\ c.nbytes = file[Target(p)]
    BY <1>1, <2>2 DEF Call
  <2> HIDE DEF c
  <2>4. call'[p] = c
    BY <1>1, <2>1
  <2>5. Carries(p)' /\ PruneSoFar(p)' /\ (alone[p] => PutSoFar(p)')
    BY <1>1, <1>2, <1>8, <2>1, <2>2, <2>3, <2>4
       DEF Stat, disk, Carries, PutSoFar, PruneSoFar, Puts, Passes, Target
  <2> QED  BY <1>1, <1>8, <2>1, <2>3, <2>5, GoingOn DEF Stat, Step, disk
<1>9. CASE StatFails(p)
  BY <1>1, <1>9, LeavingQuietly DEF StatFails, Same
<1>10. CASE Record(p)
  <2> DEFINE r == [nbytes |-> call[p].nbytes, created |-> call[p].created,
                   used |-> call[p].now]
  <2>1. pc[p] = "record" /\ Target(p) \in Digest /\ call[p].nbytes \in Sizes
    BY <1>1, <1>10 DEF Record, Carries, Puts, Passes
  <2>2. r \in Row /\ r.used = call[p].now
    BY <1>1, <2>1 DEF Row, Call
  <2> HIDE DEF r
  <2>3. row' = [row EXCEPT ![Target(p)] = r]
    BY <1>10 DEF Record, r
  <2>4. row' \in [Digest -> Row \cup {None}]
    BY <1>1, <2>2, <2>3
  <2>5. \A d \in Held' : \/ d \in Held /\ row'[d].used = row[d].used
                         \/ d = Target(p) /\ row'[d].used = call[p].now
    BY <1>1, <2>1, <2>2, <2>3 DEF Held
  <2> QED  BY <1>1, <1>10, <2>1, <2>4, <2>5, Leaving DEF Record, Same
<1> QED  BY <1>4, <1>5, <1>6, <1>7, <1>8, <1>9, <1>10

\* get(), touch() and delete(): what they look at, take away, and mark.
LEMMA StepKept ==
    ASSUME IndexInv, NEW p \in Process,
           Select(p) \/ Exists(p) \/ Touch(p) \/ Delete(p) \/ Drop(p)
    PROVE  IndexInv'
<1>1. /\ file \in [Digest -> Size] /\ part \in [Digest -> Size]
      /\ row \in [Digest -> Row \cup {None}]
      /\ stops \in 0..MaxStops /\ call \in [Process -> Call] /\ Carries(p)
      /\ pc \in [Process -> Labels]
  BY DEF IndexInv, IndexTypeOK, Labels, Puts, Passes
<1>2. call[p] \in Call /\ (call' = call => call' = [call EXCEPT ![p] = call[p]])
  BY <1>1
<1>3. ASSUME NEW from \in {"select", "exists", "find", "unlink"}, pc[p] = from,
             NEW to \in {"exists", "drop", "unlink"}, Goto(p, to),
             from = "select" => to = "exists", from = "exists" => to = "drop",
             from = "find" => to = "unlink", from = "unlink" => to = "drop",
             file' \in [Digest -> Size], UNCHANGED <<part, row, call>>, Same
      PROVE  IndexInv'
  <2>1. to \in Labels /\ pc'[p] = to /\ call'[p] = call[p]
    BY <1>1, <1>3 DEF Goto, Labels
  <2>2. Carries(p)' /\ PutSoFar(p)' /\ PruneSoFar(p)'
    BY <1>1, <1>3, <2>1 DEF Carries, PutSoFar, PruneSoFar, Puts, Passes, Target
  <2> QED  BY <1>1, <1>2, <1>3, <2>1, <2>2, GoingOn
<1>4. ASSUME pc[p] # "idle", Leave(p), UNCHANGED disk, Same PROVE IndexInv'
  BY <1>1, <1>4, LeavingQuietly DEF Same
<1>5. CASE Select(p)
  BY <1>1, <1>3, <1>4, <1>5 DEF Select, disk
<1>6. CASE Exists(p)
  BY <1>1, <1>3, <1>4, <1>6 DEF Exists, disk
<1>7. CASE Touch(p)
  <2>1. pc[p] = "touch" /\ Target(p) \in Digest
    BY <1>1, <1>7 DEF Touch, Carries, Puts, Passes
  <2> DEFINE r == IF row[Target(p)] = None THEN None
                  ELSE [row[Target(p)] EXCEPT !.used = call[p].now]
  <2>2. row' = [row EXCEPT ![Target(p)] = r]
    BY <1>7 DEF Touch
  <2>3. r \in Row \cup {None} /\ (r # None => r.used = call[p].now)
    BY <1>1, <2>1 DEF Row, Call
  <2> HIDE DEF r
  <2>4. row' \in [Digest -> Row \cup {None}]
    BY <1>1, <2>2, <2>3
  <2>5. \A d \in Held' : \/ d \in Held /\ row'[d].used = row[d].used
                         \/ d = Target(p) /\ row'[d].used = call[p].now
    BY <1>1, <2>1, <2>2, <2>3 DEF Held
  <2> QED  BY <1>1, <1>7, <2>1, <2>4, <2>5, Leaving DEF Touch, Same
<1>8. CASE Find(p)
  BY <1>1, <1>3, <1>4, <1>8 DEF Find, disk
<1>9. CASE Unlink(p)
  <2>1. file' \in [Digest -> Size]
    BY <1>1, <1>9 DEF Unlink, Size
  <2> QED  BY <1>3, <1>9, <2>1 DEF Unlink, Step
<1>10. CASE UnlinkFails(p)
  BY <1>1, <1>4, <1>10 DEF UnlinkFails
<1>11. CASE Drop(p)
  <2>1. pc[p] = "drop" /\ row' = [row EXCEPT ![Target(p)] = None]
    BY <1>11 DEF Drop
  <2>2. row' \in [Digest -> Row \cup {None}]
    BY <1>1, <2>1
  <2>3. \A d \in Held' : d \in Held /\ row'[d].used = row[d].used
    BY <1>1, <2>1 DEF Held
  <2> QED  BY <1>1, <1>11, <2>1, <2>2, <2>3, Leaving DEF Drop, Same
<1> QED  BY <1>5, <1>6, <1>7, <1>8, <1>9, <1>10, <1>11 DEF Delete

\* The listing is the index.
LEMMA StepList == ASSUME IndexInv, NEW p \in Process, List(p) PROVE IndexInv'
<1>1. /\ file \in [Digest -> Size] /\ part \in [Digest -> Size]
      /\ row \in [Digest -> Row \cup {None}] /\ call \in [Process -> Call]
      /\ pc \in [Process -> Labels] /\ Carries(p) /\ Ticks
  BY DEF IndexInv, IndexTypeOK, Labels, Puts, Passes
<1> DEFINE c == [call[p] EXCEPT !.view = row, !.left = Held]
<1>2. pc[p] = "list" /\ pc'[p] = "age" /\ "age" \in Labels /\ call[p].victim = {}
        /\ call' = [call EXCEPT ![p] = c]
  BY <1>1 DEF List, Step, Goto, Carries, Labels, Passes
<1>3. /\ c \in Call /\ c.now = call[p].now /\ c.digest = call[p].digest
      /\ c.op = call[p].op /\ c.victim = {} /\ c.left = Held /\ c.view = row
  BY <1>1, <1>2 DEF Call, Held
<1> HIDE DEF c
<1>4. call'[p] = c /\ UNCHANGED <<file, part, row>>
  BY <1>1, <1>2 DEF List, disk
<1>5. Carries(p)'
  BY <1>1, <1>2, <1>3, <1>4 DEF Carries, Puts, Passes, Held
<1>6. PutSoFar(p)' /\ PruneSoFar(p)'
  <2>1. Listed(p)' = Held /\ Gone(p)' = {}
    BY <1>3, <1>4 DEF Listed, Gone, Held
  <2>2. \A d, e \in Held : Used(p, d)' = Used(p, e)' => d = e
    BY <1>1, <1>3, <1>4 DEF Used, Ticks
  <2>3. row = [d \in Digest |-> IF d \in Held THEN row[d] ELSE None]
    BY <1>1 DEF Held
  <2>4. Follows(p)'
    BY <1>3, <1>4, <2>1, <2>2, <2>3 DEF Follows
  <2>5. Removes(p)' /\ Passed(p)' /\ PutSoFar(p)'
    BY <1>2, <1>3, <1>4 DEF Removes, Passed, PutSoFar
  <2> QED  BY <2>4, <2>5 DEF PruneSoFar
<1> QED  BY <1>1, <1>2, <1>3, <1>4, <1>5, <1>6, GoingOn DEF List, Step

\* The file of the oldest record goes, for a reason.
LEMMA StepRemoveFile == ASSUME IndexInv, NEW p \in Process, RemoveFile(p) PROVE IndexInv'
<1>1. /\ file \in [Digest -> Size] /\ part \in [Digest -> Size]
      /\ call \in [Process -> Call] /\ pc \in [Process -> Labels] /\ Carries(p)
      /\ alone[p] => PruneSoFar(p)
  BY DEF IndexInv, IndexTypeOK, Labels, Puts, Passes
<1>2. PICK d \in Oldest(p) : /\ call' = [call EXCEPT ![p].victim = {d}]
                             /\ file' \in {file, [file EXCEPT ![d] = Absent]}
  BY DEF RemoveFile
<1> DEFINE c == [call[p] EXCEPT !.victim = {d}]
<1>3. pc[p] \in Passes /\ pc' = pc /\ UNCHANGED <<part, row>>
  BY DEF RemoveFile, Exceeds, Passes
<1>4. d \in call[p].left /\ d \in Digest
  BY <1>1 DEF Oldest, Call
<1>5. /\ c \in Call /\ c.now = call[p].now /\ c.digest = call[p].digest
      /\ c.op = call[p].op /\ c.victim = {d} /\ c.left = call[p].left
      /\ c.view = call[p].view /\ c.limits = call[p].limits /\ c.total = call[p].total
  BY <1>1, <1>4 DEF Call
<1> HIDE DEF c
<1>6. call' = [call EXCEPT ![p] = c] /\ call'[p] = c
  BY <1>1, <1>2 DEF c
<1>7. Carries(p)'
  BY <1>1, <1>3, <1>4, <1>5, <1>6 DEF Carries, Puts, Passes
<1>8. alone[p] => (PutSoFar(p) /\ PruneSoFar(p))'
  <2>1. SUFFICES ASSUME alone[p] PROVE (PutSoFar(p) /\ PruneSoFar(p))'
    OBVIOUS
  <2>2. PutSoFar(p)'
    BY <1>3 DEF PutSoFar, Passes
  <2>3. Follows(p) /\ Passed(p)
    BY <1>1, <1>3, <2>1 DEF PruneSoFar
  <2>4. Follows(p)'
    <3>1. Listed(p)' = Listed(p) /\ Gone(p)' = Gone(p)
      BY <1>5, <1>6 DEF Listed, Gone
    <3>2. \A e : (Used(p, e)' = Used(p, e)) /\ (Needed(p, e) => Needed(p, e)')
      BY <1>3, <1>5, <1>6 DEF Used, Needed
    <3> QED  BY <1>3, <1>5, <1>6, <2>3, <3>1, <3>2 DEF Follows
  <2>5. Removes(p)'
    <3>1. Exceeds(p) /\ (Exceeds(p) => Exceeds(p)') /\ Oldest(p)' = Oldest(p)
      BY <1>3, <1>5, <1>6 DEF RemoveFile, Exceeds, TooOld, TooMany, TooLarge, Oldest
    <3> QED  BY <1>2, <1>5, <1>6, <3>1 DEF Removes
  <2>6. Passed(p)'
    <3>1. Held' = Held /\ TotalBytes' = TotalBytes
      BY <1>3, TotalIsBytes DEF Held
    <3> QED  BY <1>3, <1>5, <1>6, <2>3, <3>1 DEF Passed, Used
  <2> QED  BY <2>2, <2>4, <2>5, <2>6 DEF PruneSoFar
<1>9. pc[p] \in Labels /\ Goto(p, pc[p]) /\ pc[p] # "idle"
  BY <1>1, <1>3 DEF Goto, Passes
<1>10. file' \in [Digest -> Size]
  BY <1>1, <1>2 DEF Size
<1> QED  BY <1>1, <1>3, <1>5, <1>6, <1>7, <1>8, <1>9, <1>10, GoingOn DEF RemoveFile

\* The fields of a row are numbers.
LEMMA RowIsCounted == \A r \in Row : r.nbytes \in Nat /\ r.used \in Nat
<1>1. Sizes \subseteq Nat /\ Time \subseteq Nat
  BY IndexAssumption DEF Time
<1> QED  BY <1>1 DEF Row

\* The index has a number of bytes, and a row of it a size.
LEMMA TotalIsCounted ==
    ASSUME IndexInv
    PROVE  TotalBytes \in Int /\ \A d \in Held : row[d] \in Row /\ row[d].nbytes \in Int
<1>1. \A d \in Held : row[d] \in Row /\ row[d].nbytes \in Int
  <2>1. \A d \in Held : row[d] \in Row
    BY DEF IndexInv, IndexTypeOK, Held
  <2> QED  BY <2>1, RowIsCounted
<1>2. BytesOf(row, Held) \in Int
  BY <1>1, BytesAreCounted DEF IndexInv
<1> QED  BY <1>1, <1>2, TotalIsBytes

\* The row of the oldest record goes, and the listing and the count keep up.
LEMMA StepRemoveRow == ASSUME IndexInv, NEW p \in Process, RemoveRow(p) PROVE IndexInv'
<1>1. /\ file \in [Digest -> Size] /\ part \in [Digest -> Size]
      /\ row \in [Digest -> Row \cup {None}] /\ stops \in 0..MaxStops
      /\ call \in [Process -> Call] /\ pc \in [Process -> Labels] /\ Carries(p)
      /\ alone[p] => PruneSoFar(p)
  BY DEF IndexInv, IndexTypeOK, Labels, Puts, Passes
<1>2. PICK d \in call[p].victim :
        /\ row' = [row EXCEPT ![d] = None]
        /\ call' = [call EXCEPT ![p].victim = {}, ![p].left = @ \ {d},
                              ![p].total = IF pc[p] = "bytes"
                                           THEN @ - call[p].view[d].nbytes ELSE @]
  BY DEF RemoveRow
<1> DEFINE less == IF pc[p] = "bytes" THEN call[p].total - call[p].view[d].nbytes
                   ELSE call[p].total
           c == [call[p] EXCEPT !.victim = {}, !.left = call[p].left \ {d}, !.total = less]
<1>3. d \in call[p].left /\ d \in Digest /\ pc[p] \in Passes /\ pc' = pc
        /\ UNCHANGED <<file, part>>
  BY <1>1 DEF RemoveRow, Carries, Call
<1>4. call[p] \in Call /\ call[p].view \in [Digest -> Row \cup {None}]
        /\ call[p].total \in Int /\ call[p].left \subseteq Digest
        /\ call[p].limits \in [bytes : Nat, entries : Nat, cutoff : Nat]
  BY <1>1, IndexAssumption DEF Call
<1>5. /\ \A e \in Listed(p) : call[p].view[e].nbytes \in Int /\ Used(p, e) \in Int
      /\ call[p].left \subseteq Listed(p)
  <2>1. \A e \in Listed(p) : call[p].view[e] \in Row
    BY <1>4 DEF Listed
  <2>2. call[p].left \subseteq Listed(p)
    BY <1>1, <1>4 DEF Listed, Carries
  <2> QED  BY <2>1, <2>2, RowIsCounted DEF Used
<1>6. less \in Int
  BY <1>3, <1>4, <1>5
<1>7. /\ c \in Call /\ c.now = call[p].now /\ c.digest = call[p].digest
      /\ c.op = call[p].op /\ c.victim = {} /\ c.left = call[p].left \ {d}
      /\ c.view = call[p].view /\ c.limits = call[p].limits /\ c.total = less
  BY <1>4, <1>6 DEF Call
<1>8. call' = [call EXCEPT ![p] = c]
  BY <1>1, <1>2
<1> HIDE DEF c, less
<1>9. call'[p] = c
  BY <1>1, <1>8
<1>10. Carries(p)'
  BY <1>1, <1>3, <1>7, <1>9 DEF Carries, Puts, Passes
<1>11. alone[p] => (PutSoFar(p) /\ PruneSoFar(p))'
  <2>1. SUFFICES ASSUME alone[p] PROVE (PutSoFar(p) /\ PruneSoFar(p))'
    OBVIOUS
  <2>2. PutSoFar(p)'
    BY <1>3 DEF PutSoFar, Passes
  <2>3. Follows(p) /\ Removes(p) /\ Passed(p)
    BY <1>1, <1>3, <2>1 DEF PruneSoFar
  <2>4. Held = call[p].left
    BY <1>1, <1>4, <2>3 DEF Follows, Held, Carries
  <2>5. IsFiniteSet(call[p].left)
    BY <2>4 DEF IndexInv
  <2>6. /\ Cardinality(call[p].left \ {d}) = Cardinality(call[p].left) - 1
        /\ Cardinality(call[p].left) \in Nat
    BY <1>3, <2>5, FS_RemoveElement, FS_CardinalityType
  <2>7. /\ Listed(p)' = Listed(p) /\ Gone(p)' = Gone(p) \cup {d}
        /\ \A e : Used(p, e)' = Used(p, e)
    BY <1>3, <1>5, <1>7, <1>9 DEF Listed, Gone, Used
  <2>8. \A e \in call[p].left : Used(p, d) <= Used(p, e)
    BY <1>2, <2>3 DEF Removes, Oldest, Used
  <2>9. \A e \in call[p].left : e # d => Used(p, d) < Used(p, e)
    BY <1>3, <1>5, <2>3, <2>8 DEF Follows
  <2>10. Needed(p, d)'
    <3>1. Exceeds(p)
      BY <1>2, <2>3 DEF Removes
    <3>2. CASE pc[p] = "age"
      <4>1. PICK e \in call[p].left : Used(p, e) < call[p].limits.cutoff
        BY <3>1, <3>2 DEF Exceeds, TooOld, Used
      <4>2. Used(p, d) < call[p].limits.cutoff
        BY <1>3, <1>4, <1>5, <2>8, <4>1
      <4> QED  BY <1>7, <1>9, <2>7, <4>2 DEF Needed
    <3>3. CASE pc[p] = "count"
      <4>1. call[p].limits.entries > 0
              /\ Cardinality(call[p].left) > call[p].limits.entries
        BY <3>1, <3>3 DEF Exceeds, TooMany
      <4>2. Cardinality(call[p].left \ {d}) >= call[p].limits.entries
        BY <1>4, <2>6, <4>1
      <4> QED  BY <1>7, <1>9, <4>1, <4>2 DEF Needed
    <3>4. CASE pc[p] = "bytes"
      <4>1. call[p].limits.bytes > 0 /\ call[p].total > call[p].limits.bytes
        BY <3>1, <3>4 DEF Exceeds, TooLarge
      <4>2. less + call[p].view[d].nbytes = call[p].total
        BY <1>3, <1>4, <1>5, <3>4 DEF less
      <4> QED  BY <1>3, <1>7, <1>9, <3>4, <4>1, <4>2 DEF Needed
    <3> QED  BY <1>3, <3>2, <3>3, <3>4 DEF Passes
  <2>11. Follows(p)'
    <3>1. row' = [e \in Digest |-> IF e \in c.left THEN c.view[e] ELSE None]
      BY <1>1, <1>2, <1>3, <1>7, <2>3 DEF Follows
    <3>2. \A x \in Gone(p) \cup {d}, e \in c.left : Used(p, x) < Used(p, e)
      BY <1>7, <2>3, <2>9 DEF Follows
    <3>3. \A x \in Gone(p) \cup {d} :
            (\A e \in Gone(p) \cup {d} : Used(p, e) <= Used(p, x)) => x = d
      <4>1. \A x \in Gone(p) : Used(p, x) < Used(p, d)
        BY <1>3, <2>3 DEF Follows
      <4>2. \A x \in Gone(p) : ~(Used(p, d) <= Used(p, x))
        BY <1>3, <1>5, <4>1 DEF Gone
      <4> QED  BY <4>2
    <3>4. row' = [e \in Digest |-> IF e \in call'[p].left THEN call'[p].view[e] ELSE None]
      BY <1>9, <3>1
    <3>5. \A x \in Gone(p)', e \in call'[p].left : Used(p, x)' < Used(p, e)'
      BY <1>9, <2>7, <3>2
    <3>6. \A x, e \in Listed(p)' : Used(p, x)' = Used(p, e)' => x = e
      BY <2>3, <2>7 DEF Follows
    <3>7. \A x \in Gone(p)' :
            (\A e \in Gone(p)' : Used(p, e)' <= Used(p, x)') => Needed(p, x)'
      BY <2>7, <2>10, <3>3
    <3> QED  BY <3>4, <3>5, <3>6, <3>7 DEF Follows
  <2>12. Removes(p)'
    BY <1>7, <1>9 DEF Removes
  <2>13. Passed(p)'
    <3>1. pc[p] # "age" => \A e \in c.left : Used(p, e) >= c.limits.cutoff
      BY <1>7, <2>3 DEF Passed
    <3>2. pc[p] = "bytes" =>
            (c.limits.entries > 0 => Cardinality(c.left) <= c.limits.entries)
      BY <1>4, <1>7, <2>3, <2>6 DEF Passed
    <3>3. pc[p] = "bytes" => c.total = TotalBytes'
      <4>1. \A e \in Held : row[e].nbytes \in Int
        BY TotalIsCounted
      <4>2. BytesOf(row, Held) = row[d].nbytes + BytesOf(row, Held \ {d})
        BY <1>3, <2>4, <2>5, <4>1, BytesWithout
      <4>3. Held' = Held \ {d} /\ \A e \in Held \ {d} : row[e] = row'[e]
        BY <1>1, <1>2 DEF Held
      <4>4. BytesOf(row, Held \ {d}) = BytesOf(row', Held')
        BY <2>4, <2>5, <4>3, FS_Subset, BytesAgree
      <4>5. row[d] = call[p].view[d]
        BY <1>3, <2>3 DEF Follows
      <4>6. BytesOf(row, Held \ {d}) \in Int
        BY <2>4, <2>5, <4>1, FS_Subset, BytesAreCounted
      <4> QED  BY <1>5, <1>7, <2>3, <4>2, <4>4, <4>5, <4>6, TotalIsBytes, <1>3
               DEF Passed, less
    <3> QED  BY <1>3, <1>9, <2>7, <3>1, <3>2, <3>3 DEF Passed
  <2> QED  BY <2>2, <2>11, <2>12, <2>13 DEF PruneSoFar
<1>12. pc[p] \in Labels /\ Goto(p, pc[p]) /\ pc[p] # "idle"
  BY <1>1, <1>3 DEF Goto, Passes
<1>13. row' \in [Digest -> Row \cup {None}]
  BY <1>1, <1>2
<1>14. \A e \in Held' : e \in Held /\ row'[e].used = row[e].used
  BY <1>1, <1>2 DEF Held
<1>15. Same
  BY DEF RemoveRow
<1> QED  BY <1>1, <1>3, <1>7, <1>8, <1>10, <1>11, <1>12, <1>13, <1>14, <1>15, Within
         DEF Same

\* One pass ends and the next begins, or the call is over.
LEMMA StepNextPass == ASSUME IndexInv, NEW p \in Process, NextPass(p) PROVE IndexInv'
<1>1. /\ file \in [Digest -> Size] /\ part \in [Digest -> Size]
      /\ call \in [Process -> Call] /\ pc \in [Process -> Labels] /\ Carries(p)
      /\ alone[p] => PruneSoFar(p)
  BY DEF IndexInv, IndexTypeOK, Labels, Puts, Passes
<1>2. /\ pc[p] \in Passes /\ ~Exceeds(p) /\ call[p].victim = {}
      /\ UNCHANGED <<file, part, row>> /\ Same
  BY DEF NextPass, Passes, disk
<1>3. call[p] \in Call /\ call[p].limits \in [bytes : Nat, entries : Nat, cutoff : Nat]
  BY <1>1, IndexAssumption DEF Call
<1>4. TotalBytes' = TotalBytes /\ TotalBytes \in Int
  <2>1. Held' = Held
    BY <1>2 DEF Held
  <2> QED  BY <1>2, <2>1, TotalIsBytes, TotalIsCounted
<1>5. ASSUME NEW c \in Call, call' = [call EXCEPT ![p] = c],
             NEW to \in {"count", "bytes"}, Goto(p, to),
             \A field \in {"op", "digest", "source", "limits", "now", "left", "view", "victim"} :
                c[field] = call[p][field],
             pc[p] # "bytes", alone[p] => Passed(p)'
      PROVE  IndexInv'
  <2>1. to \in Labels /\ pc'[p] = to /\ call'[p] = c
    BY <1>1, <1>5 DEF Goto, Labels, Passes
  <2>2. /\ c.op = call[p].op /\ c.digest = call[p].digest /\ c.limits = call[p].limits
        /\ c.now = call[p].now /\ c.left = call[p].left /\ c.view = call[p].view
        /\ c.victim = {}
    BY <1>2, <1>5
  <2>3. Carries(p)' /\ PutSoFar(p)'
    BY <1>1, <1>2, <1>5, <2>1, <2>2 DEF Carries, PutSoFar, Puts, Passes
  <2>4. alone[p] => PruneSoFar(p)'
    <3>1. SUFFICES ASSUME alone[p] PROVE (Follows(p) /\ Removes(p))'
      BY <1>5 DEF PruneSoFar
    <3>2. Follows(p)
      BY <1>1, <1>2, <3>1 DEF PruneSoFar
    <3>3. /\ Listed(p)' = Listed(p) /\ Gone(p)' = Gone(p)
          /\ \A e : Used(p, e)' = Used(p, e)
      BY <2>1, <2>2 DEF Listed, Gone, Used
    <3>4. \A e \in Gone(p) : Needed(p, e) => Needed(p, e)'
      BY <1>2, <1>5, <2>1, <2>2, <3>3 DEF Needed
    <3>5. Follows(p)'
      BY <1>2, <2>1, <2>2, <3>2, <3>3, <3>4 DEF Follows
    <3> QED  BY <2>1, <2>2, <3>5 DEF Removes
  <2> QED  BY <1>1, <1>2, <1>5, <2>1, <2>2, <2>3, <2>4, GoingOn DEF Passes
<1>6. CASE pc[p] = "age"
  <2>1. Goto(p, "count") /\ call' = [call EXCEPT ![p] = call[p]] /\ call' = call
          /\ pc'[p] = "count"
    BY <1>1, <1>6 DEF NextPass, Goto
  <2>2. \A d \in call[p].left : Used(p, d) >= call[p].limits.cutoff
    <3>1. \A d \in call[p].left : ~(Used(p, d) < call[p].limits.cutoff)
      BY <1>2, <1>6 DEF Exceeds, TooOld, Used
    <3>2. \A d \in call[p].left : Used(p, d) \in Int
      <4>1. \A d \in call[p].left : call[p].view[d] \in Row
        BY <1>1, <1>3 DEF Carries, Call
      <4> QED  BY <4>1, RowIsCounted DEF Used
    <3> QED  BY <1>3, <3>1, <3>2
  <2>3. Passed(p)'
    BY <2>1, <2>2 DEF Passed, Used
  <2> QED  BY <1>3, <1>5, <1>6, <2>1, <2>3
<1>7. CASE pc[p] = "count"
  <2> DEFINE c == [call[p] EXCEPT !.total = TotalBytes]
  <2>1. Goto(p, "bytes") /\ call' = [call EXCEPT ![p] = c] /\ pc'[p] = "bytes"
    BY <1>1, <1>7 DEF NextPass, Goto
  <2>2. /\ c \in Call /\ c.total = TotalBytes
        /\ \A field \in {"op", "digest", "source", "limits", "now", "left", "view", "victim"} :
                c[field] = call[p][field]
    BY <1>3, <1>4 DEF Call
  <2> HIDE DEF c
  <2>3. /\ call'[p] = c /\ c.limits = call[p].limits /\ c.left = call[p].left
        /\ c.view = call[p].view
    BY <1>1, <2>1, <2>2
  <2>4. alone[p] => Passed(p)'
    <3>1. SUFFICES ASSUME alone[p] PROVE Passed(p)'
      OBVIOUS
    <3>2. Passed(p) /\ Follows(p)
      BY <1>1, <1>2, <3>1 DEF PruneSoFar
    <3>3. call[p].left = {} \/ ~TooMany(p)
      BY <1>2, <1>7 DEF Exceeds
    <3>4. Held = call[p].left
      BY <1>1, <1>3, <3>2 DEF Follows, Held, Carries, Call
    <3>5. Cardinality(call[p].left) \in Nat /\ Cardinality({}) = 0
      BY <3>4, FS_CardinalityType, FS_EmptySet DEF IndexInv
    <3>6. call[p].limits.entries > 0 =>
            Cardinality(call[p].left) <= call[p].limits.entries
      BY <1>3, <3>3, <3>5 DEF TooMany
    <3> QED  BY <1>4, <1>7, <2>1, <2>2, <2>3, <3>2, <3>6 DEF Passed, Used
  <2> QED  BY <1>5, <1>7, <2>1, <2>2, <2>4
<1>8. CASE pc[p] = "bytes"
  <2>1. Leave(p) /\ UNCHANGED disk /\ stops' \in 0..MaxStops
    BY <1>8 DEF NextPass, Same, IndexInv, IndexTypeOK
  <2> QED  BY <1>2, <1>8, <2>1, LeavingQuietly DEF Same
<1> QED  BY <1>2, <1>6, <1>7, <1>8 DEF Passes

\* Every step keeps the invariant.
LEMMA StepIndex == IndexInv /\ [Next]_vars => IndexInv'
<1>1. ASSUME IndexInv, Next PROVE IndexInv'
  <2>1. PICK p \in Process :
            \/ Begin(p) \/ Stop(p)
            \/ Put(p) \/ Select(p) \/ Exists(p) \/ Touch(p) \/ Delete(p) \/ Drop(p)
            \/ Prune(p)
    BY <1>1 DEF Next
  <2>2. CASE Begin(p)
    BY <1>1, <2>2, StepBegin
  <2>3. CASE Stop(p)
    BY <1>1, <2>3, StepStop
  <2>4. CASE Put(p)
    BY <1>1, <2>4, StepPut
  <2>5. CASE Select(p) \/ Exists(p) \/ Touch(p) \/ Delete(p) \/ Drop(p)
    BY <1>1, <2>5, StepKept
  <2>6. CASE Prune(p)
    BY <1>1, <2>6, StepList, StepRemoveFile, StepRemoveRow, StepNextPass DEF Prune
  <2> QED  BY <2>1, <2>2, <2>3, <2>4, <2>5, <2>6
<1>2. ASSUME IndexInv, UNCHANGED vars PROVE IndexInv'
  <2>1. UNCHANGED <<file, part, row, clock, stops, pc, call, alone>>
    BY <1>2 DEF vars, disk
  <2>2. Held' = Held
    BY <2>1 DEF Held
  <2>3. TotalBytes' = TotalBytes
    BY <2>1, <2>2, TotalIsBytes
  <2>4. \A p \in Process : (Follows(p) => Follows(p)') /\ (Removes(p) => Removes(p)')
    BY <2>1 DEF Follows, Removes, Listed, Gone, Used, Needed, Exceeds, TooOld, TooMany,
                TooLarge, Oldest
  <2>5. \A p \in Process : Passed(p) => Passed(p)'
    BY <2>1, <2>3 DEF Passed, Used
  <2>6. \A p \in Process : alone[p] => (PutSoFar(p) /\ PruneSoFar(p))'
    BY <1>2, <2>1, <2>4, <2>5 DEF IndexInv, PutSoFar, PruneSoFar, Target
  <2>7. \A p \in Process : Carries(p)'
    BY <1>2, <2>1 DEF IndexInv, Carries, Target
  <2> QED  BY <1>2, <2>1, <2>2, <2>6, <2>7
           DEF IndexInv, IndexTypeOK, Solo, Ticks, Target
<1> QED  BY <1>1, <1>2

-----------------------------------------------------------------------------
(* The theorems *)

\* The invariant holds of every behaviour: the rows follow the files no closer than
\* two statements, but what one call knows of itself, and alone of the disk, is so.
LEMMA IndexInvariant == Spec => []IndexInv
  BY InitIndex, StepIndex, PTL DEF Spec

\* Every variable has its type: whatever is interleaved and cut short, no row
\* describes an empty file and only a prune holds a listing (store.py's index).
THEOREM IndexTypes == Spec => []IndexTypeOK
<1>1. IndexInv => IndexTypeOK
  BY DEF IndexInv
<1> QED  BY <1>1, IndexInvariant, PTL

\* The call that returns was in one of its last places.
LEMMA ReturnsFrom ==
    ASSUME IndexInv, Next, NEW p \in Process, NEW o \in {"put", "prune"}, Returns(p, o)
    PROVE  \/ o = "put" /\ (InstallFails(p) \/ StatFails(p) \/ Record(p))
           \/ o = "prune" /\ NextPass(p) /\ pc[p] = "bytes"
<1>1. /\ pc \in [Process -> Labels] /\ stops \in 0..MaxStops /\ Carries(p)
      /\ call[p].op = o /\ pc[p] # "idle" /\ pc'[p] = "idle" /\ stops' = stops
  BY DEF IndexInv, IndexTypeOK, Labels, Puts, Passes, Returns
<1>2. PICK q \in Process :
            \/ Begin(q) \/ Stop(q)
            \/ Put(q) \/ Select(q) \/ Exists(q) \/ Touch(q) \/ Delete(q) \/ Drop(q)
            \/ Prune(q)
  BY DEF Next
<1>3. ~Begin(p) /\ ~Stop(q)
  <2>1. stops \in Int
    BY <1>1, IndexAssumption
  <2>2. ~Begin(p)
    BY <1>1 DEF Begin
  <2>3. ~Stop(q)
    BY <1>1, <2>1 DEF Stop
  <2> QED  BY <2>2, <2>3
<1>4. q = p
  <2>1. SUFFICES ASSUME q # p PROVE FALSE
    OBVIOUS
  <2>2. \A label : Goto(q, label) => pc'[p] = pc[p]
    BY <1>1, <2>1 DEF Goto
  <2>3. ~Begin(q)
    BY <1>1, <2>2 DEF Begin
  <2>4. ~Put(q)
    BY <1>1, <2>2 DEF Put, CopyIn, Install, InstallFails, LookUp, Stat, StatFails, Record,
                      Step, Leave
  <2>5. ~(Select(q) \/ Exists(q) \/ Touch(q) \/ Delete(q) \/ Drop(q))
    BY <1>1, <2>2 DEF Select, Exists, Touch, Delete, Find, Unlink, UnlinkFails, Drop,
                      Step, Leave
  <2>6. ~Prune(q)
    BY <1>1, <2>2 DEF Prune, List, RemoveFile, RemoveRow, NextPass, Step, Leave
  <2> QED  BY <1>2, <1>3, <2>3, <2>4, <2>5, <2>6
<1>5. o = "put" => pc[p] \in Puts
  BY <1>1 DEF Carries, Labels
<1>6. o = "prune" => pc[p] \in {"list"} \cup Passes
  BY <1>1 DEF Carries, Labels
<1>7. ~(Select(p) \/ Exists(p) \/ Touch(p) \/ Delete(p) \/ Drop(p))
  BY <1>5, <1>6 DEF Puts, Passes, Select, Exists, Touch, Delete, Find, Unlink,
                    UnlinkFails, Drop, Step
<1>8. Put(p) => o = "put" /\ (InstallFails(p) \/ StatFails(p) \/ Record(p))
  BY <1>1, <1>6 DEF Put, CopyIn, Install, LookUp, Stat, InstallFails, StatFails, Record,
                    Step, Goto, Passes
<1>9. Prune(p) => o = "prune" /\ NextPass(p) /\ pc[p] = "bytes"
  BY <1>1, <1>5 DEF Prune, List, RemoveFile, RemoveRow, NextPass, Exceeds, Step, Goto, Puts
<1> QED  BY <1>2, <1>3, <1>4, <1>7, <1>8, <1>9

\* A put that returned without having run beside another has put its file under its
\* digest and recorded its size and time, whatever was lying there (Store.put).
THEOREM AlonePutIsRecorded == Spec => PutIsRecorded
<1>1. ASSUME IndexInv, Next, NEW p \in Process, Returns(p, "put")
      PROVE  /\ file'[Target(p)] = call[p].source
             /\ row'[Target(p)].nbytes = call[p].source
             /\ row'[Target(p)].used = call[p].now
  <2>1. /\ InstallFails(p) \/ StatFails(p) \/ Record(p)
        /\ PutSoFar(p) /\ Carries(p)
    BY <1>1, ReturnsFrom DEF Returns, IndexInv
  <2>2. ~InstallFails(p) /\ ~StatFails(p)
    BY <2>1, IndexAssumption DEF InstallFails, StatFails, PutSoFar, Carries, Puts, Absent
  <2>3. Record(p) /\ Target(p) \in Digest /\ row \in [Digest -> Row \cup {None}]
    BY <1>1, <2>1, <2>2 DEF Record, Carries, Puts, Passes, IndexInv, IndexTypeOK
  <2>4. row'[Target(p)] = [nbytes |-> call[p].nbytes, created |-> call[p].created,
                           used |-> call[p].now]
    BY <2>3 DEF Record
  <2> QED  BY <2>1, <2>3, <2>4 DEF Record, PutSoFar
<1>2. ASSUME IndexInv, [Next]_vars
      PROVE  [\A p \in Process : Returns(p, "put") =>
                /\ file'[Target(p)] = call[p].source
                /\ row'[Target(p)].nbytes = call[p].source
                /\ row'[Target(p)].used = call[p].now]_vars
  BY <1>1, <1>2
<1> QED  BY <1>2, IndexInvariant, PTL DEF Spec, PutIsRecorded

\* Where an alone prune ends: the index is what is left of its listing.
LEMMA PruneEnds ==
    ASSUME IndexInv, Next, NEW p \in Process, Returns(p, "prune")
    PROVE  /\ pc[p] = "bytes" /\ ~Exceeds(p) /\ UNCHANGED row
           /\ Follows(p) /\ Passed(p)
           /\ Held = call[p].left /\ Held' = Held /\ TotalBytes' = TotalBytes
           /\ Held \subseteq Listed(p) /\ \A d \in Listed(p) : Used(p, d) \in Nat
           /\ call[p].limits \in [bytes : Nat, entries : Nat, cutoff : Nat]
           /\ TotalBytes \in Int /\ Cardinality(Held) \in Nat
<1>1. NextPass(p) /\ pc[p] = "bytes"
  BY ReturnsFrom
<1>2. PruneSoFar(p) /\ Carries(p) /\ call[p] \in Call /\ row \in [Digest -> Row \cup {None}]
  BY DEF Returns, IndexInv, IndexTypeOK
<1>3. ~Exceeds(p) /\ row' = row /\ Follows(p) /\ Passed(p)
  BY <1>1, <1>2 DEF NextPass, disk, PruneSoFar, Passes
<1>4. call[p].view \in [Digest -> Row \cup {None}] /\ call[p].left \subseteq Digest
        /\ call[p].limits \in [bytes : Nat, entries : Nat, cutoff : Nat]
  BY <1>2, IndexAssumption DEF Call
<1>5. Held = call[p].left /\ Held' = Held
  BY <1>2, <1>3, <1>4 DEF Held, Follows, Carries
<1>6. Held \subseteq Listed(p)
  BY <1>2, <1>4, <1>5 DEF Listed, Carries
<1>7. \A d \in Listed(p) : Used(p, d) \in Nat
  <2>1. \A d \in Listed(p) : call[p].view[d] \in Row
    BY <1>4 DEF Listed
  <2> QED  BY <2>1, RowIsCounted DEF Used
<1>8. TotalBytes' = TotalBytes
  BY <1>3, <1>5, TotalIsBytes
<1>9. TotalBytes \in Int /\ Cardinality(Held) \in Nat
  BY TotalIsCounted, FS_CardinalityType DEF IndexInv
<1> QED  BY <1>1, <1>3, <1>4, <1>5, <1>6, <1>7, <1>8, <1>9

\* A prune that ran alone leaves no more bytes, entries or age than it was told to,
\* though it reads the index twice and goes by its own tally after that (Store.prune).
THEOREM AlonePruneMeetsItsLimits == Spec => PruneMeetsItsLimits
<1>1. ASSUME IndexInv, Next, NEW p \in Process, Returns(p, "prune")
      PROVE  /\ call[p].limits.bytes > 0 => TotalBytes' <= call[p].limits.bytes
             /\ call[p].limits.entries > 0 => Cardinality(Held') <= call[p].limits.entries
             /\ \A d \in Held' : row'[d].used >= call[p].limits.cutoff
  <2>1. /\ pc[p] = "bytes" /\ ~Exceeds(p) /\ UNCHANGED row
        /\ Follows(p) /\ Passed(p)
        /\ Held = call[p].left /\ Held' = Held /\ TotalBytes' = TotalBytes
        /\ call[p].limits \in [bytes : Nat, entries : Nat, cutoff : Nat]
        /\ TotalBytes \in Int
    BY <1>1, PruneEnds
  <2>2. call[p].limits.bytes > 0 => TotalBytes <= call[p].limits.bytes
    <3>1. Held = {} => TotalBytes = 0
      BY TotalIsBytes, BytesUnfold, FS_EmptySet
    <3>2. Held = {} \/ ~TooLarge(p)
      BY <2>1 DEF Exceeds
    <3> QED  BY <2>1, <3>1, <3>2 DEF TooLarge, Passed
  <2>3. \A d \in Held : row[d] = call[p].view[d]
    BY <2>1 DEF Follows, Held
  <2> QED  BY <2>1, <2>2, <2>3 DEF Passed, Used
<1>2. ASSUME IndexInv, [Next]_vars
      PROVE  [\A p \in Process : Returns(p, "prune") =>
                LET limits == call[p].limits IN
                /\ limits.bytes > 0 => TotalBytes' <= limits.bytes
                /\ limits.entries > 0 => Cardinality(Held') <= limits.entries
                /\ \A d \in Held' : row'[d].used >= limits.cutoff]_vars
  BY <1>1, <1>2
<1> QED  BY <1>2, IndexInvariant, PTL DEF Spec, PruneMeetsItsLimits

\* Nor does it remove one record too many: put back, the last it removed would exceed
\* a limit again.  That rests on no two records having been used at the same time.
THEOREM AlonePruneRemovesNoMore == Spec => PruneRemovesNoMore
<1> DEFINE Good(p) ==
        LET limits == call[p].limits
            listed == {d \in Digest : call[p].view[d] # None}
            gone == listed \ Held'
            last == {d \in gone : \A e \in gone :
                        call[p].view[e].used <= call[p].view[d].used}
        IN  \A d \in last :
                \/ call[p].view[d].used < limits.cutoff
                \/ limits.entries > 0 /\ Cardinality(Held') >= limits.entries
                \/ /\ limits.bytes > 0
                   /\ TotalBytes' + call[p].view[d].nbytes > limits.bytes
<1>1. ASSUME IndexInv, Next, NEW p \in Process, Returns(p, "prune") PROVE Good(p)
  <2>1. /\ Follows(p) /\ Passed(p) /\ pc[p] = "bytes"
        /\ Held = call[p].left /\ Held' = Held /\ TotalBytes' = TotalBytes
    BY <1>1, PruneEnds
  <2>2. Listed(p) \ Held' = Gone(p) /\ call[p].total = TotalBytes'
    BY <2>1 DEF Gone, Passed
  <2>3. \A d \in Gone(p) : (\A e \in Gone(p) : Used(p, e) <= Used(p, d)) => Needed(p, d)
    BY <2>1 DEF Follows
  <2> QED  BY <2>1, <2>2, <2>3 DEF Listed, Used, Needed
<1>2. ASSUME IndexInv, [Next]_vars
      PROVE  [\A p \in Process : Returns(p, "prune") => Good(p)]_vars
  <2> HIDE DEF Good
  <2> QED  BY <1>1, <1>2
<1> QED  BY <1>2, IndexInvariant, PTL DEF Spec, PruneRemovesNoMore

=============================================================================
