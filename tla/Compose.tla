------------------------------- MODULE Compose -------------------------------
(****************************************************************************)
(* Placing cached regions side by side: kv_rosetta/compose.py.              *)
(*                                                                          *)
(* A region is [name, start, end, tokens, after, wellFormed]: the token     *)
(* range it claims, the digest of its tokens, the context it was prefilled  *)
(* behind, and whether its name, role and digest have the required form.    *)
(* A context is the chain of the token digests in front, AtFront the empty  *)
(* one: chain_digest hashes the previous context together with the region,  *)
(* which a sequence that grows by one models without collisions.            *)
(****************************************************************************)
EXTENDS Integers, Sequences, Folding

AtFront == <<>>

\* Mutant of ChainDigest: the context is the region in front and not the chain.
ChainOfOne(previous, region) == <<region.tokens>>

ChainDigest(previous, region) == Append(previous, region.tokens)

Context(regions) == FoldLeft(ChainDigest, AtFront, regions)

(* Region.validate *)
Valid(r) == r.wellFormed /\ r.start < r.end /\ r.start >= 0

(* The i-th region is cached behind what it is being placed behind. *)
Exact(regions, i) == regions[i].after = Context(SubSeq(regions, 1, i - 1))

Repairs(regions) == {i \in DOMAIN regions : ~Exact(regions, i)}

(* plan(): refused, exact, or to be repaired by a recomputation the caller
   has asked for. *)
Plan(regions, allowRepair) ==
    IF \/ regions = <<>>
       \/ regions[1].start # 0
       \/ \E i \in DOMAIN regions : ~Valid(regions[i])
       \/ ~IsInjective([i \in DOMAIN regions |-> regions[i].name])
       \/ \E i \in 2..Len(regions) : regions[i].start # regions[i - 1].end
       \/ Repairs(regions) # {} /\ ~allowRepair
    THEN "refused"
    ELSE IF Repairs(regions) = {} THEN "exact" ELSE "needs_repair"

(* appendable(): only the context of the addition is looked at. *)
Appendable(existing, addition) == addition.after = Context(existing)

-----------------------------------------------------------------------------
(* The same regions in another order, their ranges laid out anew. *)
Reordered(regions, p) ==
    LET end[i \in 0..Len(regions)] ==
            IF i = 0 THEN 0
            ELSE end[i - 1] + regions[p[i]].end - regions[p[i]].start
    IN  [i \in DOMAIN regions |->
            [regions[p[i]] EXCEPT !.start = end[i - 1], !.end = end[i]]]

(* An exact composition has one order: no other order of its regions is
   exact, whether or not they hold the same tokens. *)
HasOneOrder(regions) ==
    Plan(regions, FALSE) = "exact" =>
        \A p \in {f \in [DOMAIN regions -> DOMAIN regions] : IsInjective(f)} :
            (\E i \in DOMAIN p : p[i] # i) => Plan(Reordered(regions, p), FALSE) = "refused"

(* appendable() agrees with plan(): a region that continues an exact
   composition is appendable exactly when the longer one is exact. *)
AppendAgrees(regions) ==
    LET front == SubSeq(regions, 1, Len(regions) - 1)
        last  == regions[Len(regions)]
    IN  /\ Len(regions) > 1
        /\ Plan(front, FALSE) = "exact"
        /\ Valid(last)
        /\ last.start = front[Len(front)].end
        /\ \A i \in DOMAIN front : front[i].name # last.name
        => (Appendable(front, last) <=> Plan(regions, FALSE) = "exact")
=============================================================================
