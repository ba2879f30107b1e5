------------------------------- MODULE Connector -------------------------------
(****************************************************************************)
(* The vLLM connector: kv_rosetta/adapters/vllm_connector.py.  Pure         *)
(* functions: moving rows between the paged buffer and the canonical form,  *)
(* and which admitted artifact may serve a request.                         *)
(*                                                                          *)
(* A shard is [rank, size].  An object is [digest, model, shard, tokens]:   *)
(* model 0 and tokens <<>> when the manifest does not record them, and the  *)
(* shard Unreadable when its fields are no numbers.  A buffer is a sequence *)
(* of rows, one for each slot of its pages.                                 *)
(****************************************************************************)
EXTENDS Integers, Sequences, FiniteSets, Folding

CONSTANT Unreadable

ValidShard(s) == s # Unreadable /\ s.size >= 1 /\ s.rank \in 0..s.size - 1

(* What extract and inject both refuse.  Slots count from 0. *)
Mapped(buffer, slots) ==
    /\ slots # <<>>
    /\ \A i \in DOMAIN slots : slots[i] \in 0..Len(buffer) - 1

Extract(buffer, slots) == [i \in DOMAIN slots |-> buffer[slots[i] + 1]]

Injects(buffer, slots, rows) == Len(rows) = Len(slots) /\ Mapped(buffer, slots)

(* of two rows for one slot the later stays *)
Inject(buffer, slots, rows) ==
    FoldLeft(LAMBDA b, i : [b EXCEPT ![slots[i] + 1] = rows[i]],
             buffer, [i \in DOMAIN slots |-> i])

-----------------------------------------------------------------------------
(* matched_tokens: 0 on any doubt *)
Shared(a, b) == Max({n \in 0..Min({Len(a), Len(b)}) : SubSeq(a, 1, n) = SubSeq(b, 1, n)})

MatchedTokens(object, shard, live, request) ==
    IF \/ object.model = 0 \/ object.model # live
       \/ object.shard # shard
       \/ object.tokens = <<>> \/ request = <<>>
       \/ Shared(object.tokens, request) < Len(object.tokens)
    THEN 0
    ELSE Shared(object.tokens, request)

(* select_artifact: the objects in the order the store lists them; the best so
   far is [digest, matched]. *)
Nothing == [digest |-> 0, matched |-> 0]

\* Mutant of Better: of two equally long the first listed stays.
BetterByLength(best, object, matched) == matched > best.matched

Better(best, object, matched) ==
    \/ matched > best.matched
    \/ matched = best.matched /\ matched > 0 /\ object.digest < best.digest

SelectArtifact(objects, shard, live, request) ==
    LET Weigh(best, object) ==
            LET matched == MatchedTokens(object, shard, live, request)
            IN  IF \/ object.tokens = <<>>
                   \/ ~ValidShard(object.shard)
                   \/ ~Better(best, object, matched)
                THEN best
                ELSE [digest |-> object.digest, matched |-> matched]
    IN  FoldLeft(Weigh, Nothing, objects)

(* get_num_new_matched_tokens *)
NewTokens(objects, shard, live, request, computed) ==
    Max({0, SelectArtifact(objects, shard, live, request).matched - computed})

-----------------------------------------------------------------------------
(* What may be served, whatever order the store lists its objects in: nothing
   when no object of this model and shard holds a prefix of the request, and
   else the longest one, the smallest digest among equals. *)
Serves(object, shard, live, request) ==
    /\ object.model = live /\ live # 0 /\ object.shard = shard
    /\ object.tokens # <<>> /\ StartsWith(request, object.tokens)

ServesTheLongest(objects, shard, live, request) ==
    LET able   == {o \in Range(objects) : Serves(o, shard, live, request)}
        chosen == SelectArtifact(objects, shard, live, request)
    IN  IF able = {} THEN chosen = Nothing
        ELSE \E o \in able :
                /\ chosen = [digest |-> o.digest, matched |-> Len(o.tokens)]
                /\ \A p \in able :
                      \/ Len(p.tokens) < Len(o.tokens)
                      \/ Len(p.tokens) = Len(o.tokens) /\ o.digest <= p.digest

(* Rows put in are read back, and no row of another request is touched. *)
InjectedIsExtracted(buffer, slots, rows) ==
    Injects(buffer, slots, rows) /\ IsInjective(slots) =>
        LET after == Inject(buffer, slots, rows)
        IN  /\ Extract(after, slots) = rows
            /\ \A i \in DOMAIN buffer : i - 1 \notin Range(slots) => after[i] = buffer[i]
=============================================================================
