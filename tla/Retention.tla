------------------------------ MODULE Retention ------------------------------
(****************************************************************************)
(* What a store under a byte budget keeps: kv_rosetta/retention.py, and the *)
(* two selections of kv_rosetta/daemon/budget.py.  Pure functions.          *)
(*                                                                          *)
(* An entry is [digest, nbytes, used, pinned].  A digest is a number (the   *)
(* order of the hex strings), 0 for a string that is no full sha256.        *)
(* Raising RetentionError is the result Refused; the text that goes with a  *)
(* verdict is left out.                                                     *)
(****************************************************************************)
EXTENDS Integers, Sequences, FiniteSets, FiniteSetsExt

Refused == [ok |-> FALSE, keep |-> {}, evict |-> {}, bytes |-> 0]

Bytes(entries) == FoldSet(LAMBDA e, n : n + e.nbytes, 0, entries)

(* Entry.validate *)
Invalid(e) == e.digest = 0 \/ e.nbytes <= 0

(* newest first, and by digest among the equally new *)
Before(a, b) == \/ a.used > b.used
                \/ a.used = b.used /\ a.digest < b.digest

Hindmost(S) == CHOOSE e \in S : \A o \in S \ {e} : Before(o, e)

\* Mutant of Take: what is evicted goes on counting against the budget.
TakeCountsEvicted(plan, e, budget) ==
    IF plan.bytes + e.nbytes <= budget
    THEN [plan EXCEPT !.keep = @ \union {e.digest}, !.bytes = @ + e.nbytes]
    ELSE [plan EXCEPT !.evict = @ \union {e.digest}, !.bytes = @ + e.nbytes]

(* One entry is taken if it still fits; if it does not, the older ones are
   tried nevertheless. *)
Take(plan, e, budget) ==
    IF plan.bytes + e.nbytes <= budget
    THEN [plan EXCEPT !.keep = @ \union {e.digest}, !.bytes = @ + e.nbytes]
    ELSE [plan EXCEPT !.evict = @ \union {e.digest}]

(* The pinned are kept, and the others taken in their order: the hindmost of
   a set after what was made of the rest. *)
PlanRetention(entries, budget) ==
    LET pinned == {e \in Range(entries) : e.pinned}
        start  == [ok |-> TRUE, keep |-> {e.digest : e \in pinned},
                   evict |-> {}, bytes |-> Bytes(pinned)]
    IN  IF \/ budget < 0
           \/ \E i \in DOMAIN entries : Invalid(entries[i])
           \/ \E i, j \in DOMAIN entries :
                 i # j /\ entries[i].digest = entries[j].digest
           \/ Bytes(pinned) > budget
        THEN Refused
        ELSE MapThenFoldSet(LAMBDA e, plan : Take(plan, e, budget), start,
                            LAMBDA e : e, Hindmost, Range(entries) \ pinned)

(* A candidate larger than the whole budget, or displaced by what is newer
   or pinned, is refused before anything is evicted for it. *)
AdmitOrRefuse(entries, candidate, budget) ==
    LET plan == PlanRetention(Append(entries, candidate), budget)
    IN  IF \/ Invalid(candidate)
           \/ candidate.nbytes > budget
           \/ candidate.digest \notin plan.keep
        THEN Refused
        ELSE plan

-----------------------------------------------------------------------------
(* budget.py: which manifests to warm, which to delete.  A manifest is
   [tokens, mtime]; the selections are sets of positions. *)

(* A prefix too long for what is left of the token budget is passed over,
   and a shorter one behind it may still be warmed. *)
SelectWarm(manifests, maxTokens, maxWarm) ==
    LET step(i, s) == LET n == manifests[i].tokens
                      IN  IF \/ n <= 0
                             \/ s.tokens + n > maxTokens
                             \/ Cardinality(s.warm) >= maxWarm
                          THEN s
                          ELSE [warm |-> s.warm \union {i}, tokens |-> s.tokens + n]
    IN  MapThenFoldSet(step, [warm |-> {}, tokens |-> 0],
                       LAMBDA i : i, Max, DOMAIN manifests)

(* 0 switches either limit off; the sort is stable. *)
SelectPrune(manifests, maxEntries, maxAge, now) ==
    LET old      == {i \in DOMAIN manifests :
                        maxAge > 0 /\ manifests[i].mtime < now - maxAge}
        rest     == DOMAIN manifests \ old
        Older(i) == {j \in rest : \/ manifests[j].mtime < manifests[i].mtime
                                  \/ /\ manifests[j].mtime = manifests[i].mtime
                                     /\ j < i}
        excess   == Cardinality(rest) - maxEntries
    IN  old \union {i \in rest : maxEntries > 0 /\ Cardinality(Older(i)) < excess}

-----------------------------------------------------------------------------
(* What the plan promises, without an order of processing: among the sets
   that hold every pin, the plan's is the one in which an entry is kept
   exactly when the kept entries that go before it leave it room. *)
KeepsWhatFits(entries, budget, plan) ==
    \A e \in Range(entries) :
        LET first == {k \in Range(entries) : /\ k.digest \in plan.keep
                                             /\ (k.pinned \/ Before(k, e))}
        IN  (e.digest \in plan.keep) <=> (e.pinned \/ Bytes(first) + e.nbytes <= budget)
=============================================================================
