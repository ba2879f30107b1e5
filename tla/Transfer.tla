------------------------------ MODULE Transfer -------------------------------
(****************************************************************************)
(* Whether a cache may be used in another place: kv_rosetta/transfer.py,    *)
(* and the gate that measures a lossy transfer: kv_rosetta/gate.py with the *)
(* measures of kv_rosetta/metrics.py.  Pure functions.                      *)
(*                                                                          *)
(* An identity is [model, abi, k, v, arch, prompt], a field 0 when it is    *)
(* not known.  Logits are a sequence of positions [agrees, kl, delta],      *)
(* which is what the measures make of the two rows of a position: whether   *)
(* the top tokens agree, the divergence and the largest difference.  NaN    *)
(* stands for the value of a measure that met a non-finite number, and      *)
(* NotMeasured for logits nobody took.                                      *)
(****************************************************************************)
EXTENDS Integers, Sequences, FiniteSets, FiniteSetsExt

CONSTANTS NaN, NotMeasured, F16, Q8

SupportedPairs == {<<F16, Q8>>, <<F16, F16>>, <<Q8, Q8>>}

(* plan(): how, or that it must not *)
PlanMode(source, target) ==
    IF \/ source.model = 0 \/ target.model = 0
       \/ source.prompt # 0 /\ target.prompt # 0 /\ source.prompt # target.prompt
       \/ source.model # target.model
    THEN "refused"
    ELSE IF source.abi # 0 /\ source.abi = target.abi
    THEN "identity"
    ELSE IF /\ 0 \notin {source.k, source.v, target.k, target.v}
            /\ <<source.k, target.k>> \in SupportedPairs
            /\ <<source.v, target.v>> \in SupportedPairs
            /\ source.arch = target.arch
    THEN "dtype_convert"
    ELSE "refused"

(* The plan freezes the thresholds it was made with. *)
Plan(source, target, thresholds) ==
    [mode |-> PlanMode(source, target), thresholds |-> thresholds]

-----------------------------------------------------------------------------
(* The measures over the last `holdout` positions.  A NaN anywhere makes the
   whole measure NaN, and argmax never does. *)
Holdout(logits, n) == SubSeq(logits, Len(logits) - n + 1, Len(logits))

Agreement(tail) == Cardinality({i \in DOMAIN tail : tail[i].agrees})

Values(tail, f) == {tail[i][f] : i \in DOMAIN tail}

Largest(tail, f) == IF NaN \in Values(tail, f) THEN NaN ELSE Max(Values(tail, f))

(* the mean times the number of positions *)
Total(tail, f) ==
    IF NaN \in Values(tail, f) THEN NaN
    ELSE FoldSet(LAMBDA i, sum : sum + tail[i][f], 0, DOMAIN tail)

\* Mutant of Above: a NaN is above no bound, as in a plain comparison.
AboveAsCompared(value, bound) == value # NaN /\ value > bound

Above(value, bound) == value = NaN \/ value > bound

(* admit(): thresholds are [holdout, agree, mean, max, delta], agreement and
   mean as the least and the largest total over the holdout, delta NotMeasured
   when the policy names none.  A NaN delta is refused all the same. *)
Admit(shapesMatch, logits, t) ==
    LET tail == Holdout(logits, t.holdout)
    IN  /\ shapesMatch
        /\ Len(logits) >= t.holdout
        /\ Agreement(tail) >= t.agree
        /\ ~Above(Total(tail, "kl"), t.mean)
        /\ ~Above(Largest(tail, "kl"), t.max)
        /\ Largest(tail, "delta") # NaN
        /\ t.delta # NotMeasured => ~Above(Largest(tail, "delta"), t.delta)

(* execute(): `transfers` is FALSE when run_transfer raises, which is a
   refusal and not an error. *)
Execute(plan, transfers, shapesMatch, logits) ==
    /\ plan.mode # "refused"
    /\ transfers
    /\ \/ plan.mode = "identity"
       \/ /\ logits # NotMeasured
          /\ Admit(shapesMatch, logits, plan.thresholds)

-----------------------------------------------------------------------------
(* What a used cache shows: it is this model's, for no other prompt; and
   unless the bytes are reusable as they are, it was converted along a tested
   pair and behaved on each of the last positions the policy asks for within
   the bounds of the policy the plan was made with. *)
UsedIsSound(source, target, policy, logits) ==
    /\ source.model = target.model /\ source.model # 0
    /\ source.prompt = target.prompt \/ 0 \in {source.prompt, target.prompt}
    /\ \/ source.abi = target.abi /\ source.abi # 0
       \/ /\ \A f \in {"k", "v"} :
                target[f] \in (IF source[f] = F16 THEN {F16, Q8} ELSE {Q8} \intersect {source[f]})
          /\ logits # NotMeasured
          /\ Len(logits) >= policy.holdout
          /\ \A i \in Len(logits) - policy.holdout + 1 .. Len(logits) :
                /\ logits[i].kl \in 0..policy.max
                /\ logits[i].delta # NaN
                /\ policy.delta # NotMeasured => logits[i].delta <= policy.delta
=============================================================================
