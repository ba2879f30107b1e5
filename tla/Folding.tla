------------------------------ MODULE Folding ------------------------------
(***************************************************************************)
(* Two operators on sequences that the modules of the pure algorithms      *)
(* share: the loop, and str.startswith.  A loop is the fold of the         *)
(* community module Folds over the places of a list, as it is in           *)
(* SequencesExt, which is not extended because Rules instantiates ten such *)
(* modules, and each would carry Bags and the theorem libraries behind     *)
(* SequencesExt into every obligation of the proofs.                       *)
(***************************************************************************)
EXTENDS Integers, Sequences, FiniteSetsExt

\* for item in list: held = step(held, item), with held = start before the first.
\* The place that is handled last is the largest.
FoldLeft(step(_, _), start, list) ==
    LET Handle(item, held) == step(held, item)
        At(place) == list[place]
    IN  MapThenFoldSet(Handle, start, At, Max, DOMAIN list)

\* What remains of whole when it is cut off somewhere is beginning.
StartsWith(whole, beginning) ==
    \E n \in 0..Len(whole) : SubSeq(whole, 1, n) = beginning

=============================================================================
