--------------------------- MODULE MCIndexedStore ---------------------------
(***************************************************************************)
(* TLC instances of IndexedStore.                                          *)
(***************************************************************************)
EXTENDS IndexedStore, TLC

\* Each limit alone, none, and two that bite one after the other.
SomeLimits ==
    {[bytes |-> 0, entries |-> 0, cutoff |-> 0],
     [bytes |-> 3, entries |-> 0, cutoff |-> 0],
     [bytes |-> 0, entries |-> 1, cutoff |-> 2],
     [bytes |-> 1, entries |-> 1, cutoff |-> 0]}

Interchangeable == Permutations(Process) \cup Permutations(Digest)

=============================================================================
