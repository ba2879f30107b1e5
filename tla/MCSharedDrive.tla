---------------------------- MODULE MCSharedDrive ----------------------------
(***************************************************************************)
(* TLC instances of SharedDrive.                                           *)
(***************************************************************************)
EXTENDS SharedDrive, TLC

CONSTANTS Short, Long

\* The second document is the first one grown at its end.
Two == <<Long, Short>>
Grown == Short :> <<1, 2>> @@ Long :> <<1, 2, 3>>

\* A model, the same model quantised otherwise, and the first under another ABI.
Keys == {[model |-> "m", abi |-> "f16"], [model |-> "m4", abi |-> "f16"],
         [model |-> "m", abi |-> "q8"]}
OneLineage == "m" :> "L" @@ "m4" :> "L"

\* Attachments of the first key, to one document with its lineage and to the other
\* without, and of the last key; one of the first is staged.  The second key only reads.
Name1 == <<Long, [model |-> "m", abi |-> "f16"]>>
SomeCalls ==
    {[op |-> "attach", name |-> <<Long, k>>, lineage |-> TRUE] : k \in {k \in Keys : k.model = "m"}}
    \cup {[op |-> "attach", name |-> <<Short, Name1[2]>>, lineage |-> FALSE],
          [op |-> "stage", name |-> Name1, lineage |-> FALSE]}

Interchangeable == Permutations(Job)

=============================================================================
