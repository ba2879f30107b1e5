--------------------------- MODULE CaptureAdmission ---------------------------
(***************************************************************************)
(* From a saved slot to a held, pinned, bounded artifact: admit_capture    *)
(* (cli.py), called by the capture thread and by the seed handler threads  *)
(* of the daemon; the prewarm command, a process of its own; the pin and   *)
(* unpin commands; and the pruning and pin markers of daemon/capture.py.   *)
(*                                                                         *)
(* A Job is one such call.  The artifact it admits is identified by the    *)
(* job: two saves have different bytes, hence different digests (the case  *)
(* of equal bytes is AdmittedStore's).  AdmittedStore.admit is one step    *)
(* here, as is the listing of the store; the steps between listing,        *)
(* marking, admitting and unlinking are separate, because every one of     *)
(* them can be interleaved with another thread's.                          *)
(***************************************************************************)
EXTENDS Naturals, FiniteSets, Sequences

CONSTANTS
    Job,        \* the calls that admit
    Model,      \* the runtime models
    Prefix,     \* prompt prefixes: a fingerprint and its token count
    NoArtifact,
    Keep,       \* MAX_ARTIFACTS_PER_MODEL
    MaxBusy     \* bound: calls in progress at once

ASSUME KeepAssumption == Keep \in Nat \ {0} /\ MaxBusy \in Nat \ {0}
ASSUME NoArtifactAssumption == NoArtifact \notin Job

VARIABLES
    pc,         \* where each call is
    call,       \* its model, its prefix, and which caller it serves; constant
    raw,        \* the calls whose raw save is on disk
    order,      \* artifacts in the order of their admission (their mtime)
    held,       \* artifacts the store lists
    pins,       \* artifacts with a .pin marker
    found,      \* the held artifact a call found for its prefix
    victims,    \* what a call's pruning has still to unlink
    released    \* history: artifacts that no pruning has listed since they were
                \* prewarmed or unpinned, or left by an unlink that failed or by a
                \* call that was refused or died

vars == <<pc, call, raw, order, held, pins, found, victims, released>>

-----------------------------------------------------------------------------
\* capture: the capture loop.  seed: POST /v1/seed, which pins.
\* prewarm: the prewarm command, which neither looks up, pins nor prunes.
Kind == {"capture", "seed", "prewarm"}

Call == [model : Model, prefix : Prefix, kind : Kind]

Active == {"list", "discard", "pinHeld", "admit", "unlinkRaw", "pinNew",
           "scan", "drop"}

ActiveJobs == {j \in Job : pc[j] \in Active}

Of(m) == {a \in held : call[a].model = m}

\* Mutant of Unpinned: markers are not consulted.
UnpinnedIgnoringPins(m) == Of(m)

Unpinned(m) == Of(m) \ pins

\* Mutant of Covering: a prefix held for another model counts.
CoveringAnyModel(c) == {a \in held : call[a].prefix = c.prefix /\ call[a].kind # "prewarm"}

\* The held artifacts that already cover a call's prefix on its model.  A
\* prewarmed artifact bears its corpus manifest's fingerprint, not its tokens'.
Covering(c) == {a \in Of(c.model) : call[a].prefix = c.prefix /\ call[a].kind # "prewarm"}

\* Admitted by a call that has still to list the store.
Pending == {a \in Job : pc[a] \in {"unlinkRaw", "pinNew", "scan"}}

\* Admitted later: its mtime is greater.
Younger(a, b) ==
    \E i, k \in DOMAIN order : i > k /\ order[i] = a /\ order[k] = b

YoungerUnpinned(a, m) == {b \in Unpinned(m) : Younger(b, a)}

\* Mutant of Excess: one too many is kept.
ExcessOffByOne(m) ==
    {a \in Unpinned(m) : Cardinality(YoungerUnpinned(a, m)) > Keep}

\* Mutant of Excess: sorted without reverse=True.
ExcessOldestKept(m) ==
    {a \in Unpinned(m) : Cardinality({b \in Unpinned(m) : Younger(a, b)}) >= Keep}

\* held.sort(reverse=True)[keep:]: all but the Keep youngest.
Excess(m) ==
    {a \in Unpinned(m) : Cardinality(YoungerUnpinned(a, m)) >= Keep}

Goto(j, label) == pc' = [pc EXCEPT ![j] = label]

-----------------------------------------------------------------------------
Init ==
    /\ pc = [j \in Job |-> "idle"]
    /\ call \in [Job -> Call]
    /\ raw = {}
    /\ order = <<>>
    /\ held = {}
    /\ pins = {}
    /\ found = [j \in Job |-> NoArtifact]
    /\ victims = [j \in Job |-> {}]
    /\ released = {}

\* The runtime has written a slot's state to a raw file in the store root.
Saved(j) ==
    /\ pc[j] = "idle"
    /\ Cardinality(ActiveJobs) < MaxBusy
    /\ raw' = raw \cup {j}
    /\ Goto(j, IF call[j].kind = "prewarm" THEN "admit" ELSE "list")
    /\ UNCHANGED <<call, order, held, pins, found, victims, released>>

\* "Already held?": some listed artifact of this model has the same prefix.
FindHeld(j) ==
    /\ pc[j] = "list"
    /\ \E a \in Covering(call[j]) : found' = [found EXCEPT ![j] = a]
    /\ Goto(j, "discard")
    /\ UNCHANGED <<call, raw, order, held, pins, victims, released>>

\* Mutant of FindNothing: the capture is admitted without looking.
FindNothingUnlooked(j) ==
    /\ pc[j] = "list"
    /\ Goto(j, "admit")
    /\ UNCHANGED <<call, raw, order, held, pins, found, victims, released>>

FindNothing(j) ==
    /\ pc[j] = "list"
    /\ Covering(call[j]) = {}
    /\ Goto(j, "admit")
    /\ UNCHANGED <<call, raw, order, held, pins, found, victims, released>>

\* Mutant of DiscardRaw: what was found is forgotten before it is pinned.
DiscardAndForget(j) ==
    /\ pc[j] = "discard"
    /\ raw' = raw \ {j}
    /\ found' = [found EXCEPT ![j] = NoArtifact]
    /\ Goto(j, IF call[j].kind = "seed" THEN "pinHeld" ELSE "done")
    /\ UNCHANGED <<call, order, held, pins, victims, released>>

\* The raw save of a held prefix is unlinked; an OSError is ignored.
DiscardRaw(j) ==
    /\ pc[j] = "discard"
    /\ raw' \in {raw, raw \ {j}}
    /\ Goto(j, IF call[j].kind = "seed" THEN "pinHeld" ELSE "done")
    /\ UNCHANGED <<call, order, held, pins, found, victims, released>>

\* The marker is written whether or not the artifact is still there.
PinHeld(j) ==
    /\ pc[j] = "pinHeld"
    /\ pins' = pins \cup {found[j]}
    /\ found' = [found EXCEPT ![j] = NoArtifact]
    /\ Goto(j, "done")
    /\ UNCHANGED <<call, raw, order, held, victims, released>>

\* AdmittedPath.admit: the object and its manifest are published.
Admit(j) ==
    /\ pc[j] = "admit"
    /\ order' = Append(order, j)
    /\ held' = held \cup {j}
    /\ IF call[j].kind = "prewarm"
       THEN Goto(j, "done") /\ released' = released \cup {j}
       ELSE Goto(j, "unlinkRaw") /\ UNCHANGED released
    /\ UNCHANGED <<call, raw, pins, found, victims>>

\* AdmittedPath.admit refuses, the store cannot be read, or a marker cannot be
\* written.  The capture loop then removes the raw save (an OSError is ignored);
\* the seed handler and the prewarm command leave theirs.
Refuse(j) ==
    /\ pc[j] \in {"list", "admit", "pinHeld", "pinNew", "scan"}
    /\ raw' \in IF call[j].kind = "capture" THEN {raw, raw \ {j}} ELSE {raw}
    /\ Goto(j, "refused")
    /\ released' = released \cup (Pending \cap {j})
    /\ UNCHANGED <<call, order, held, pins, found, victims>>

\* The raw save is now a duplicate; a failed unlink is only logged.
UnlinkRaw(j) ==
    /\ pc[j] = "unlinkRaw"
    /\ raw' \in {raw, raw \ {j}}
    /\ Goto(j, IF call[j].kind = "seed" THEN "pinNew" ELSE "scan")
    /\ UNCHANGED <<call, order, held, pins, found, victims, released>>

PinNew(j) ==
    /\ pc[j] = "pinNew"
    /\ pins' = pins \cup {j}
    /\ Goto(j, "scan")
    /\ UNCHANGED <<call, raw, order, held, found, victims, released>>

\* prune_model_artifacts lists, skips the pinned, ranks by mtime.
Scan(j) ==
    /\ pc[j] = "scan"
    /\ victims' = [victims EXCEPT ![j] = Excess(call[j].model)]
    /\ Goto(j, IF Excess(call[j].model) = {} THEN "done" ELSE "drop")
    /\ released' = {a \in released : call[a].model # call[j].model}
    /\ UNCHANGED <<call, raw, order, held, pins, found>>

\* The next victim, youngest first.
NextVictim(j, a) ==
    /\ pc[j] = "drop"
    /\ a \in victims[j]
    /\ \A b \in victims[j] \ {a} : Younger(a, b)
    /\ victims' = [victims EXCEPT ![j] = @ \ {a}]
    /\ Goto(j, IF victims[j] = {a} THEN "done" ELSE "drop")

\* It goes; if another thread unlinked it first, that is no error ...
Drop(j) ==
    /\ \E a \in victims[j] : NextVictim(j, a) /\ held' = held \ {a}
    /\ UNCHANGED <<call, raw, order, pins, found, released>>

\* ... nor if it cannot be unlinked: "a failed eviction is waste".
DropFails(j) ==
    /\ \E a \in victims[j] : NextVictim(j, a) /\ released' = released \cup {a}
    /\ UNCHANGED <<call, raw, order, held, pins, found>>

\* The process running a call dies; its threads die with it.  Prewarm is a
\* process of its own.
Crash ==
    \E prewarms \in BOOLEAN :
        LET lost == {j \in ActiveJobs : (call[j].kind = "prewarm") <=> prewarms} IN
        /\ lost # {}
        /\ pc' = [j \in Job |-> IF j \in lost THEN "dead" ELSE pc[j]]
        /\ released' = released \cup (Pending \cap lost) \cup
              UNION {victims[j] : j \in {j \in lost : pc[j] = "drop"}}
        /\ UNCHANGED <<call, raw, order, held, pins, found, victims>>

\* The pin command marks a listed artifact.
OperatorPin(a) ==
    /\ Cardinality(ActiveJobs) < MaxBusy
    /\ a \in held \ pins
    /\ pins' = pins \cup {a}
    /\ UNCHANGED <<pc, call, raw, order, held, found, victims, released>>

\* The unpin command removes a listed artifact's marker; nothing prunes.
OperatorUnpin(a) ==
    /\ Cardinality(ActiveJobs) < MaxBusy
    /\ a \in held \cap pins
    /\ pins' = pins \ {a}
    /\ released' = released \cup {a}
    /\ UNCHANGED <<pc, call, raw, order, held, found, victims>>

JobStep(j) ==
    \/ Saved(j) \/ FindHeld(j) \/ FindNothing(j) \/ DiscardRaw(j) \/ PinHeld(j)
    \/ Admit(j) \/ Refuse(j) \/ UnlinkRaw(j) \/ PinNew(j)
    \/ Scan(j) \/ Drop(j) \/ DropFails(j)

Next ==
    \/ \E j \in Job : JobStep(j) \/ OperatorPin(j) \/ OperatorUnpin(j)
    \/ Crash

Spec == Init /\ [][Next]_vars

-----------------------------------------------------------------------------
(* Properties *)

Admitted == {order[i] : i \in DOMAIN order}

\* Every variable has its type; markers are only ever put beside an artifact.
TypeOK ==
    /\ pc \in [Job -> {"idle", "done", "refused", "dead"} \cup Active]
    /\ call \in [Job -> Call]
    /\ raw \in SUBSET Job
    /\ order \in Seq(Job)
    /\ held \in SUBSET Admitted
    /\ pins \in SUBSET Admitted
    /\ found \in [Job -> Admitted \cup {NoArtifact}]
    /\ victims \in [Job -> SUBSET Admitted]
    /\ released \in SUBSET Admitted

\* What prunings in progress have still to unlink for a model.
Condemned(m) ==
    {a \in Admitted : \E j \in Job : /\ pc[j] = "drop"
                                     /\ call[j].model = m
                                     /\ a \in victims[j]}

\* "Bounded at the moment it grows" (capture.py:510-511), under concurrency too: a model
\* holds no more than Keep unpinned artifacts besides those a running pruning has still to
\* unlink, those whose own call has still to prune, and those that joined without one
\* (prewarmed, unpinned, not evictable, of a call refused or dead) since its last pruning
\* listed the store.  The next pruning of the model ends every such excuse.
StoreBounded ==
    \A m \in Model :
        Cardinality(Unpinned(m) \ (Pending \cup released \cup Condemned(m))) <= Keep

\* Whatever the interleaving of prunings, an artifact is only ever evicted when
\* at least Keep younger ones of its own model have been admitted: churn of one
\* model, or two prunings at once, never evict a recent one (capture.py:526-528).
EvictedWereOld ==
    \A i \in DOMAIN order : order[i] \notin held =>
        Cardinality({k \in (i + 1)..Len(order) :
                        call[order[k]].model = call[order[i]].model}) >= Keep

=============================================================================
