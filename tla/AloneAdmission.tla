---------------------------- MODULE AloneAdmission ----------------------------
(***************************************************************************)
(* AdmittedStore, and what an admission that nothing overlaps comes to.    *)
(* The variable alone is history: the calls of admit() in progress that no *)
(* other admission and no eviction has overlapped.                         *)
(***************************************************************************)
EXTENDS AdmittedStore

VARIABLE alone

OnlyOne(j) == ActiveJobs = {j} /\ Evicting = {}

AloneInit == Init /\ alone = {}

AloneNext ==
    /\ Next
    /\ alone' = {j \in Job : OnlyOne(j)' /\ (j \in alone \/ pc[j] = "idle")}

AloneSpec == AloneInit /\ [][AloneNext]_<<vars, alone>>

\* The step by which an admission that nothing overlapped returns leaves its
\* digest resolvable, unless the object was changed from outside since its facts
\* were pinned: whatever earlier calls left behind that overlapped each other,
\* failed, died or were evicted half-way, a stale staging file among it.  It is
\* what AdmittedObject says of itself (admitted_store.py:67): it "still
\* satisfies its pinned facts".
AdmittedAloneIsResolvable ==
    [][\A j \in alone :
          /\ pc[j] = "install" /\ pc'[j] = "admitted"
          /\ stamp[facts[j].file] = facts[j].stamp
          => Resolvable(req[j].digest)']_<<vars, alone>>

=============================================================================
