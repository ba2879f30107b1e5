----------------------------- MODULE RestorePath -----------------------------
(***************************************************************************)
(* AdmittedPath.restore (kv_rosetta/adapters/admitted_path.py): an admitted*)
(* state is put into a slot, its reuse is probed, and the slot is left     *)
(* holding exactly the prefix - or the restore is refused and the slot     *)
(* erased.  Each of its HTTP calls is a request to LlamaServer and a wait  *)
(* for the answer, so live turns, other clients and unloads fall between.  *)
(*                                                                         *)
(* How a call can end: "ok"; "refused", with the slot erased if it was     *)
(* written; "unclean", refused although the erase itself failed;           *)
(* "abandoned", refused unverified because the caller hung up; "raised",   *)
(* an AdapterError of the restore or of the probe that nothing catches.    *)
(***************************************************************************)
EXTENDS LlamaServer

VARIABLES
    pc,         \* where each client is in restore()
    target,     \* the slot it restores into
    art,        \* the artifact it restores
    gone        \* its caller has hung up (cancelled() is true)

pathVars == <<pc, target, art, gone>>
vars == <<serverVars, pathVars>>

Waiting == {"restoring", "probing", "clearing", "repeating", "erasing"}
Active == {"resolve", "restore", "verify", "settle"} \cup Waiting
Ended == {"ok", "refused", "unclean", "abandoned", "raised"}

Goto(c, label) == pc' = [pc EXCEPT ![c] = label]

Stay == UNCHANGED <<target, art, gone>>

\* Client c, having its answer, goes on to post op for its slot.
ThenPost(c, op, label) ==
    /\ Post(c, target[c], op, IF op = "erase" THEN NoOne ELSE art[c])
    /\ Goto(c, label)
    /\ Stay

\* Client c, having its answer, returns.
Return(c, ending) ==
    /\ Goto(c, ending)
    /\ reply' = [reply EXCEPT ![c] = "none"]
    /\ Stay
    /\ UNCHANGED <<loaded, content, busy, queue, quality, held, saved, turns,
                   unloads, owner>>

-----------------------------------------------------------------------------
PathInit ==
    /\ pc = [c \in Client |-> "idle"]
    /\ target \in [Client -> Slot]
    /\ art \in [Client -> Artifact]
    /\ gone = [c \in Client |-> FALSE]

\* restore(digest, slot) is called.
Call(c, s, a) ==
    /\ pc[c] = "idle"
    /\ target' = [target EXCEPT ![c] = s]
    /\ art' = [art EXCEPT ![c] = a]
    /\ gone' = [gone EXCEPT ![c] = FALSE]
    /\ Goto(c, "resolve")
    /\ UNCHANGED serverVars

HangUp(c) ==
    /\ pc[c] \in Active
    /\ ~gone[c]
    /\ gone' = [gone EXCEPT ![c] = TRUE]
    /\ UNCHANGED <<serverVars, pc, target, art>>

\* Support, store, ABI, prompt and model identity all agree ...
Resolve(c) ==
    /\ pc[c] = "resolve"
    /\ art[c] \in held
    /\ Touch
    /\ Goto(c, "restore")
    /\ Stay
    /\ UNCHANGED <<content, busy, queue, reply, quality, held, saved, turns,
                   unloads, owner>>

\* ... or one of them does not, or the runtime's part cannot be read, which is
\* an AdapterError.
RefuseIdentity(c) ==
    /\ pc[c] = "resolve"
    /\ Touch
    /\ \E ending \in {"refused", "raised"} : Goto(c, ending)
    /\ Stay
    /\ UNCHANGED <<content, busy, queue, reply, quality, held, saved, turns,
                   unloads, owner>>

PostRestore(c) == pc[c] = "restore" /\ ThenPost(c, "restore", "restoring")

\* Client c, waiting at label, has the answer r.
Answered(c, label, r) == pc[c] = label /\ reply[c] = r

\* The restore answers with the admitted metadata, with other metadata, or not.
RestoreMatches(c) == Answered(c, "restoring", "done") /\ Return(c, "verify")

RestoreDiffers(c) ==
    Answered(c, "restoring", "mismatch") /\ ThenPost(c, "erase", "erasing")

RestoreRaises(c) == Answered(c, "restoring", "error") /\ Return(c, "raised")

\* cancelled() before the probe: refused, the slot left as it is.
StopBeforeProbe(c) == pc[c] = "verify" /\ gone[c] /\ Return(c, "abandoned")

PostProbe(c) == pc[c] = "verify" /\ ~gone[c] /\ ThenPost(c, "probe", "probing")

\* Mutant of ProbeCovers: the coverage the probe reports is not compared.
ProbeCoversAny(c) ==
    /\ Answered(c, "probing", "covered") \/ Answered(c, "probing", "short")
    /\ Return(c, "settle")

\* cache_n equals the declared coverage and the tail contract holds.
ProbeCovers(c) == Answered(c, "probing", "covered") /\ Return(c, "settle")

\* Mutant of ProbeFails: the state that failed its probe stays in the slot.
ProbeFailsKept(c) == Answered(c, "probing", "short") /\ Return(c, "refused")

ProbeFails(c) ==
    Answered(c, "probing", "short") /\ ThenPost(c, "erase", "erasing")

ProbeRaises(c) == Answered(c, "probing", "error") /\ Return(c, "raised")

\* cancelled() after the probe: verified, and the probe's token stays.
SkipPristine(c) == pc[c] = "settle" /\ gone[c] /\ Return(c, "ok")

PostClear(c) == pc[c] = "settle" /\ ~gone[c] /\ ThenPost(c, "erase", "clearing")

PostPristine(c) ==
    Answered(c, "clearing", "done") /\ ThenPost(c, "pristine", "repeating")

\* The metadata of the second restore is not compared again.
PristineDone(c) ==
    /\ \/ Answered(c, "repeating", "done")
       \/ Answered(c, "repeating", "mismatch")
    /\ Return(c, "ok")

\* Mutant of PristineFails: the clear and the second restore are tried again.
PristineRetried(c) ==
    /\ \/ Answered(c, "clearing", "error")
       \/ Answered(c, "repeating", "error")
    /\ ThenPost(c, "erase", "clearing")

PristineFails(c) ==
    /\ \/ Answered(c, "clearing", "error")
       \/ Answered(c, "repeating", "error")
    /\ ThenPost(c, "erase", "erasing")

\* _erase() swallows its own AdapterError.
Erased(c) == Answered(c, "erasing", "done") /\ Return(c, "refused")
EraseFails(c) == Answered(c, "erasing", "error") /\ Return(c, "unclean")

PathStep(c) ==
    \/ Resolve(c) \/ RefuseIdentity(c) \/ PostRestore(c)
    \/ RestoreMatches(c) \/ RestoreDiffers(c) \/ RestoreRaises(c)
    \/ StopBeforeProbe(c) \/ PostProbe(c)
    \/ ProbeCovers(c) \/ ProbeFails(c) \/ ProbeRaises(c)
    \/ SkipPristine(c) \/ PostClear(c) \/ PostPristine(c)
    \/ PristineDone(c) \/ PristineFails(c)
    \/ Erased(c) \/ EraseFails(c)

\* Every wait is bounded by the client's socket timeout (_TIMEOUT).
TimeOut(c) == Abandon(c) /\ UNCHANGED pathVars

Init == ServerInit /\ PathInit

Next ==
    \/ \E c \in Client : PathStep(c) \/ TimeOut(c) \/ HangUp(c)
    \/ \E c \in Client, s \in Slot, a \in Artifact : Call(c, s, a)
    \/ ServerStep /\ UNCHANGED pathVars

\* A client's thread keeps running, and its socket timeout fires.
Fairness == \A c \in Client : WF_vars(PathStep(c)) /\ WF_vars(TimeOut(c))

Spec == Init /\ [][Next]_vars /\ Fairness

-----------------------------------------------------------------------------
(* Properties *)

\* Every variable has its type.
TypeOK ==
    /\ ServerTypeOK
    /\ pc \in [Client -> {"idle"} \cup Active \cup Ended]
    /\ target \in [Client -> Slot]
    /\ art \in [Client -> Artifact]
    /\ gone \in [Client -> BOOLEAN]

\* restore() reports ok only for a state the runtime really reuses, and leaves
\* exactly the prefix in the slot, or the prefix and the probe's token when its
\* caller has hung up - as long as nobody else wrote the slot meanwhile.
OkIsVerified ==
    \A c \in Client : pc[c] = "ok" /\ owner[target[c]] = c =>
        /\ quality[art[c]] = "good"
        /\ content[target[c]] \in {Restored(art[c]), Probed(art[c])}
        /\ ~gone[c] => content[target[c]] = Restored(art[c])

\* A refused restore leaves nothing unverified behind: unless its caller hung
\* up before the probe, or the erase itself failed, the slot it wrote is empty.
RefusedIsErased ==
    \A c \in Client : pc[c] = "refused" /\ owner[target[c]] = c =>
        content[target[c]] = Empty

\* Once called, restore() returns, whatever the server, the other clients and
\* its own caller do.
EveryRestoreReturns ==
    \A c \in Client : pc[c] = "resolve" ~> pc[c] \in Ended

=============================================================================
