------------------------------- MODULE Sidecar -------------------------------
(***************************************************************************)
(* The request-time sidecar (kv_rosetta/daemon/server.py), for one model:  *)
(* handler threads that restore a prefix for an incoming prompt            *)
(* (restore_for_prompt, then ensure) or prefill, capture and pin one ahead *)
(* of its first use (seed).  They share the dictionaries _seeds,           *)
(* _recent_restores and _slot_last_used, which no lock guards, and the     *)
(* slots of LlamaServer.                                                   *)
(*                                                                         *)
(* Rendering, tokenizing and the longest common prefix are abstracted: a   *)
(* request is for the artifact its prompt matches best.  A reading of      *)
(* /slots and the choice made of it are one step; what is done about the   *)
(* choice comes later, step by step.                                       *)
(***************************************************************************)
EXTENDS RestorePath

CONSTANTS
    NoSlot,
    MaxCalls        \* bound: requests each handler thread serves

ASSUME SidecarAssumption ==
    Slot \subseteq Nat /\ NoSlot \notin Slot /\ MaxCalls \in Nat

VARIABLES
    hpc,        \* where each handler is in its request
    route,      \* which request it is: restore-for-prompt or seed
    calls,      \* requests so far
    seeds,      \* _seeds: the handler whose seed is in flight
    yielded,    \* the entries asked to yield
    recent,     \* _recent_restores: the slot each artifact was restored into
    lastUsed    \* _slot_last_used: slots, least recently restored into first

shared == <<seeds, yielded, recent, lastUsed>>
handlerVars == <<hpc, route, calls, shared>>
sidecarVars == <<vars, handlerVars>>

-----------------------------------------------------------------------------
Before(c, label, next) == hpc[c] = label /\ hpc' = [hpc EXCEPT ![c] = next]

\* The request is answered.
Answer(c) == hpc' = [hpc EXCEPT ![c] = "idle"]

\* A request that names no slot, and changes nothing but that the model is loaded.
Ask ==
    /\ Touch
    /\ UNCHANGED <<content, busy, queue, reply, quality, held, saved, turns,
                   unloads, owner>>

\* min by (last use, id): a slot never used comes before any that was.
Rank(s) ==
    IF \E i \in DOMAIN lastUsed : lastUsed[i] = s
    THEN CHOOSE i \in DOMAIN lastUsed : lastUsed[i] = s
    ELSE 0

\* The slot restored into now is the last to be chosen again.
MoveToEnd(s) ==
    Append(SubSeq(lastUsed, 1, Rank(s) - 1)
               \o SubSeq(lastUsed, Rank(s) + 1, Len(lastUsed)), s)

NotAfter(s, o) == Rank(s) < Rank(o) \/ (Rank(s) = Rank(o) /\ s <= o)

IdleSlots == {s \in Slot : ~Processing(s)}
EmptySlots == {s \in IdleSlots : content[s].n = 0}

\* restore_for_prompt(): an empty slot if any, else the least recently used.
ToRestore ==
    LET pool == IF EmptySlots # {} THEN EmptySlots ELSE IdleSlots IN
    {s \in pool : \A o \in pool : NotAfter(s, o)}

\* seed(): the slot with the fewest tokens to lose, then the least recently used.
ToSeed ==
    {s \in IdleSlots : \A o \in IdleSlots :
        \/ content[s].n < content[o].n
        \/ content[s].n = content[o].n /\ NotAfter(s, o)}

\* The slot remembered for an artifact is processing, or holds as many tokens.
StillThere(a) ==
    /\ recent[a] # NoSlot
    /\ Processing(recent[a]) \/ content[recent[a]].n >= Size[a]

-----------------------------------------------------------------------------
SidecarInit ==
    /\ ServerInit
    /\ PathInit
    /\ target = [c \in Client |-> CHOOSE s \in Slot : TRUE]
    /\ art = [c \in Client |-> CHOOSE a \in Artifact : TRUE]
    /\ hpc = [c \in Client |-> "idle"]
    /\ route = [c \in Client |-> "restore"]
    /\ calls = [c \in Client |-> 0]
    /\ seeds = NoOne
    /\ yielded = {}
    /\ recent = [a \in Artifact |-> NoSlot]
    /\ lastUsed = <<>>

Arrive(c) ==
    /\ Before(c, "idle", "gate")
    /\ calls[c] < MaxCalls
    /\ calls' = [calls EXCEPT ![c] = @ + 1]
    /\ \E r \in {"restore", "seed"} : route' = [route EXCEPT ![c] = r]
    /\ \E a \in Artifact : art' = [art EXCEPT ![c] = a]
    /\ gone' = [gone EXCEPT ![c] = FALSE]
    /\ UNCHANGED <<serverVars, pc, target, shared>>

CallerLeaves(c) ==
    /\ hpc[c] # "idle" /\ route[c] = "restore"
    /\ ~gone[c]
    /\ gone' = [gone EXCEPT ![c] = TRUE]
    /\ UNCHANGED <<serverVars, pc, target, art, handlerVars>>

\* An entry of _recent_restores is older than RECENT_RESTORE_S.
Expire(a) ==
    /\ recent[a] # NoSlot
    /\ recent' = [recent EXCEPT ![a] = NoSlot]
    /\ UNCHANGED <<vars, hpc, route, calls, seeds, yielded, lastUsed>>

\* Handler c takes the answer r to its last request.
Heard(c, r) ==
    /\ reply[c] = r
    /\ reply' = [reply EXCEPT ![c] = "none"]
    /\ UNCHANGED <<loaded, content, busy, queue, quality, held, saved, turns,
                   unloads, owner>>

\* Nothing but the handler's place changes.
Only == UNCHANGED <<pathVars, route, calls, shared>>

-----------------------------------------------------------------------------
(* upstream_base(), the render and the scan, which both requests begin with *)

\* require_loaded(): /running reports the model.
Gate(c) ==
    /\ Before(c, "gate", "render")
    /\ loaded
    /\ UNCHANGED serverVars /\ Only

\* It does not, or cannot be read.
GateRefuses(c) ==
    /\ hpc[c] = "gate" /\ Answer(c)
    /\ UNCHANGED serverVars /\ Only

Render(c) == Before(c, "render", "scan") /\ Ask /\ Only

\* /apply-template, /tokenize or /slots is not answered.
AskFails(c) ==
    /\ hpc[c] \in {"render", "slots", "seedSlots", "reread"}
    /\ Answer(c)
    /\ Ask /\ Only

\* The store is scanned: a restore needs a match, a seed needs none.
Scan(c) ==
    /\ hpc[c] = "scan"
    /\ hpc' = [hpc EXCEPT ![c] =
            CASE route[c] = "restore" /\ art[c] \in held -> "yield"
              [] route[c] = "seed" /\ art[c] \notin held -> "seedSlots"
              [] OTHER -> "idle"]
    /\ UNCHANGED serverVars /\ Only

-----------------------------------------------------------------------------
(* restore_for_prompt() *)

NothingToYield(c) ==
    /\ Before(c, "yield", "slots")
    /\ seeds = NoOne
    /\ UNCHANGED serverVars /\ Only

\* A seed in flight is marked and its connection dropped, if it has one; its slot
\* is the one to wait for.
MakeYield(c) ==
    /\ Before(c, "yield", "wait")
    /\ seeds # NoOne
    /\ target' = [target EXCEPT ![c] = target[seeds]]
    /\ yielded' = yielded \cup {seeds}
    /\ IF hpc[seeds] = "prefilling" /\ reply[seeds] = "waiting"
       THEN Abandon(seeds)
       ELSE UNCHANGED serverVars
    /\ UNCHANGED <<pc, art, gone, route, calls, seeds, recent, lastUsed>>

\* The seed's slot has come free ...
SeedLeft(c) ==
    /\ Before(c, "wait", "slots")
    /\ ~Processing(target[c])
    /\ Ask /\ Only

\* Mutant of SeedStays: the wait has no deadline.
SeedAwaited(c) ==
    /\ hpc[c] = "wait"
    /\ Processing(target[c])
    /\ UNCHANGED sidecarVars

\* ... or has not within SEED_YIELD_WAIT_S: "busy: seeding".
SeedStays(c) ==
    /\ hpc[c] = "wait" /\ Answer(c)
    /\ Processing(target[c])
    /\ Ask /\ Only

\* ... or cannot be read.
WaitFails(c) ==
    /\ hpc[c] = "wait" /\ Answer(c)
    /\ Ask /\ Only

\* Restored for this prefix moments ago: reported as already done.
AnswerAlready(c) ==
    /\ hpc[c] = "slots" /\ Answer(c)
    /\ StillThere(art[c])
    /\ Ask /\ Only

AllBusy(c) ==
    /\ hpc[c] \in {"slots", "seedSlots"} /\ Answer(c)
    /\ IdleSlots = {}
    /\ Ask /\ Only

ChooseSlot(c) ==
    /\ Before(c, "slots", "ensure")
    /\ ~StillThere(art[c])
    /\ \E s \in ToRestore : target' = [target EXCEPT ![c] = s]
    /\ Ask
    /\ UNCHANGED <<pc, art, gone, route, calls, shared>>

\* The caller is gone, the model is, or the artifact, or what it requires.
Fall(c) ==
    /\ hpc[c] \in {"ensure", "check"} /\ Answer(c)
    /\ hpc[c] = "check" \/ gone[c] \/ ~loaded
    /\ IF hpc[c] = "check" /\ art[c] \in held THEN Ask ELSE UNCHANGED serverVars
    /\ Only

Ensure(c) ==
    /\ Before(c, "ensure", "check")
    /\ ~gone[c] /\ loaded
    /\ UNCHANGED serverVars /\ Only

\* The artifact is still held and the runtime can take it: restore() is called.
StartRestore(c) ==
    /\ Before(c, "check", "restoring")
    /\ art[c] \in held
    /\ Ask
    /\ Goto(c, "resolve")
    /\ UNCHANGED <<target, art, gone, route, calls, shared>>

\* Restored: the slot and the prefix are remembered, then the verdict is sent.
RecordRestore(c) ==
    /\ Before(c, "restoring", "idle")
    /\ pc[c] = "ok"
    /\ Goto(c, "idle")
    /\ lastUsed' = MoveToEnd(target[c])
    /\ recent' = [recent EXCEPT ![art[c]] = target[c]]
    /\ UNCHANGED <<serverVars, target, art, gone, route, calls, seeds,
                   yielded>>

\* Mutant of Refused: the call that was refused is left pending.
RefusedLeftPending(c) ==
    /\ Before(c, "restoring", "idle")
    /\ pc[c] \in Ended \ {"ok"}
    /\ UNCHANGED <<vars, route, calls, shared>>

Refused(c) ==
    /\ Before(c, "restoring", "idle")
    /\ pc[c] \in Ended \ {"ok"}
    /\ Goto(c, "idle")
    /\ UNCHANGED <<serverVars, target, art, gone, route, calls, shared>>

-----------------------------------------------------------------------------
(* seed() *)

ChooseSeedSlot(c) ==
    /\ Before(c, "seedSlots", "claim")
    /\ \E s \in ToSeed : target' = [target EXCEPT ![c] = s]
    /\ Ask
    /\ UNCHANGED <<pc, art, gone, route, calls, shared>>

\* "a seed is already running": checked here, entered a step later.
SeedRuns(c) ==
    /\ hpc[c] = "claim" /\ Answer(c)
    /\ seeds # NoOne
    /\ UNCHANGED serverVars /\ Only

NoSeedRuns(c) ==
    /\ Before(c, "claim", "register")
    /\ seeds = NoOne
    /\ UNCHANGED serverVars /\ Only

Register(c) ==
    /\ Before(c, "register", "post")
    /\ seeds' = c
    /\ yielded' = yielded \ {c}
    /\ UNCHANGED <<vars, route, calls, recent, lastUsed>>

PostPrefill(c) ==
    /\ Before(c, "post", "prefilling")
    /\ Post(c, target[c], "prefill", art[c])
    /\ Only

\* However the prefill ends, the model's entry goes, whoever's it is.
PrefillDone(c) ==
    /\ Before(c, "prefilling", "reread")
    /\ Heard(c, "done")
    /\ seeds' = NoOne
    /\ UNCHANGED <<pathVars, route, calls, yielded, recent, lastUsed>>

\* Mutant of PrefillFails: the entry is removed only after a success.
PrefillFailsKept(c) ==
    /\ Before(c, "prefilling", "idle")
    /\ Heard(c, "error")
    /\ UNCHANGED <<pathVars, route, calls, shared>>

PrefillFails(c) ==
    /\ Before(c, "prefilling", "idle")
    /\ Heard(c, "error")
    /\ seeds' = NoOne
    /\ UNCHANGED <<pathVars, route, calls, yielded, recent, lastUsed>>

\* The slot must hold as many tokens as were rendered.
SlotHolds(c) ==
    /\ Before(c, "reread", "save")
    /\ content[target[c]].n >= Size[art[c]]
    /\ Ask /\ Only

SlotLacks(c) ==
    /\ hpc[c] = "reread" /\ Answer(c)
    /\ content[target[c]].n < Size[art[c]]
    /\ Ask /\ Only

PostSeedSave(c) ==
    /\ Before(c, "save", "saving")
    /\ Post(c, target[c], "save", NoOne)
    /\ Only

SeedSaved(c) ==
    /\ Before(c, "saving", "admit")
    /\ Heard(c, "done")
    /\ Only

SeedSaveFails(c) ==
    /\ Before(c, "saving", "idle")
    /\ Heard(c, "error")
    /\ Only

\* The admitter holds what the slot held, whatever was asked for.
SeedAdmit(c) ==
    /\ Before(c, "admit", "idle")
    /\ Touch
    /\ held' = held \cup ({saved[c].of} \ {NoOne})
    /\ lastUsed' = MoveToEnd(target[c])
    /\ UNCHANGED <<content, busy, queue, reply, quality, saved, turns, unloads,
                   owner, pathVars, route, calls, seeds, yielded, recent>>

SeedAdmitFails(c) == hpc[c] = "admit" /\ Answer(c) /\ Ask /\ Only

-----------------------------------------------------------------------------
HandlerStep(c) ==
    \/ Gate(c) \/ GateRefuses(c) \/ Render(c) \/ AskFails(c) \/ Scan(c)
    \/ NothingToYield(c) \/ MakeYield(c) \/ SeedLeft(c) \/ SeedStays(c)
    \/ AnswerAlready(c) \/ AllBusy(c) \/ ChooseSlot(c)
    \/ Fall(c) \/ Ensure(c) \/ StartRestore(c) \/ RecordRestore(c) \/ Refused(c)
    \/ ChooseSeedSlot(c) \/ SeedRuns(c) \/ NoSeedRuns(c) \/ Register(c)
    \/ PostPrefill(c) \/ PrefillDone(c) \/ PrefillFails(c)
    \/ SlotHolds(c) \/ SlotLacks(c) \/ PostSeedSave(c)
    \/ SeedSaved(c) \/ SeedSaveFails(c) \/ SeedAdmit(c) \/ SeedAdmitFails(c)
    \/ (PathStep(c) \/ TimeOut(c)) /\ UNCHANGED handlerVars

SidecarNext ==
    \/ \E c \in Client :
            Arrive(c) \/ CallerLeaves(c) \/ HandlerStep(c) \/ WaitFails(c)
    \/ \E a \in Artifact : Expire(a)
    \/ ServerStep /\ UNCHANGED <<pathVars, handlerVars>>

\* A handler's thread keeps running, and its timeouts fire.
SidecarSpec ==
    SidecarInit /\ [][SidecarNext]_sidecarVars
                /\ \A c \in Client : WF_sidecarVars(HandlerStep(c))

-----------------------------------------------------------------------------
(* Properties *)

\* Every variable has its type; a call of restore() is pending exactly while its
\* handler waits for it, and a slot has one place in the order of use.
SidecarTypeOK ==
    /\ TypeOK
    /\ hpc \in [Client -> {"idle", "gate", "render", "scan", "yield", "wait", "slots",
                           "ensure", "check", "restoring", "seedSlots", "claim",
                           "register", "post", "prefilling", "reread", "save",
                           "saving", "admit"}]
    /\ \A c \in Client : hpc[c] = "restoring" <=> pc[c] # "idle"
    /\ route \in [Client -> {"restore", "seed"}]
    /\ calls \in [Client -> 0..MaxCalls]
    /\ seeds \in Client \cup {NoOne}
    /\ yielded \in SUBSET Client
    /\ recent \in [Artifact -> Slot \cup {NoSlot}]
    /\ lastUsed \in Seq(Slot)
    /\ \A i, k \in DOMAIN lastUsed : lastUsed[i] = lastUsed[k] => i = k

\* An entry of _seeds never outlives its seed's prefill, although two seeds may
\* both enter and each removes whichever entry it finds (lines 548-566): a stale
\* entry would refuse every later seed and delay every later restore.
SeedEntryIsLive == seeds # NoOne => hpc[seeds] \in {"post", "prefilling"}

\* Every request is answered, whatever the server, live turns, a seed asked to
\* yield and the caller do (line 325: "a miss is an answer").
EveryCallAnswered == \A c \in Client : hpc[c] = "gate" ~> hpc[c] = "idle"

\* A seed asked to yield is not waiting for its prefill: "a live restore pre-empts
\* a background seed on the same runtime" (line 78).
YieldedSeedStops ==
    \A c \in yielded : ~(hpc[c] = "prefilling" /\ reply[c] = "waiting")

=============================================================================
