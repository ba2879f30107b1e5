----------------------------- MODULE CaptureLoop -----------------------------
(***************************************************************************)
(* The capture thread (CaptureLoop in kv_rosetta/daemon/capture.py, with   *)
(* its restorer and admitter closures in cli.py), for one model: it reads  *)
(* which models run and what their slots hold, puts an attachment back     *)
(* into an idle empty slot, and saves and admits the slots worth keeping.  *)
(* It acts on one reading of the slots for a whole tick, while live turns  *)
(* and unloads go on in LlamaServer.                                       *)
(*                                                                         *)
(* What the thread knows of a slot is whether it is processing and how     *)
(* many tokens it holds; the token sequence itself, carried along here, is *)
(* read only by the properties.                                            *)
(***************************************************************************)
EXTENDS RestorePath

CONSTANTS
    Loop,       \* the capture thread, one of the clients
    MinTokens,  \* min_tokens
    MaxRestarts \* bound: restarts of the daemon

ASSUME LoopAssumption ==
    /\ Loop \in Client
    /\ Slot \subseteq Nat /\ Slot # {} /\ Artifact # {}
    /\ MinTokens \in Nat \ {0} /\ MaxRestarts \in Nat

VARIABLES
    lpc,        \* where the thread is in its tick
    snap,       \* this tick's reading of the slots' contents
    sbusy,      \* and which of them were processing
    todo,       \* candidate slots still to be captured in this tick
    cand,       \* the candidate being saved
    seen,       \* _seen: token counts not to be captured again
    warmed,     \* _warmed: slots the thread has restored into
    refusedFor, \* _restore_refused_for: slots whose restore was refused
    captured,   \* _captured_on_slot: tokens last captured from each slot
    mine,       \* history: slots whose last restore by the thread was reported ok
    restarts    \* restarts so far

memory == <<seen, warmed, refusedFor, captured, mine, restarts>>
reading == <<snap, sbusy>>
loopOnly == <<lpc, reading, todo, cand, memory>>
loopVars == <<vars, loopOnly>>

-----------------------------------------------------------------------------
LoopGoto(label) == lpc' = label

\* restorable(): the first slot that was idle and empty, if there is one.
Vacant == {s \in Slot : ~sbusy[s] /\ snap[s].n = 0}
First == {s \in Vacant : \A o \in Vacant : s <= o}

\* Where to restore: not where it was done or refused before.
Fresh == First \ (warmed \cup refusedFor)

\* choose_candidates(): idle, big enough, and of a token count not yet seen.
Candidates ==
    {s \in Slot : ~sbusy[s] /\ snap[s].n >= MinTokens /\ snap[s].n \notin seen}

\* Biggest first.
Biggest == {s \in todo : \A o \in todo : snap[o].n <= snap[s].n}

\* worth_capturing(): shrunk below a half, or grown by a fifth.
Worth(tokens, previous) ==
    \/ previous = 0
    \/ 2 * tokens < previous
    \/ 5 * tokens >= 6 * previous

\* The count of slot s, as it was read, is not to be captured again.
Account(s) == seen' = seen \cup {snap[s].n}

-----------------------------------------------------------------------------
LoopInit ==
    /\ ServerInit
    /\ PathInit
    /\ target[Loop] = CHOOSE s \in Slot : TRUE
    /\ art[Loop] = CHOOSE a \in Artifact : TRUE
    /\ lpc = "sleep"
    /\ snap = [s \in Slot |-> Empty]
    /\ sbusy = [s \in Slot |-> FALSE]
    /\ todo = {}
    /\ cand = CHOOSE s \in Slot : TRUE
    /\ seen = {}
    /\ warmed = {}
    /\ refusedFor = {}
    /\ captured = [s \in Slot |-> 0]
    /\ mine = {}
    /\ restarts = 0

\* /running reports the model as ready; otherwise the tick passes it over.
ReadRunning ==
    /\ lpc = "sleep"
    /\ loaded
    /\ LoopGoto("slots")
    /\ UNCHANGED <<vars, reading, todo, cand, memory>>

\* /upstream/<model>/slots is read; slots that hold something are no longer
\* counted as warmed.
ReadSlots ==
    /\ lpc = "slots"
    /\ Touch
    /\ snap' = content
    /\ sbusy' = [s \in Slot |-> Processing(s)]
    /\ warmed' = {s \in warmed : content[s].n = 0}
    /\ LoopGoto("fresh")
    /\ UNCHANGED <<content, busy, queue, reply, quality, held, saved, turns,
                   unloads, owner, pathVars, todo, cand, seen, refusedFor,
                   captured, mine, restarts>>

\* The slots cannot be read: this model has nothing to offer in this tick.
ReadFails ==
    /\ lpc = "slots"
    /\ LoopGoto("sleep")
    /\ UNCHANGED <<vars, reading, todo, cand, memory>>

-----------------------------------------------------------------------------
(* restore_fresh() *)

NothingToRestore ==
    /\ lpc = "fresh"
    /\ Fresh = {} \/ held = {}
    /\ LoopGoto("choose")
    /\ UNCHANGED <<vars, reading, todo, cand, memory>>

\* The ranking picks some held artifact; the model is still there.
RestoreFresh ==
    /\ lpc = "fresh"
    /\ loaded
    /\ \E s \in Fresh, a \in held : Call(Loop, s, a)
    /\ mine' = mine \ Fresh
    /\ LoopGoto("restoring")
    /\ UNCHANGED <<reading, todo, cand, seen, warmed, refusedFor, captured,
                   restarts>>

\* ensure() falls back before it restores anything.
FallBack ==
    /\ lpc = "fresh"
    /\ Fresh # {} /\ held # {}
    /\ refusedFor' = refusedFor \cup Fresh
    /\ LoopGoto("choose")
    /\ UNCHANGED <<vars, reading, todo, cand, seen, warmed, captured, mine,
                   restarts>>

\* Mutant of RestoreReturns: the count of what was restored is not remembered.
RestoreForgotten ==
    LET s == target[Loop] IN
    /\ lpc = "restoring"
    /\ pc[Loop] = "ok"
    /\ Goto(Loop, "idle")
    /\ warmed' = warmed \cup {s}
    /\ mine' = mine \cup {s}
    /\ LoopGoto("choose")
    /\ UNCHANGED <<serverVars, target, art, gone, reading, todo, cand, seen,
                   refusedFor, captured, restarts>>

\* What was restored is already an artifact: its count is not captured again.
RestoreReturns ==
    LET s == target[Loop] IN
    /\ lpc = "restoring"
    /\ pc[Loop] = "ok"
    /\ Goto(Loop, "idle")
    /\ warmed' = warmed \cup {s}
    /\ seen' = seen \cup {Size[art[Loop]]}
    /\ mine' = mine \cup {s}
    /\ LoopGoto("choose")
    /\ UNCHANGED <<serverVars, target, art, gone, reading, todo, cand,
                   refusedFor, captured, restarts>>

\* Mutant of RestoreRefused: the call that was refused is left pending.
RestoreLeftPending ==
    /\ lpc = "restoring"
    /\ pc[Loop] \in Ended \ {"ok"}
    /\ refusedFor' = refusedFor \cup {target[Loop]}
    /\ LoopGoto("choose")
    /\ UNCHANGED <<vars, reading, todo, cand, seen, warmed, captured, mine,
                   restarts>>

RestoreRefused ==
    /\ lpc = "restoring"
    /\ pc[Loop] \in Ended \ {"ok"}
    /\ Goto(Loop, "idle")
    /\ refusedFor' = refusedFor \cup {target[Loop]}
    /\ LoopGoto("choose")
    /\ UNCHANGED <<serverVars, target, art, gone, reading, todo, cand, seen,
                   warmed, captured, mine, restarts>>

-----------------------------------------------------------------------------
(* the capture half of tick() *)

Choose ==
    /\ lpc = "choose"
    /\ todo' = Candidates
    /\ LoopGoto("capture")
    /\ UNCHANGED <<vars, reading, cand, memory>>

SkipSmallGrowth ==
    /\ lpc = "capture"
    /\ \E s \in Biggest :
         /\ ~Worth(snap[s].n, captured[s])
         /\ Account(s)
         /\ todo' = todo \ {s}
    /\ UNCHANGED <<vars, lpc, reading, cand, warmed, refusedFor, captured,
                   mine, restarts>>

PostSave ==
    /\ lpc = "capture"
    /\ \E s \in Biggest :
         /\ Worth(snap[s].n, captured[s])
         /\ Post(Loop, s, "save", NoOne)
         /\ cand' = s
         /\ todo' = todo \ {s}
    /\ LoopGoto("saving")
    /\ UNCHANGED <<pathVars, reading, memory>>

\* Mutant of SaveParked: a save is waited for as long as its slot generates.
SaveUnbounded ==
    /\ lpc = "saving"
    /\ ~busy[cand]
    /\ Abandon(Loop)
    /\ Account(cand)
    /\ LoopGoto("capture")
    /\ UNCHANGED <<pathVars, reading, todo, cand, warmed, refusedFor, captured,
                   mine, restarts>>

\* No answer within SLOT_SAVE_TIMEOUT_S: the save is parked, and not retried.
SaveParked ==
    /\ lpc = "saving"
    /\ Abandon(Loop)
    /\ Account(cand)
    /\ LoopGoto("capture")
    /\ UNCHANGED <<pathVars, reading, todo, cand, warmed, refusedFor, captured,
                   mine, restarts>>

SaveRefused ==
    /\ lpc = "saving"
    /\ reply[Loop] = "error"
    /\ LoopGoto("capture")
    /\ UNCHANGED <<vars, reading, todo, cand, memory>>

SaveDone ==
    /\ lpc = "saving"
    /\ reply[Loop] = "done"
    /\ Account(cand)
    /\ captured' = [captured EXCEPT ![cand] = snap[cand].n]
    /\ LoopGoto("admit")
    /\ UNCHANGED <<vars, reading, todo, cand, warmed, refusedFor, mine,
                   restarts>>

\* The admitter: the saved tokens are those of a held artifact ...
AdmitHeld ==
    /\ lpc = "admit"
    /\ saved[Loop].kind \in {"prefix", "live"} /\ saved[Loop].of \in held
    /\ refusedFor' = {}
    /\ LoopGoto("capture")
    /\ UNCHANGED <<vars, reading, todo, cand, seen, warmed, captured, mine,
                   restarts>>

\* ... or they become one (an artifact of a probed slot's tokens, or of a prompt
\* cut short, is not among those followed here) ...
AdmitNew ==
    /\ lpc = "admit"
    /\ saved[Loop].kind = "live" /\ saved[Loop].of \in Artifact \ held
    /\ Touch
    /\ held' = held \cup {saved[Loop].of}
    /\ refusedFor' = {}
    /\ LoopGoto("capture")
    /\ UNCHANGED <<content, busy, queue, reply, quality, saved, turns, unloads,
                   owner, pathVars, reading, todo, cand, seen, warmed,
                   captured, mine, restarts>>

\* ... or the capture is unusable.
AdmitRefused ==
    /\ lpc = "admit"
    /\ Touch
    /\ LoopGoto("capture")
    /\ UNCHANGED <<content, busy, queue, reply, quality, held, saved, turns,
                   unloads, owner, pathVars, reading, todo, cand, memory>>

EndTick ==
    /\ lpc = "capture"
    /\ todo = {}
    /\ LoopGoto("sleep")
    /\ UNCHANGED <<vars, reading, todo, cand, memory>>

-----------------------------------------------------------------------------
\* The daemon restarts: what the thread knew is lost, a task it left runs on.
Restart ==
    /\ lpc # "sleep"
    /\ restarts < MaxRestarts
    /\ restarts' = restarts + 1
    /\ LoopGoto("sleep")
    /\ todo' = {}
    /\ seen' = {}
    /\ warmed' = {}
    /\ refusedFor' = {}
    /\ captured' = [s \in Slot |-> 0]
    /\ mine' = {}
    /\ Goto(Loop, "idle")
    /\ reply' = [reply EXCEPT ![Loop] = "none"]
    /\ queue' = [s \in Slot |-> [i \in DOMAIN queue[s] |->
            IF queue[s][i].by = Loop THEN [queue[s][i] EXCEPT !.by = NoOne]
                                     ELSE queue[s][i]]]
    /\ owner' = [s \in Slot |-> IF owner[s] = Loop THEN NoOne ELSE owner[s]]
    /\ UNCHANGED <<loaded, content, busy, quality, held, saved, turns, unloads,
                   target, art, gone, reading, cand>>

LoopStep ==
    \/ ReadRunning \/ ReadSlots \/ ReadFails
    \/ NothingToRestore \/ RestoreFresh \/ FallBack
    \/ RestoreReturns \/ RestoreRefused
    \/ Choose \/ SkipSmallGrowth \/ PostSave
    \/ SaveParked \/ SaveRefused \/ SaveDone
    \/ AdmitHeld \/ AdmitNew \/ AdmitRefused \/ EndTick
    \/ PathStep(Loop) /\ UNCHANGED loopOnly
    \/ lpc = "restoring" /\ TimeOut(Loop) /\ UNCHANGED loopOnly

LoopNext ==
    \/ LoopStep
    \/ Restart
    \/ ServerStep /\ UNCHANGED <<pathVars, loopOnly>>

\* The thread keeps running; TimeOut and SaveParked are its socket timeouts.
LoopSpec == LoopInit /\ [][LoopNext]_loopVars /\ WF_loopVars(LoopStep)

-----------------------------------------------------------------------------
(* Properties *)

\* Every variable has its type, and a call of restore() is pending exactly while
\* the thread waits for it.
LoopTypeOK ==
    /\ TypeOK
    /\ lpc = "restoring" <=> pc[Loop] # "idle"
    /\ lpc \in {"sleep", "slots", "fresh", "restoring", "choose", "capture", "saving", "admit"}
    /\ snap \in [Slot -> Content]
    /\ sbusy \in [Slot -> BOOLEAN]
    /\ todo \in SUBSET Slot
    /\ cand \in Slot
    /\ seen \in SUBSET Nat
    /\ warmed \in SUBSET Slot
    /\ refusedFor \in SUBSET Slot
    /\ captured \in [Slot -> Nat]
    /\ mine \in SUBSET Slot
    /\ restarts \in 0..MaxRestarts

\* The thread never saves back a slot that still holds what it restored into it
\* itself and verified, in this tick or a later one: a restored prefix is not
\* captured again as if it were new work (lines 215-221).
RestoredNotRecaptured ==
    [][\A s \in mine :
          content[s].kind = "prefix" /\ owner[s] = Loop => ~(PostSave /\ cand' = s)]_loopVars

\* A tick that has begun ends or the daemon restarts, however long a slot stays
\* busy under a parked request (lines 83-89: one parked save froze every model's
\* captures).
EveryTickEnds == (lpc = "slots") ~> (lpc = "sleep")

=============================================================================
