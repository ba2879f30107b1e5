----------------------------- MODULE LlamaServer -----------------------------
(***************************************************************************)
(* One model served by llama-server behind llama-swap, as kv_rosetta uses  *)
(* it.  External: read off the calls in kv_rosetta/adapters/llamacpp_http, *)
(* adapters/admitted_path and daemon/, and off what their comments record  *)
(* of the server.                                                          *)
(*                                                                         *)
(* A request to /upstream/<model> loads the model when it is not loaded.   *)
(* A slot action, or a completion bound to a slot, that arrives while the  *)
(* slot is generating is parked, and runs when the slot is released, even  *)
(* if its client has stopped waiting (capture.py, SLOT_SAVE_TIMEOUT_S).    *)
(* A restore whose metadata the server reports may still be one it cannot  *)
(* reuse; only a probe tells (server.py, ensure).                          *)
(***************************************************************************)
EXTENDS Naturals, Sequences, FiniteSets

CONSTANTS
    Client,         \* the threads of kv_rosetta that talk to the server
    Slot,
    Artifact,       \* the token sequences a state can be of; an admitted
                    \* artifact is named by its sequence
    Conversation,   \* those that live turns of other callers leave in a slot
    NoOne,
    Size,           \* tokens of each artifact
    MaxTurns,       \* bound: live turns
    MaxUnloads      \* bound: times the model is unloaded

ASSUME SizeAssumption ==
    /\ Size \in [Artifact -> Nat \ {0}]
    /\ Conversation \subseteq Artifact
    /\ MaxTurns \in Nat /\ MaxUnloads \in Nat

ASSUME NoOneAssumption == NoOne \notin Client \cup Artifact

VARIABLES
    loaded,     \* llama-swap reports the model as ready
    content,    \* what each slot's cache holds
    busy,       \* slots generating for a live turn
    queue,      \* tasks parked on each slot, first to run first
    reply,      \* what the server has answered to each client
    quality,    \* what restoring each artifact into this runtime is worth
    held,       \* artifacts whose files are in the store
    saved,      \* what the last save asked for by each client wrote
    turns,      \* live turns so far
    unloads,    \* unloads so far
    owner       \* history: the client whose unbroken series of requests, from
                \* a restore on, made a slot's content

serverVars == <<loaded, content, busy, queue, reply, quality, held, saved,
                turns, unloads, owner>>

-----------------------------------------------------------------------------
\* prefix: an artifact just restored.  probed: an artifact's prompt and the
\* token the probe generated.  live: a conversation of another caller.
Content == [kind : {"empty", "prefix", "probed", "live"},
            of : Artifact \cup {NoOne}, n : Nat]

Empty == [kind |-> "empty", of |-> NoOne, n |-> 0]
Restored(a) == [kind |-> "prefix", of |-> a, n |-> Size[a]]
Probed(a) == [kind |-> "probed", of |-> a, n |-> Size[a] + 1]
Live(v) == [kind |-> "live", of |-> v, n |-> Size[v]]

\* good: reported as admitted, and reused.  useless: reported as admitted, but
\* nothing of it is reused.  other: reported otherwise than admitted.
Quality == {"good", "useless", "other"}

Task == [op : {"restore", "probe", "erase", "pristine", "save", "prefill"},
         art : Artifact \cup {NoOne}, by : Client \cup {NoOne}]

Reply == {"none", "waiting", "done", "mismatch", "covered", "short", "error"}

\* A prefill cut short: the first tokens of somebody's prompt.
Cut == [kind |-> "live", of |-> NoOne, n |-> 1]

Outcome(c, r) == [content |-> c, reply |-> r]

\* What a probe of artifact a may find in a slot that holds c.
Findings(c, a) ==
    CASE c = Restored(a) -> {IF quality[a] = "good" THEN "covered" ELSE "short"}
      [] c = Probed(a) -> {"covered", "short"}
      [] c.kind = "live" -> {"covered", "short"}
      [] OTHER -> {"short"}

\* What running a task on a slot may do to its content, and answer.
Outcomes(s, t) ==
    LET c == content[s] IN
    CASE t.op \in {"restore", "pristine"} ->
            IF t.art \in held
            THEN {Outcome(Restored(t.art),
                          IF quality[t.art] = "other" THEN "mismatch" ELSE "done")}
            ELSE {Outcome(Empty, "error")}
      [] t.op = "erase" -> {Outcome(Empty, "done")}
      [] t.op = "save"  -> {Outcome(c, "done")}
      [] t.op = "prefill" ->
            {Outcome(Live(t.art), "done")}
                \cup IF t.by = NoOne THEN {Outcome(Cut, "error")} ELSE {}
      [] t.op = "probe" ->
            {Outcome(Probed(t.art), r) : r \in Findings(c, t.art)}

-----------------------------------------------------------------------------
ServerInit ==
    /\ loaded = TRUE
    /\ content = [s \in Slot |-> Empty]
    /\ busy = [s \in Slot |-> FALSE]
    /\ queue = [s \in Slot |-> <<>>]
    /\ reply = [c \in Client |-> "none"]
    /\ quality \in [Artifact -> Quality]
    /\ held \in SUBSET Artifact
    /\ saved = [c \in Client |-> Empty]
    /\ turns = 0
    /\ unloads = 0
    /\ owner = [s \in Slot |-> NoOne]

\* A client sends a request that names no slot (/props, /slots, /apply-template).
Touch == loaded' = TRUE

\* Client c posts a task for slot s, and waits.
Post(c, s, op, a) ==
    /\ Touch
    /\ queue' = [queue EXCEPT ![s] = Append(@, [op |-> op, art |-> a, by |-> c])]
    /\ reply' = [reply EXCEPT ![c] = "waiting"]
    /\ UNCHANGED <<content, busy, quality, held, saved, turns, unloads, owner>>

\* A free slot runs its next task, or fails it without effect.
RunTask(s) ==
    LET t == Head(queue[s]) IN
    /\ loaded /\ ~busy[s] /\ queue[s] # <<>>
    /\ \E o \in Outcomes(s, t) \cup {Outcome(content[s], "error")} :
         /\ content' = [content EXCEPT ![s] = o.content]
         /\ reply' = [c \in Client |-> IF c = t.by THEN o.reply ELSE reply[c]]
         /\ saved' = [c \in Client |->
                IF t.op = "save" /\ c = t.by /\ o.reply = "done" THEN o.content
                                                               ELSE saved[c]]
    /\ queue' = [queue EXCEPT ![s] = Tail(@)]
    /\ owner' = [owner EXCEPT ![s] =
            CASE t.op = "save" -> @
              [] t.op = "restore" -> t.by
              [] t.op = "prefill" -> NoOne
              [] OTHER -> IF @ = t.by THEN @ ELSE NoOne]
    /\ UNCHANGED <<loaded, busy, quality, held, turns, unloads>>

\* What /slots reports of a slot: a completion at the head of its queue was taken
\* up before the report, a slot action never shows.
Processing(s) ==
    busy[s] \/ (queue[s] # <<>> /\ Head(queue[s]).op \in {"probe", "prefill"})

\* Client c stops waiting: its parked task will run for nobody.
Abandon(c) ==
    /\ reply[c] = "waiting"
    /\ reply' = [reply EXCEPT ![c] = "error"]
    /\ queue' = [s \in Slot |-> [i \in DOMAIN queue[s] |->
            IF queue[s][i].by = c THEN [queue[s][i] EXCEPT !.by = NoOne]
                                  ELSE queue[s][i]]]
    /\ UNCHANGED <<loaded, content, busy, quality, held, saved, turns, unloads,
                   owner>>

\* A live turn takes a free slot; its prompt replaces what the slot held.
TurnStarts(s) ==
    /\ loaded /\ ~busy[s] /\ queue[s] = <<>>
    /\ turns < MaxTurns
    /\ turns' = turns + 1
    /\ busy' = [busy EXCEPT ![s] = TRUE]
    /\ \E v \in Conversation : content' = [content EXCEPT ![s] = Live(v)]
    /\ owner' = [owner EXCEPT ![s] = NoOne]
    /\ UNCHANGED <<loaded, queue, reply, quality, held, saved, unloads>>

TurnEnds(s) ==
    /\ busy[s]
    /\ busy' = [busy EXCEPT ![s] = FALSE]
    /\ UNCHANGED <<loaded, content, queue, reply, quality, held, saved, turns,
                   unloads, owner>>

\* llama-swap stops the model between turns; whoever waits gets an error.
Unload ==
    /\ loaded /\ \A s \in Slot : ~busy[s]
    /\ unloads < MaxUnloads
    /\ unloads' = unloads + 1
    /\ loaded' = FALSE
    /\ content' = [s \in Slot |-> Empty]
    /\ queue' = [s \in Slot |-> <<>>]
    /\ reply' = [c \in Client |-> IF reply[c] = "waiting" THEN "error" ELSE reply[c]]
    /\ owner' = [s \in Slot |-> NoOne]
    /\ UNCHANGED <<busy, quality, held, saved, turns>>

\* Somebody else's request loads it again.
Load ==
    /\ ~loaded
    /\ loaded' = TRUE
    /\ UNCHANGED <<content, busy, queue, reply, quality, held, saved, turns,
                   unloads, owner>>

\* An artifact is evicted by another thread.
Evict ==
    /\ \E a \in held : held' = held \ {a}
    /\ UNCHANGED <<loaded, content, busy, queue, reply, quality, saved, turns,
                   unloads, owner>>

ServerStep ==
    \/ \E s \in Slot : RunTask(s) \/ TurnStarts(s) \/ TurnEnds(s)
    \/ Unload \/ Load \/ Evict

ServerTypeOK ==
    /\ loaded \in BOOLEAN
    /\ content \in [Slot -> Content]
    /\ busy \in [Slot -> BOOLEAN]
    /\ queue \in [Slot -> Seq(Task)]
    /\ reply \in [Client -> Reply]
    /\ quality \in [Artifact -> Quality]
    /\ held \in SUBSET Artifact
    /\ saved \in [Client -> Content]
    /\ turns \in 0..MaxTurns
    /\ unloads \in 0..MaxUnloads
    /\ owner \in [Slot -> Client \cup {NoOne}]

=============================================================================
