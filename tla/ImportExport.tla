------------------------------ MODULE ImportExport ------------------------------
(****************************************************************************)
(* Artifacts written from, and read back into, the slots of one             *)
(* llama-server: export and import_ of adapters/llamacpp_http.py over the   *)
(* files of the slot directory and the containers of container.py.          *)
(*                                                                          *)
(* Several processes run one job after the other, each request to the       *)
(* server one step: it answers, or fails with or without its effect.  (What *)
(* a slot action that was parked does later is in RestorePath.)             *)
(*                                                                          *)
(* A payload is [of, extra]: the tokens a slot holds, None for an empty     *)
(* one, and whether more was generated behind them.  An artifact is [intact,*)
(* model, abi, format, coverage, head, sha, payload]: that its header has   *)
(* its own digest, what the header says, and the bytes.  Its digest is      *)
(* `sha`, the payload whose bytes hash to it, and its coverage the payload  *)
(* that was measured, None when there is no such object.                    *)
(****************************************************************************)
EXTENDS Naturals, FiniteSets

CONSTANTS
    Process, Path, Slot, Tokens, None,
    Stem,           \* the stem of each path
    Runtimes,       \* the servers, as /props shows them: [model, reuses,
                    \* persists, format, version, emits, target, active, kv]
    Foreign,        \* the artifacts that may be there at the start
    MaxJobs,        \* bound: jobs begun
    MaxTurns,       \* bound: live turns of other callers
    MaxFailures     \* bound: requests that fail

ASSUME NoneAssumption == None \notin Process
ASSUME NamesAssumption == Process \intersect Path = {}

VARIABLES
    runtime, worth,     \* the server, and what restoring each state is worth
    content,            \* what each slot holds
    file,               \* the artifact under each path
    saves,              \* the files of the slot directory
    job,                \* what each process is doing
    jobs, turns, failures,
    owner,              \* history: who last restored a slot, untouched since
    lone                \* history: exports, and paths written by exports, that
                        \* no other export of the same stem overlapped

vars == <<runtime, worth, content, file, saves, job, jobs, turns, failures, owner, lone>>

Empty == [of |-> None, extra |-> FALSE]

-----------------------------------------------------------------------------
(* hybrid_support and what it asks: the protocol must be complete, of a
   tested pair, need no state class that is not proven, and name its cache
   types.  An architecture that reuses prefixes needs none of this. *)
Complete(r) == r.persists /\ r.format = "sckp/1" /\ r.version \in {2, 3} /\ r.target

Appendable(r) ==
    /\ Complete(r)
    /\ <<r.version, r.format>> = <<3, "sckp/1">>
    /\ r.active # None /\ r.active \subseteq {"target"}
    /\ r.kv

HybridSupport(r) == r.reuses \/ Appendable(r)

(* _advertised_state_version; None means that a slot must be saved to find out *)
Advertised(r) == IF Appendable(r) THEN r.version ELSE None

StateVersion(r) == IF Advertised(r) # None THEN Advertised(r) ELSE r.emits

(* opaque_format: what an import expects; and the label an export writes *)
OpaqueFormat(r) == <<StateVersion(r), IF r.persists THEN r.format ELSE "">>
ExportFormat(r) == <<r.emits, IF r.reuses THEN "" ELSE "sckp/1">>

CacheAbi(r) == [format |-> OpaqueFormat(r), active |-> r.active, kv |-> r.kv]

IsCompound(format) == format = <<3, "sckp/1">>

(* What import_ checks of a header before it touches the slot.  An absent
   model or ABI is not compared. *)
Accepts(r, h) ==
    /\ HybridSupport(r)
    /\ h.model \in {None, r.model}
    /\ h.abi \in {None, CacheAbi(r)}
    /\ h.format = OpaqueFormat(r)
    /\ IsCompound(h.format) => h.coverage # None /\ h.coverage.of # None

-----------------------------------------------------------------------------
Ended == {"idle", "refused", "raised", "exported", "ok"}
Exporting == {"save", "head", "identify", "name", "appendix", "hash", "copy"}

Staged(p) == <<"staged", p>>
Save(p) == <<"save", Stem[job[p].path]>>
Probe == <<"probe", None>>

Idle == [pc |-> "idle", path |-> None, slot |-> None, verify |-> FALSE,
         known |-> FALSE, reuses |-> FALSE, header |-> None, payload |-> Empty]

Init ==
    /\ runtime \in Runtimes
    /\ worth \in [Tokens -> {"good", "useless", "other"}]
    /\ content \in [Slot -> {Empty} \union [of : Tokens, extra : {FALSE}]]
    /\ file \in [Path -> Foreign \union {None}]
    /\ saves = [n \in {Staged(p) : p \in Process} \union {Probe}
                          \union {<<"save", Stem[a]>> : a \in Path} |-> None]
    /\ job = [p \in Process |-> Idle]
    /\ jobs = 0 /\ turns = 0 /\ failures = 0
    /\ owner = [s \in Slot |-> None]
    /\ lone = {}

Goes(p, pc) == job' = [job EXCEPT ![p].pc = pc]

\* The finally clauses: the file goes whatever has happened.
Ends(p, pc, name) ==
    /\ Goes(p, pc)
    /\ saves' = [saves EXCEPT ![name] = None]

Fails == failures < MaxFailures /\ failures' = failures + 1

server == <<runtime, worth, jobs, turns>>
slots == <<content, owner>>

-----------------------------------------------------------------------------
(* export *)
Begin(p) ==
    /\ job[p].pc \in Ended /\ jobs < MaxJobs
    /\ jobs' = jobs + 1
    /\ UNCHANGED <<runtime, worth, content, file, saves, turns, failures, owner>>

BeginExport(p, a, s) ==
    LET others == {q \in Process \ {p} : /\ job[q].pc \in Exporting
                                         /\ Stem[job[q].path] = Stem[a]}
        supported == HybridSupport(runtime)
    IN  /\ Begin(p)
        /\ job' = [job EXCEPT ![p] = [Idle EXCEPT !.path = a, !.slot = s,
                      !.pc = IF supported THEN "save" ELSE "raised"]]
        /\ lone' = IF ~supported THEN lone
                   ELSE IF others = {} THEN lone \union {p} ELSE lone \ (others \union {p})

PostSave(p) ==
    /\ job[p].pc = "save"
    /\ saves' = [saves EXCEPT ![Save(p)] = content[job[p].slot]]
    /\ job' = [job EXCEPT ![p].pc = "head", ![p].payload = content[job[p].slot]]
    /\ UNCHANGED <<server, slots, file, failures, lone>>

SaveFails(p) ==
    /\ job[p].pc = "save"
    /\ Fails
    /\ \E f \in {saves[Save(p)], content[job[p].slot]} : saves' = [saves EXCEPT ![Save(p)] = f]
    /\ Goes(p, "raised")
    /\ UNCHANGED <<server, slots, file, lone>>

\* The head of the file names the tokens, the answer to the save the coverage.
ReadHead(p) ==
    LET head == saves[Save(p)] IN
    /\ job[p].pc = "head"
    /\ IF head = None THEN Goes(p, "raised")
       ELSE job' = [job EXCEPT ![p].pc = "identify",
                      ![p].header = [intact |-> TRUE, model |-> runtime.model,
                                     abi |-> CacheAbi(runtime),
                                     format |-> ExportFormat(runtime),
                                     coverage |-> job[p].payload, head |-> head,
                                     sha |-> None, payload |-> None]]
    /\ UNCHANGED <<server, slots, file, saves, failures, lone>>

(* state_version, by whoever needs the ABI first: where no version is
   advertised, the slot is saved under one name for all, read, and unlinked. *)
PostVersionProbe(p) ==
    /\ job[p].pc \in {"identify", "decide"} /\ ~job[p].known
    /\ IF Advertised(runtime) # None
       THEN job' = [job EXCEPT ![p].known = TRUE] /\ UNCHANGED saves
       ELSE /\ saves' = [saves EXCEPT ![Probe] = Empty]
            /\ Goes(p, IF job[p].pc = "identify" THEN "name" ELSE "read probe")
    /\ UNCHANGED <<server, slots, file, failures, lone>>

VersionProbeFails(p) ==
    /\ job[p].pc \in {"identify", "decide"}
    /\ ~job[p].known /\ Advertised(runtime) = None
    /\ Fails
    /\ Goes(p, IF job[p].pc = "identify" THEN "raised" ELSE "refused")
    /\ UNCHANGED <<server, slots, file, saves, lone>>

ReadVersionProbe(p) ==
    /\ job[p].pc \in {"name", "read probe"}
    /\ IF saves[Probe] = None THEN Goes(p, "raised")
       ELSE job' = [job EXCEPT ![p].known = TRUE,
                      ![p].pc = IF @ = "name" THEN "identify" ELSE "decide"]
    /\ saves' = [saves EXCEPT ![Probe] = None]
    /\ UNCHANGED <<server, slots, file, failures, lone>>

\* Mutant of CheckVersion: the label is written whatever the bytes say.
CheckNoVersion(p) ==
    /\ job[p].pc = "identify" /\ job[p].known
    /\ Goes(p, "appendix")
    /\ UNCHANGED <<server, slots, file, saves, failures, lone>>

\* A runtime that emits another version than it advertises is not labelled.
CheckVersion(p) ==
    /\ job[p].pc = "identify" /\ job[p].known
    /\ IF Advertised(runtime) \notin {None, runtime.emits}
       THEN Ends(p, "raised", Save(p))
       ELSE Goes(p, "appendix") /\ UNCHANGED saves
    /\ UNCHANGED <<server, slots, file, failures, lone>>

\* _verify_checkpoint_appendix: what it finds wrong, it leaves on the disk.  A
\* file that another save has replaced may have the right size by chance.
CheckAppendix(p) ==
    /\ job[p].pc = "appendix"
    /\ \/ /\ runtime.reuses \/ (saves[Save(p)] # None /\ job[p].payload.of # None)
          /\ Goes(p, "hash")
       \/ /\ ~runtime.reuses
          /\ saves[Save(p)] # job[p].payload \/ job[p].payload.of = None
          /\ Goes(p, "raised")
    /\ UNCHANGED <<server, slots, file, saves, failures, lone>>

\* write_opaque_from_file reads the state twice: to hash it, and to copy it.
HashSave(p) ==
    /\ job[p].pc = "hash"
    /\ job' = [job EXCEPT ![p].header.sha = saves[Save(p)],
                          ![p].pc = IF saves[Save(p)] = None THEN "raised" ELSE "copy"]
    /\ UNCHANGED <<server, slots, file, saves, failures, lone>>

CopySave(p) ==
    LET copied == saves[Save(p)]
        a      == job[p].path
    IN  /\ job[p].pc = "copy"
        /\ Ends(p, IF copied = None THEN "raised" ELSE "exported", Save(p))
        /\ IF copied = None THEN UNCHANGED <<file, lone>>
           ELSE /\ file' = [file EXCEPT ![a] = [job[p].header EXCEPT !.payload = copied]]
                /\ lone' = IF p \in lone THEN lone \union {a} ELSE lone \ {a}
        /\ UNCHANGED <<server, slots, failures>>

-----------------------------------------------------------------------------
(* import_ *)
BeginImport(p, a, s, verify) ==
    /\ Begin(p)
    /\ job' = [job EXCEPT ![p] =
                 [Idle EXCEPT !.path = a, !.slot = s, !.verify = verify,
                              !.pc = IF file[a] = None THEN "refused"
                                     ELSE IF file[a].intact THEN "read" ELSE "refused"]]
    /\ UNCHANGED lone

\* An unsupported runtime is refused before it is asked for anything.
ReadHeader(p) ==
    /\ job[p].pc = "read"
    /\ job' = [job EXCEPT ![p].header = file[job[p].path],
                          ![p].pc = IF HybridSupport(runtime) THEN "decide" ELSE "refused"]
    /\ UNCHANGED <<server, slots, file, saves, failures, lone>>

\* A compound artifact is always probed.
Decide(p) ==
    LET h == job[p].header IN
    /\ job[p].pc = "decide" /\ job[p].known
    /\ job' = [job EXCEPT ![p].pc = IF Accepts(runtime, h) THEN "stage" ELSE "refused",
                          ![p].verify = @ \/ IsCompound(h.format)]
    /\ UNCHANGED <<server, slots, file, saves, failures, lone>>

\* extract_payload hashes the copy it makes, of the file as it is by now.
Stage(p) ==
    LET f == file[job[p].path] IN
    /\ job[p].pc = "stage"
    /\ IF f.sha = f.payload
       THEN /\ saves' = [saves EXCEPT ![Staged(p)] = f.payload]
            /\ job' = [job EXCEPT ![p].pc = "restore", ![p].payload = f.payload]
       ELSE Ends(p, "refused", Staged(p))
    /\ UNCHANGED <<server, slots, file, failures, lone>>

\* What the server reports of a restored appendix, FALSE where the header differs.
CoverageMatches(p) ==
    LET h == job[p].header IN
    IsCompound(h.format) =>
        /\ h.coverage = job[p].payload
        /\ IF job[p].payload.of = None THEN FALSE ELSE worth[job[p].payload.of] # "other"

Hold(p, c) ==
    /\ content' = [content EXCEPT ![job[p].slot] = c]
    /\ owner' = [owner EXCEPT ![job[p].slot] = IF job[p].pc = "restore" \/ @ = p THEN p ELSE None]

\* Mutant of PostRestore: differing metadata is reported, and the probe goes on.
RestoreUncompared(p) ==
    /\ job[p].pc = "restore"
    /\ Hold(p, saves[Staged(p)])
    /\ IF job[p].verify THEN Goes(p, "probe") /\ UNCHANGED saves
       ELSE Ends(p, "ok", Staged(p))
    /\ UNCHANGED <<server, file, failures, lone>>

PostRestore(p) ==
    /\ job[p].pc = "restore"
    /\ Hold(p, saves[Staged(p)])
    /\ CASE ~CoverageMatches(p)                          -> Goes(p, "erase") /\ UNCHANGED saves
         [] CoverageMatches(p) /\ job[p].payload.of = None -> Ends(p, "refused", Staged(p))
         [] OTHER -> IF job[p].verify THEN Goes(p, "probe") /\ UNCHANGED saves
                     ELSE Ends(p, "ok", Staged(p))
    /\ UNCHANGED <<server, file, failures, lone>>

\* The prompt of the probe is read from the artifact as it is by now, and a
\* declared coverage must be what was reused.
PostProbe(p) ==
    LET asked == file[job[p].path].payload.of
        held  == content[job[p].slot]
        h     == job[p].header
    IN  /\ job[p].pc = "probe"
        /\ IF asked = None
           THEN Ends(p, "refused", Staged(p)) /\ UNCHANGED slots
           ELSE /\ Hold(p, [of |-> asked, extra |-> TRUE])
                /\ job' = [job EXCEPT ![p].pc = "clear",
                             ![p].reuses = /\ held.of = asked /\ worth[asked] = "good"
                                           /\ IsCompound(h.format) => h.coverage.of = asked]
                /\ UNCHANGED saves
        /\ UNCHANGED <<server, file, failures, lone>>

\* _restore_pristine, whatever the probe said.
PostClear(p) ==
    /\ job[p].pc = "clear"
    /\ Hold(p, Empty)
    /\ Goes(p, "again")
    /\ UNCHANGED <<server, file, saves, failures, lone>>

PostAgain(p) ==
    /\ job[p].pc = "again"
    /\ Hold(p, saves[Staged(p)])
    /\ Ends(p, IF job[p].reuses THEN "ok" ELSE "refused", Staged(p))
    /\ UNCHANGED <<server, file, failures, lone>>

\* The last erase, whose failure is not looked at.
PostErase(p) ==
    /\ job[p].pc = "erase"
    /\ \/ Hold(p, Empty) /\ UNCHANGED failures
       \/ Fails /\ UNCHANGED slots
    /\ Ends(p, "refused", Staged(p))
    /\ UNCHANGED <<server, file, lone>>

\* A request of import_ fails, its effect on the slot done or not.  Before the
\* pristine restore the slot is left as it is; in it, it is erased.
RequestFails(p) ==
    LET effect == CASE job[p].pc = "restore" -> saves[Staged(p)]
                    [] job[p].pc = "again"   -> saves[Staged(p)]
                    [] job[p].pc = "clear"   -> Empty
                    [] OTHER -> [of |-> file[job[p].path].payload.of, extra |-> TRUE]
    IN  /\ job[p].pc \in {"restore", "probe", "clear", "again"}
        /\ Fails
        /\ Hold(p, effect) \/ UNCHANGED slots
        /\ IF job[p].pc \in {"restore", "probe"} THEN Ends(p, "refused", Staged(p))
           ELSE Goes(p, "erase") /\ UNCHANGED saves
        /\ UNCHANGED <<server, file, lone>>

-----------------------------------------------------------------------------
\* A process is killed; nobody has its pid again.
Kill(p) ==
    /\ job[p].pc \notin Ended \union {"killed"}
    /\ \A q \in Process : job[q].pc # "killed"
    /\ Goes(p, "killed")
    /\ UNCHANGED <<server, slots, file, saves, failures, lone>>

Turn(s) ==
    /\ turns < MaxTurns
    /\ turns' = turns + 1
    /\ \E t \in Tokens : content' = [content EXCEPT ![s] = [of |-> t, extra |-> TRUE]]
    /\ owner' = [owner EXCEPT ![s] = None]
    /\ UNCHANGED <<runtime, worth, jobs, file, saves, job, failures, lone>>

Export(p) ==
    \/ \E a \in Path, s \in Slot : BeginExport(p, a, s)
    \/ PostSave(p) \/ SaveFails(p) \/ ReadHead(p) \/ CheckVersion(p)
    \/ CheckAppendix(p) \/ HashSave(p) \/ CopySave(p)

Import(p) ==
    \/ \E a \in Path, s \in Slot, v \in BOOLEAN : BeginImport(p, a, s, v)
    \/ ReadHeader(p) \/ Decide(p) \/ Stage(p)
    \/ PostRestore(p) \/ PostProbe(p) \/ PostClear(p) \/ PostAgain(p) \/ PostErase(p)
    \/ RequestFails(p)

Next ==
    \/ \E p \in Process : \/ Export(p) \/ Import(p)
                          \/ PostVersionProbe(p) \/ VersionProbeFails(p) \/ ReadVersionProbe(p)
                          \/ Kill(p)
    \/ \E s \in Slot : Turn(s)

Spec == Init /\ [][Next]_vars

-----------------------------------------------------------------------------
(* An import that has returned has left no staged copy; and when it returned
   ok, and nobody has used the slot since it restored it, the slot holds the
   very state it had staged, without the token of its probe, of a header this
   runtime accepts; a compound one has the coverage the header declares and,
   like every state that was to be probed, was reused as declared
   (llamacpp_http.import_, _restore_pristine). *)
ImportLeavesVerified ==
    \A p \in Process :
        LET j == job[p] IN
        /\ j.pc \in Ended => saves[Staged(p)] = None
        /\ j.pc = "ok" /\ owner[j.slot] = p =>
              /\ content[j.slot] = j.payload /\ j.payload.of # None
              /\ Accepts(runtime, j.header)
              /\ IsCompound(j.header.format) => j.verify /\ j.header.coverage = j.payload
              /\ j.verify => worth[j.payload.of] = "good"

(* An artifact whose export no other of the same stem overlapped is one state:
   its bytes, its digest, the tokens it names and the coverage it declares are
   of one save; and the runtime that wrote it takes it back.  (Not where an
   architecture that needs no appendix runs with checkpoints persisted: export
   then writes the plain label, and opaque_format, which import_ compares it
   with, the compound one.) *)
ExportTakesBack ==
    \A a \in Path \intersect lone :
        LET f == file[a] IN
        /\ f.sha = f.payload /\ f.head = f.payload /\ f.coverage = f.payload
        /\ (runtime.reuses /\ runtime.persists) \/ Accepts(runtime, f)
=============================================================================
