# A verification model of kv-rosetta

kv-rosetta saves the attention caches of language-model servers, keeps them in
a private store and puts them back into server slots so that a prompt is not
read twice. Its daemon runs beside `llama-swap` and `llama-server`, and shares
with them, with other callers and with its own threads a set of *slots*, a
*directory* and some *memory*. This directory holds TLA+ models of the parts
where those are shared, the TLC runs that check them, and proofs checked by
TLAPS.

## 1. Inventory of the system

| Component | State it keeps | Operations | Interacts through | What makes it correct |
|---|---|---|---|---|
| **Admitted store** (`admitted_store.py`) | a directory: `<digest>.state`, `<digest>.manifest.json`, `.manifest.tmp`, `.incoming.*` | `admit`, `resolve`, `list_objects` | file system, from several threads and processes | what resolves is what was verified; an admission that returns has published; a failed one leaves nothing |
| **Capture admission, pins, pruning** (`cli.py` `admit_capture`, `daemon/capture.py`, `prewarm.py`) | raw saves, `.pin` markers, the set of held artifacts | admit a saved slot, discard a duplicate, pin, unpin, prune | the store directory | bounded per model; pins protect; no duplicates; nothing recent is evicted |
| **Restore path** (`adapters/admitted_path.py`) | none; a sequence of requests | `restore`, `_erase` | slots of the server | *ok* means verified reuse; *refused* leaves nothing unverified; it always returns |
| **Capture loop** (`daemon/capture.py`) | `_seen`, `_warmed`, `_restore_refused_for`, `_captured_on_slot` | `tick`, `restore_fresh` | slots, the store, its own stale reading of both | wakes nothing, overwrites nothing live, saves what is new and only that, never blocks |
| **Request-time sidecar** (`daemon/server.py`) | `_seeds`, `_recent_restores`, `_slot_last_used`, stats | `restore_for_prompt`, `ensure`, `seed`, HTTP handlers | handler threads share unlocked dictionaries; slots; the store | wakes nothing; a `restored` verdict is true; a seed yields; one seed per runtime; every call answered |
| **llama-server, llama-swap** (external) | loaded models, slots, queues of parked slot tasks | slot actions, completions, load, unload | HTTP | assumed as written in `LlamaServer` |
| **Artifact stores** (`store.py`) | files and an SQLite index | `put`, `get`, `touch`, `delete`, `prune` | file system, database, from several processes | a put is found again; prune meets its limits and removes no more |
| **Shared drive** (`shared.py`) | content, attachments, metadata in a shared directory | `publish`, `attach`, `stage`, `cache_for`, `best_attachment` | file system, several machines | nobody is handed another model's cache, or half of one; a staged file is the attachment asked for |
| **Import and export** (`adapters/llamacpp_http.py`) | saves and staging copies in the slot directory | `export`, `import_`, `state_version` | server, slot directory, artifact files | an import that says ok left in the slot what it verified; what an export wrote is one state |
| **KVX container** (`container.py`, `segments.py`) | none | write, verify, extract | files | what is written reads back; readers refuse what writers did not write |
| **Sequence-state envelope** (`adapters/ggsq_envelope.py`, `llamacpp_ggsq.py`) | none | parse sections and appendix, quantise | files | a section is read to its end or refused; the search and the declared place agree |
| **Retention, budget** (`retention.py`, `daemon/budget.py`) | none | plan, admit or refuse, warm, prune | called by the store's owners | within the budget; what goes is older than what stays |
| **Composition, transfer** (`compose.py`, `transfer.py`, `gate.py`) | none | plan, append, execute, admit | called with regions, states, logits | exact in one order; measured before it is used |
| **Requirements, hybrid states** (`requirements.py`, `hybrid_schema.py`) | none | check, validate, from_dict | headers, `/props`, evidence files | gated state only where demonstrated |
| **Watcher, resolver, identities** (`daemon/watcher.py`, `daemon/resolve.py`, `identity.py`) | none | load, resolve, coexist | corpus directory, weights files | an artifact is found by everything that changes its bytes |
| **Sizing** (`sizing.py`) | none | predict a state's bytes | headers of model files | equal to what the readers measure |
| **Mappers, geometry, dtypes** (`mappers/*`, `geometry.py`, `dtypes.py`) | none | align, convert, fit, translate, round | tensors | every token, layer, head and angle keeps its place |
| **GGUF, weights, PLE prefetch** (`gguf.py`, `weights.py`, `ple_prefetch.py`) | digest cache | read a header, digest a model, advise pages | files | quick and full reading agree; no shard is left out |
| **vLLM connector, HF adapter** (`adapters/vllm_*`, `hf.py`) | none | choose an artifact, move rows | runtime's paged buffer | longest own prefix; rows come back as put |
| **Scripts, benches, patches, deployment** | none that lasts | experiments run by hand | | not modelled, see section 8 |

Hard behaviours: threads of one daemon and a second process admit at the same
time; every decision is taken on a reading of the slots that live traffic makes
stale; a request that meets a busy slot is parked and runs later, even when its
client has gone; a model can be unloaded between any two requests and the next
request loads it; a process can die between two renames; a file can be
changed from outside. `PROJECT.json` lists each hazard at its line, with the
properties aimed at it.

## 2. Modules

| Module | Models |
|---|---|
| `AddressedStore` | the abstract store: verified contents, present contents, what readers were served |
| `AdmittedStore` | `AdmittedStore.admit/resolve/list_objects` and the unlinking of pruned objects, one action per file-system call that others can observe |
| `AloneAdmission` | the same with a history variable: the admissions in progress that nothing has overlapped |
| `AdmittedStoreProofs` | the inductive invariant of `AdmittedStore`, its theorems, and the proof that it implements `AddressedStore` |
| `CaptureAdmissionProofs`, `RestorePathProofs`, `IndexedStoreProofs`, `SharedDriveProofs`, `ImportExportProofs` | the inductive invariants and theorems of those modules; `RestorePathProofs` holds those of `CaptureLoop` and `Sidecar` too |
| `RulesProofs`, `FormatProofs` | the theorems of `Rules`: in the first those about decisions, containers and rounding, in the second, which EXTENDS it, those about readers, mappers and sizes |
| `CaptureAdmission` | `admit_capture`, the prewarm command's admission, `pin`/`unpin`, `prune_model_artifacts` |
| `SerialAdmission` | the same with a history variable: whether calls have overlapped so far |
| `LlamaServer` | external: slots, parked tasks, live turns, loading and unloading, client timeouts |
| `RestorePath` | `AdmittedPath.restore`, one action per request and per answer, over `LlamaServer` |
| `CaptureLoop` | `CaptureLoop.tick` and its restorer and admitter, over `RestorePath` and `LlamaServer` |
| `Sidecar` | `restore_for_prompt` with `ensure`, and `seed`, as handler threads over `RestorePath` and `LlamaServer` |
| `IndexedStore` | `Store` and `ArtifactStore`: files beside an index, one action per file-system call or SQL statement |
| `SharedDrive` | `publish`, `attach`, `stage`, `cache_for`, `cache_for_lineage`, `best_attachment` over a shared directory |
| `ImportExport` | `export` and `import_` of the llama-server adapter, several processes over one slot directory |
| `Retention`, `Compose`, `Transfer`, `Requirements`, `Container`, `SequenceState`, `Sizing`, `Mappers`, `ModelFile`, `Connector`, `Corpus` | the decisions that keep no state, as functions, each module one family |
| `Folding` | the two operators on sequences those modules share, a loop (a fold of `Folds`) and `startswith`, beside `SequencesExt` and without what it brings, so that a proof about them carries no library it does not use |
| `Rules` | calls of those functions, as a machine of one call at a time |
| `MC*` | constants, inputs and symmetry for TLC |

`CaptureLoop` and `Sidecar` EXTEND `RestorePath`, which EXTENDS `LlamaServer`: a
restore that the loop or a handler starts runs action by action while the
server goes on. `AdmittedStore` and
`CaptureAdmission` look at the same code at two grains: in the second one
`AdmittedStore.admit` and the listing of the store are single steps, and what
the first shows about concurrent admissions of *equal* bytes is not repeated.

### AdmittedStore

A `Job` is one call of `admit()` and stands for the inode it writes, so that
`object`, `staging` and `manifest` are maps from a digest to an inode, as the
directory is. `Publish`, `TakeFacts`, `OpenManifest`, `WriteManifest` and
`InstallManifest` are the calls after verification, in the order of the code:
the facts are taken from the *name* (line 148), the staging file's name is
shared by all writers of a digest (line 161), and both are therefore read or
written on behalf of others. `Fail` is an `OSError` at any of them, with the
handler of lines 152-157; `Crash` is the death of a process, which runs no
handler. `resolve()` is two steps, `ReadManifest` and `OpenObject`. `Disturb`
is an outside change of an object file; the store's contract excludes it
between publication and the pinning of the facts, and so does its guard.
Pinned facts are an inode and a `stamp` that moves with every outside change
(size, mtime, ctime and link count together).

`AddressedStore` says what all this is for: contents are verified, then present,
and a reader is served contents that were verified and are present at that very
moment, or nothing. The mapping takes for *verified* the digests of the copies
that were hashed and compared, for *present* the names that lead to an object,
and for *served* the readers' results; a resolve is mapped at its second step,
the opening of the object.

### CaptureAdmission

A `Job` is one call and the artifact it would admit; its `call` (model, prefix,
and whether the capture loop, a seed or the prewarm command makes it) is chosen
once. `order` is the order of admission, that is of mtime, which pruning sorts
by. `Scan` is the listing with its check of the markers, which fixes the call's
`victims`, a set; `Drop` unlinks the one `NextVictim` chooses, the youngest of
them, and `DropFails` is an unlink that fails, after which the loop goes on to
the next. `released` is a history variable: the unpinned artifacts that no
pruning of their model has listed since they joined (prewarmed, unpinned, not
evictable, or left by a call that was refused or died). Each `Scan` forgets
those of its model, so that what `StoreBounded` excuses ends with the next
pruning. `serial`, which
`SerialAdmission` adds, is a history variable: no two calls have overlapped so
far. The properties that overlapping calls break by design are about behaviours
where it holds; the bounds on the store are about all of them.

### LlamaServer and RestorePath

A slot holds nothing, an artifact just restored, an artifact and the token the
probe generated, or a live conversation. `Post` appends a task to a slot's
queue; `RunTask` runs it when the slot is free, or fails it. `Abandon` is a
client's socket timeout: the task stays and runs for nobody. `quality` decides
once what restoring an artifact into this runtime is worth, because the server
may accept and report a state it cannot reuse. In `RestorePath`, `pc` follows
`restore()` from call to return: `ok`, `refused`, `unclean` (the erase failed),
`abandoned` (the caller hung up before the probe), `raised` (an `AdapterError`
nobody catches). `owner` is a history variable: the client whose requests alone
made the slot's content since its restore.

### CaptureLoop

One model, one capture thread. `snap` and `sbusy` are the tick's reading, which
everything in the tick acts on; `seen`, `warmed`, `refusedFor` and `captured`
are the four sets of the class. `RestoreFresh` calls `RestorePath`, whose
actions then run until `RestoreReturns` or `RestoreRefused`. `SaveParked` is
the 60-second save timeout. The ranking of attachments is abstracted to a
choice among the held ones; a daemon restart (`Restart`) empties the thread's
memory and leaves its parked task behind. `mine` is a history variable that
only properties read.

### Sidecar

A `Client` is a handler thread of `ThreadingHTTPServer`; `hpc` is its place in
its request and `route` which request that is. `seeds` is the model's entry of
`_seeds` (or none), `yielded` the entries whose flag is set, `recent` the slot
remembered for a prefix, `lastUsed` the order of the times in
`_slot_last_used`. None of them has a lock, so a check and the write that
follows it are two actions (`NoSeedRuns`, `Register`); the removal of an entry,
in `PrefillDone` and `PrefillFails`, takes whichever entry is there, as
`seeds.pop(model, None)` does. `MakeYield` marks the seed and drops its
connection if there is one yet. A reading of `/slots` and the choice made of it
are one action, since what happens between the two is the same as what happens
just after. Rendering, tokenizing and the longest common prefix are abstracted
to the artifact a prompt matches best, and `Expire` ages a remembered restore
at any time. Left out: `/v1/ensure` called directly (its steps from `Ensure` on
are the same), aliases, `dry_run`, the counters of `Stats`.

### IndexedStore

A file is its size, a row the fields pruning reads. The two classes run the same
`put`, `get` and `delete`, so one module stands for both, in the order of
`ArtifactStore`; `touch`, listing and `prune` are `Store`'s. `call[p]` holds the
locals of the call a process is in; `RemoveFile`, `RemoveRow` and `NextPass` are
the three passes of `prune`, driven by its own listing (`view`, `left`) and, in
the third, its own count (`total`). `Stop` kills a process; an `unlink` that
fails makes `delete` raise and is swallowed by `prune`. `alone` is a history
variable: the properties are about calls that nobody overlaps, after calls that
did overlap or were killed. Left out: time stamps that compare equal, `find`,
database errors.

### SharedDrive

A `Job` is one call of `attach` or `stage` and the inode it creates, if it
creates one. The code has no lock and its `.tmp` names are fixed (lines 371,
384, 432), so any number of calls of one name may overlap: `Open`, `Describe`
and `OpenSlot` truncate the file that has the `.tmp` name already, and the
renames (`Install`, `Replace`, `Place`) install whatever has it by then, or
find nothing (`LosePart`, `LoseSlotPart`). `bytes` says of each half of an inode
which job's attachment it holds, if any, so a file that two calls write at once
may come out torn; `text` says the same of a description. A staged file is a
second name of the drive's inode when they share a file system (`Link`), else a
copy (`NoLink`, `OpenSlot`, `Fill`, `FillRest`). `SameFile` is `shutil.copyfile`
finding source and destination to be one file, `Place` the rename that does
nothing when both names are links to one inode. `Stop` is a kill or an
`OSError`: there is no handler, so both leave what was written. `shared` is a
history variable: the inodes that were opened for writing while another call of
their name had them in hand or was about to write or rename them, and the copies
made of such. Two overlapping `publish` of one document rename a truncated file
at worst; that is one of the things `Disturb` does, beside the edits of others,
after which a document still parses (`altered`) or does not (`unreadable`). The
lookups (`CacheForLineage`, `BestAttachment`) are operators over the directory,
checked in every reachable state; `Raised` is what `best_attachment` comes to
where the reading of a document raises. Left out: digests, the checks of a
document's fields, the prediction of reuse.

### ImportExport

A process runs one `export` or `import_` after another; `job[p]` holds the
locals of its call. `saves` is the slot directory: a process's staged copies
have a name of their own (the artifact's stem and the pid), a raw save is named after the
artifact's *stem*, and `state_version`'s probe file is one name for all. Each
request either answers or fails (`SaveFails`, `VersionProbeFails`,
`RequestFails`), with or without its effect; the cleanup of the `finally`
clauses belongs to the step that ends the call, and `Kill` runs none of them.
`worth` decides once what restoring a state is worth to this server, since
`/slots` may accept what it cannot reuse. `owner` and `lone` are history
variables: who restored a slot that nobody used since, and exports no other of
the same stem overlapped. Tasks that stay parked after a timeout are in
`RestorePath` and left out here.

### Rules

These functions keep no state, so `Rules` is a machine with one variable: a step
makes one call, with any input of its family, and the next returns. Each
invariant then ranges over every input, and says of each result something the
function does not compute it by: a prediction against the reader it predicts, a
quick reading against a full one, a plan against the condition it should
maximise, a map against the sets of bytes it maps. Numbers are scaled so that
their boundaries fall within small inputs: bf16 keeps 5 bits of 8 with an exponent
of 2, a page is 4 bytes, and the limits of `sizing` are 2^20 and 2^22 bytes.
Containers have the alignment (64) and the preamble (12) of the code. What the
inputs are is stated by the assumptions of `Rules`, one for each family; the proofs
use them and TLC evaluates them.

* `Retention`: an entry is its digest, bytes, last use and pin; `KeepsWhatFits`
  is the reference.
* `Compose`: a chain digest is the sequence of what was chained.
* `Transfer`: a logit position is whether it agrees, its divergence and its
  delta, each of which may be NaN, which compares with nothing.
* `Requirements`: `Check` returns the set of reasons; evidence is a set of
  recorded proofs with scope and dates.
* `Container`, `SequenceState`, `Sizing`: files are sizes, offsets and marks;
  `Sizing` predicts what `SequenceState` reads.
* `Mappers`: a vector is where it came from and how far each of its dimensions
  is turned; a rotation that meets another angle is `Garbled`.
* `ModelFile`: headers that end anywhere, shards of a model, rows and pages.
* `Connector`, `Corpus`: which artifact a request or a prompt gets.

## 3. Runs that pass

| Run | Instance | What it shows |
|---|---|---|
| `store_resolve` | 3 jobs, 1 digest, at most 2 at once, 1 outside change, 1 reader | resolve serves the verified bytes (`ResolveServesAdmittedBytes`), only what a completed verification published resolves (`ResolvableWasVerified`), an admission that nothing overlaps leaves its digest resolvable whatever leftovers it meets (`AdmittedAloneIsResolvable`), and the store implements `AddressedStore` (`KeepsItsPromise`) |
| `capture` | 3 jobs, 2 models, 2 prefixes, Keep 1, 2 at once | `StoreBounded`, counted without what joined since the model's last pruning, and `EvictedWereOld` under concurrency; `PinnedIsHeld`, `OnePerPrefix`, `DiscardedWasHeld` for calls one after the other, with crashes and failures |
| `restore_verdicts` | 2 clients, 1 slot, 1 artifact, a live turn | `OkIsVerified`, `RefusedIsErased`, `EveryRestoreReturns` |
| `loop_restored` | 1 slot, 1 artifact, 2 live turns of one sequence, an unload, a restart | `RestoredNotRecaptured`, `EveryTickEnds` |
| `sidecar_seeds` | 2 handlers with 1 request each, 1 slot, 1 artifact | `SeedEntryIsLive`, `EveryCallAnswered` |
| `index_limits` | 2 processes, 4 calls, 2 digests, sizes 1 and 2, one process killed | `PutIsRecorded`, `PruneMeetsItsLimits`, `PruneRemovesNoMore` |
| `drive_offers` | 3 calls, any of them of one name and at once, 2 documents of which one extends the other, 3 keys of one lineage, 1 outside change | `OfferedIsOwn`, `StagedIsWhole`: nothing of another key, lineage or document is offered or staged, and only what two calls wrote at once may be torn; `BestIsLongest` |
| `import_export` | 2 processes, 2 jobs, 1 slot, 2 artifacts of one stem, 2 states, 5 kinds of server, 1 live turn, 1 failed request, kills | `ImportLeavesVerified`, `ExportTakesBack` |
| `rules` | each family of inputs around every condition of its code | ten invariants, one or two modules each: `KeepsWhatItMay`, `ComposesInOneOrder`, `TransferIsSound`, `GatedStateIsDemonstrated`, `ContainerReadsBack`, `SizeIsExact`, `MapsKeepPlaces`, `RoundsToNearest`, `ReadsAgree`, `FoundIsOwn` |

Why the bounds are enough. In the store every hazard is about two actors on one
digest: two busy calls and a third whose leftovers they meet cover a pair of
writers, a writer and an evictor, and either after a crash; a further digest
shares no file with the first. Keep is 1 because pruning compares a count with
Keep and Keep + 1 artifacts already reach both sides. In `capture` calls overlap
only when all of them are for one model (pruning, pins and duplicates look at no
other), and once they have, the unlinking of raw saves, which nothing then looks
at, always fails. A restore meets at most one foreign actor between two of its requests that matters to it, a live turn,
another restore or an unload, and between them the instances contain each
(the unload is in the loop's). One slot is
enough where slots do not interact: nothing in a restore, a save or a seed
reads a slot but its own, and the choice among several only widens what the
server may do. The loop's sequence has 6 tokens and the minimum is 2: a turn
from an empty slot is past the minimum and the growth rule (a fifth more), the
one token a probe adds is short of it. Two handlers are a restore against a
seed, two restores, or two seeds; the live traffic of that instance is the
handlers' own. Four calls on the index are two puts, one call killed or
overlapping another, and the call that meets the result; limits of 1 and 3 bytes, of 1 entry and of an age make each pass
remove none, one or all of two records. Three calls on the drive are two
attachments or stages of one name that overlap or are cut short, and the stage
or attachment that meets what they left. Two processes that export and import share a stem, a slot and the
probe file, which is all they can share; of the servers one reuses prefixes, one
is hybrid, one persists checkpoints without need, one speaks an older version
than it advertises and one has a class of state active that is not proven. The
inputs of `rules` are small values on both sides of every comparison, varied
together within a family and one at a time beside it: two or three regions,
entries, objects or layers decide an order, a tie or a gap; the lengths of a
header run over every change in its number of digits; the numbers rounded are
all of their width.

Fairness. Safety runs assume none. `EveryRestoreReturns` assumes that a thread
in `restore()` takes its next step and that its socket timeout (`_TIMEOUT`,
600 s) fires; `EveryTickEnds` assumes the same of the capture thread
(`SLOT_SAVE_TIMEOUT_S` for a save), and `EveryCallAnswered` of a handler, whose
wait for a yielding seed ends after `SEED_YIELD_WAIT_S`. Nothing is assumed of
the server: a turn need never end, a task never run. That the sidecar fails to
read the slots while it waits (`WaitFails`) may happen but is not relied on.

Deadlock is checked in the runs of `AdmittedStore` and `Rules`. Elsewhere the jobs,
the calls, the restores, the requests or the turns of the instance are finite and
the system stops when they are used up. Every property has
a mutant: an operator of the same module, marked as such in its comment, that a
plausible slip in the code would turn a definition into, and under which TLC
finds the property violated.

## 4. Runs that fail: where the code departs from what it says

Each checks one statement of a comment or docstring, and TLC finds a behaviour
of the code against it.

| Run | Statement | What happens |
|---|---|---|
| `store_same_bytes` | an admitted object "still satisfies its pinned facts" | two admissions of equal bytes: the older facts are installed last |
| `sidecar_seed_goes_on` | "a live restore pre-empts a background seed" | asked to yield after its entry is made and before its request is sent |
| `drive_stage_fails` | "Place this model's attachment where its runtime will look" | a stage killed between link and rename makes the next ones raise |

Other departures met on the way, kept here rather than as runs.

Store and capture: an artifact pinned between the listing and the unlink of a
pruning is evicted (`capture.py` line 530, against line 493); an admission that
fails after its rename leaves the object, which no listing shows and no pruning
finds (`admitted_store.py` line 153); the same bytes admitted for a second model
overwrite `runtime_model` in the digest's only manifest (line 147); a seed whose
admission fails leaves its raw save (`server.py` line 585).

Daemon: a model unloaded between the reading of `/running` and the request that
follows is loaded again (`server.py` line 200 against line 4, `capture.py` line
163); an entry of `_warmed` outlives an unload that falls between two ticks
(`capture.py` line 198), and the slots were read before a restore is prepared
(line 203); only the first idle empty slot is offered, so one that was refused
hides the next (line 337); a remembered restore is believed of any slot that
holds as many tokens (`server.py` line 429), and the two memos are written after
`ensure` (line 458), so that two requests can choose one slot. The model takes
`--capture-min-tokens` to be positive (its default is 4096): with 0 an empty slot
is itself a candidate, and a tick that restores into it goes on to save it, since
its count was read before.

Files: `prune` drops the row of a file it could not unlink (`store.py` line 283,
against the comment of `delete`), and a file is on disk before its row (line
443); a link placed on the drive is a second name of what `attach` may write
again (`shared.py` line 436). Nothing keeps two machines from attaching or staging
under one name: one of them may raise `FileNotFoundError` at its rename, or an
attachment made of both, or half of one, be installed (lines 371-373, 432-437;
`OfferedIsOwn` and `StagedIsWhole` except the files written so, by the history
variable `shared`); and two publishers of one document can leave half of it
(line 297). `best_attachment` says that "tampered or unreadable content is never
offered" (line 471), but only a `SharedError` is caught: a document that is no
longer JSON, or no longer UTF-8, raises out of `json.loads` or `read_text` (line
307), and no attachment is offered at all while it is attached for the key
(`BestIsLongest` states both). `container.verify` calls itself a "structural +
integrity check" (`container.py` line 466), yet no digest covers which of the two
supported versions the preamble gives, the padding in front of the payload (line
154) and what follows the payload: a file changed there verifies
(`ContainerReadsBack` states exactly these exceptions).

Import and export: a server that reuses prefixes and also persists checkpoints
exports the plain label and refuses it on import (`llamacpp_http.py` lines
656-658 against 744-755; `ExportTakesBack` excepts it by name);
two exports with one stem share the save's name and read it twice (line
581), `state_version`'s probe file is shared by all processes (line 163); a
failed check of the appendix leaves the save behind (line 620, before the
`finally` of 675); import opens the artifact by name four times; refused before
its slot is cleared, it leaves the slot as it is (lines 858-877, 954).

Sizes: `state_bytes` promises the "Exact size" (`sizing.py` line 197), but leaves out
the 12 bytes a cell of the M-RoPE architectures carries (lines 69-72, 224) unless
the architecture is hybrid, so that a plain state of `qwen2vl` is larger than
predicted by 12 bytes a cell; and it counts the headers of layers that a state of
no cells does not have, as `hybrid_state_bytes` does. `PlainIsExact` and
`HybridIsExact` say by how much the readers differ.

Rules: `coexist` compares the fields of two keys, while their digests sort the
adapters, notes and flags (`identity.py` lines 107-117, 161, 215-223): keys that
differ in the order of their flags alone "coexist", and overwrite each other
(`FoundIsOwn` excepts them; the llama.cpp adapter sorts its flags,
`llamacpp_http.py` line 304). `resolve` says it looks up what changes bytes, while `PromptIdentity.digest`
includes the fingerprint of the corpus (`daemon/resolve.py` line 74);
`pages_for_rows` asks for the first and the last page of a row, which are all
there is only while a row is no longer than a page; `quantise` to bf16
wraps a NaN whose bits carry (`llamacpp_ggsq.py` line 563), unlike
`dtypes.convert`; `plan_translation` accepts pairs that leave out a target layer; a
header cut short gives `read_metadata` a shortened string (`gguf.py`);
`shards_of` takes in files of a longer stem, and the digest cache believes a stamp
taken before the file is read (`weights.py` lines 103-136); `container._write` uses
one `.tmp` name per destination (line 148).

## 5. What is proved

For every number of jobs, digests, readers and processes, and every bound, in
`AdmittedStoreProofs`:

* `TypeCorrect`: `Spec => []TypeOK`;
* `ResolveIsSound`: `Spec => []ResolveServesAdmittedBytes`;
* `NothingUnverifiedResolves`: `Spec => []ResolvableWasVerified`;
* `Implements`: `Spec => KeepsItsPromise`, that is, the directory implements
  `AddressedStore` under the mapping of section 2;
* `AdmittedAlone`: `AloneSpec => AdmittedAloneIsResolvable`, over the behaviours
  of `AloneAdmission`.

They rest on `BoundsAssumption` and `AtomsAssumption` (the special values
differ from the data) only. The argument: neither property is inductive, since
a manifest read earlier, one still in a staging file and facts still in a
writer's memory can all decide a later resolve. `IInv` therefore says of
*every* place facts can be (a job's memory, a manifest's text, a reader's view)
that, for the digest they are bound to, an object file with these facts is
whole: its bytes are the digest's and its writer is past verification. Stamps
only grow, so facts once wrong never become right, and facts are only taken of
a published file. `Init => IInv` and `IInv /\ [Next]_vars => IInv'` are the
lemmas `InitIInv` and `StepIInv`, the latter with one step per action. `IInv`
was checked with TLC before it was proved.

For the refinement `IInv` is strengthened once more by `Traced`: a call that has
not begun has compared nothing, and a name leads only to a file that was
compared with the digest it bears. Without it a step that publishes a name could
not be mapped to `Publish`, which asks for the contents to be verified. `InitMaps`
and `StepMaps` are the two halves of the refinement; most actions change neither
the verified nor the present contents (`FilesAlone`), and a reader's second step
is a `Serve` because `IInv` says of the facts it read that a file which still
satisfies them has the digest's bytes.

For `AdmittedAlone` the invariant is `AloneInv`: at each place of a call that
nothing has overlapped, what it did so far is still as it left it (`AsLeft`). Its
object is the file under the name, the facts it pinned are of that file, and the
staging name, which all writers of a digest share, leads to the file it opened and
wrote, whatever stale staging file it met. `StepAlone` has one step per action; an
action of another job, or of an eviction, cannot end in a state in which the call
is alone, except by beginning it.

The other proof modules follow the same pattern, an invariant of named parts
that was checked with TLC before it was proved, with one step per action.

`CaptureAdmissionProofs`, for any number of calls, models and prefixes and any
number `Keep` of artifacts to keep, from `KeepAssumption` (`Keep` is positive) and
`NoArtifactAssumption`: `TypeCorrect`, `NothingRecentIsEvicted` (`EvictedWereOld`)
and `StoreStaysBounded` (`StoreBounded`). What the bound counts (`Left`) is what is
held and unpinned but neither `Condemned` (a running pruning has still to unlink
it), `Pending` (its own call has still to prune) nor `released`. Only a scan adds
to that, when it forgets the `released` of its model, and it counts what it leaves
itself: giving each artifact outside its victims the number of its younger ones
counts them below `Keep` (`Remainder`). Every other step only moves artifacts from
one excuse to another or adds to them (`StaysBounded`): a crash or a refusal turns
`Condemned` and `Pending` into `released`, a failed unlink and an unpinning add to
it. For the second theorem
every victim is `Old`, and stays so because `order` only grows.

Three more theorems are about `SerialSpec`, the behaviours of `SerialAdmission`,
which is `CaptureAdmission` with its history: `PinnedStaysHeld` (`PinnedIsHeld`),
`HeldOnce` (`OnePerPrefix`) and `OnlyHeldIsDiscarded` (`DiscardedWasHeld`). While
calls have not overlapped at most one is under way (`OneAtATime`), so its reading
of the store is still true when it acts on it: what it chose to evict is not
pinned since, and what it looked for and did not find has not been admitted
since. `SerialInv` says this of each of its places; that a raw save, once its
call is past the listing, is covered by a held artifact is part of it.

`RestorePathProofs`, for any number of clients, slots, artifacts, turns and
unloads, from `SizeAssumption` and `NoOneAssumption`: `TypeCorrect`,
`OkMeansVerified` (`OkIsVerified`) and `RefusedMeansErased` (`RefusedIsErased`).
A parked task is what its client waits for now, on its slot and for its artifact
(`TasksAreAwaited`), so an answer is never the answer to an earlier request; a
client owns a slot only from the answer to its restore on (`OwnsItsSlot`); and
`Accounted` says, place by place, what an owned slot then holds.

The same module, for `CaptureLoop`, from `LoopAssumption` (the minimum of tokens
is positive; slots are numbers) besides: `LoopTypeCorrect` and
`RestoredStaysUncaptured` (`RestoredNotRecaptured`). The thread decides on the
reading of the tick's beginning, so the argument is that this reading stays true
of a slot that is the thread's own until the thread restores into it
(`ReadingHolds`), which it does only into slots read as empty
(`RestoresIntoVacant`); the count of what it restored is therefore the count it
reads later, and is among those seen (`OwnIsSeen`). A candidate's is not.

And for `Sidecar` and any number of handlers, from `NoOneAssumption`:
`EntriesAreLive` (`SeedEntryIsLive`) and `SidecarTypes` (`SidecarTypeOK`). The first
is inductive beside the types of two variables; every step that does not prefill
keeps it for one reason (`ElsewhereKeeps`). The second needs that `lastUsed`, a
list, names no slot twice, which is kept because a slot is moved to its end and
never added to it; and it needs the types of what `RestorePath` keeps (`TInv`).

`SharedDriveProofs`, for any documents, keys, lineages, jobs and disturbances,
from `DriveAssumption` (the documents' tokens are numbers, the published ones are
documents, and the special values differ from them): `TypeCorrect`,
`OfferedStaysOwn` (`OfferedIsOwn`), `StagedStaysWhole` (`StagedIsWhole`) and
`BestStaysLongest` (`BestIsLongest`). Every name leads to an inode created for that
name (`EntriesAreOwn`), and no half of it was written by a call of another
(`HoldsOwn`), however many calls write it; that is what is left of the two
properties for files in `shared`. The drive's `.tmp` files have no second link
(`PartIsApart`), so writing one changes nothing under a final name. An inode that is
not in `shared` has one writer: until that one is done `PartIsWritten`, or
`SlotPartIsFilled`, says at which place it is and which halves it has filled, and
from then on the inode is `Settled`, whole and open in no call, under whichever
names it has (`StateIsSettled`, `SlotIsSettled`, `SourceIsSettled`). Whoever opens
it again puts it into `shared`, unless nothing but a call cut short had to do with
it; what steps under one name do to the others is said once (`OtherNames`).
`best_attachment` is a fold over a list of any length; its proof unfolds the
library's definition (`BestAttachmentDef`), shows that the recursive function in it
exists and is unique on every finite set of places (`PicksExist`, `PicksAgree`), so
that the best of a list is the better of its last document and the best of the
others (`BestUnfold`), and goes over the sets of places by induction on them
(`LongestIsPicked`).

`ImportExportProofs`, for any number of processes, artifacts, slots and kinds of
server, from `NoneAssumption` and `NamesAssumption` (a probe file of a process is no
artifact): `ImportIsVerified` (`ImportLeavesVerified`) and `ExportIsTakenBack`
(`ExportTakesBack`). A staged
copy is the payload that was hashed and leaves with the import (`CopyIsOwn`), what
was accepted and compared stays so (`Checked`), and what may be said of a slot
nobody used since its restore is listed place by place (`OwnIsKnown`). For exports,
`ExportInv` follows a save that no other of its stem overlapped: it stays under its
name until it is read, the header is computed from the same reading, and the
version it is labelled with was probed from the server that will take it back.

`IndexedStoreProofs`, for any number of processes, digests, sizes and limits, from
`IndexAssumption`: `IndexTypes` (`IndexTypeOK`), `AlonePutIsRecorded`
(`PutIsRecorded`), `AlonePruneMeetsItsLimits` (`PruneMeetsItsLimits`) and
`AlonePruneRemovesNoMore` (`PruneRemovesNoMore`). A call that is alone has a listing
that is still the table less what it removed itself, and a running total that is
the bytes of what is left: `IndexInv` says so at each place of each pass. The total
is a sum over a finite set, and what it does when one element leaves is an
induction over subsets (`SubsetInduction`). That removing the least recently used
first removes no more than it must rests on `Ticks`: no two rows were used at the
same instant, since each call has an instant of its own (stamps that compare equal
are left out of the model, see section 2).

`RulesProofs`, for every input of a family: `GatedIsDemonstrated`
(`GatedStateIsDemonstrated`), from `EvidenceAssumption` (instants are numbers);
`UsedTransferIsSound` (`TransferIsSound`), from `TransferAssumption` (a holdout is a
natural number and a measure a number, 99 standing for NaN); `OneOrderIsExact`
(`ComposesInOneOrder`), from `CompositionAssumption` (what the fields of a region
are); `FoundStaysOwn` (`FoundIsOwn`), from `RequestAssumption` and
`InjectionAssumption` (what the fields of an object, a shard and a slot are) and
`LookupAssumption`; and `KeptIsWhatItMay` (`KeepsWhatItMay`), from
`RetentionAssumption` and `SelectionAssumption` (digests, sizes, times, counts and
limits are numbers); `ContainersReadBack` (`ContainerReadsBack`), from
`SegmentationAssumption` (bytes are bytes, and the fields of a table's entry are
what they are) and `LengthAssumption` (the length of a header fits its four
bytes); and `RoundedIsNearest` (`RoundsToNearest`). `WideRoundsWell` states the last
once more of every 32-bit pattern at bf16's own widths, which TLC, with its small
ones, cannot run over. `LookupAssumption` asks for more than types: a model is in a
directory of its own, so that the pattern of its shards finds all that is there.
The code does not see to that: where a second model's name begins with the first
one's, the pattern finds the files of both, and the digest names both (section 4).

`Rules` makes one call at a time, so its invariant says only that the call is
of its family (`CallInv`), and the work is in lemmas about the functions. A verdict
"restored" excludes a divergence that is within scope, and what `Demonstrated` is
about is within scope (`RestoredIsDemonstrated`); no problem found means that each
single test passed (`NoGatedProblem`). A measure that is no NaN and not above its
bound bounds every position of the holdout (`LargestBounds`), which are the last of
the logits (`TailIsLast`). The context behind some regions has one digest for each
of them, a fold again (`ContextLength`), so an exact region knows its place
(`ExactKnowsItsPlace`), and at another one it is not exact, whatever it holds.

Most of these functions are loops, folds in the model, over a list of any length.
`FoldExists`, `FoldIsUnique` and `FoldRuns` turn a fold over places 1 to n into what
is held after each place, one step of the loop from the next, and `UpTo` is the
induction over them; `SetFoldExists` and `SetFoldIsUnique` do so for a fold over a
set of which a function says which member comes last. On them rest the choice of the
vLLM connector (`SelectRuns`, `LongestIsChosen`: after each object, the best of those
so far), the rows it writes (`InjectRuns`, `InjectedIsThere`: a slot holds the last
row written to it), the shards a digest is of (`AllOfTheDirectory`), the warmer
(`WarmRuns`, `WarmStaysInLimits`), the manifests in the order of their times
(`LoadRuns`, `LoadedIsSorted`) and the plan of retention.
There the order of use and digest has a hindmost in every set (`HindmostIsLast`), the
bytes of a set with one entry less are less by that entry (`BytesWithout`), and the
plan for what goes before an entry is all that decides whether it is kept
(`PlanFits`). What an admission displaces comes after the candidate because up to the
candidate both plans are one (`DisplacesOlder`). That pruning keeps no more than its
limit counts the older of each manifest: no two have the same number of them
(`RanksDiffer`).

A container is laid out part by part: after each, the parts placed so far are sound,
aligned and one behind the other (`PlacedRuns`, `LaysOutOne`), so what is accepted is
read back (`WrittenReadsBack`) and a table of sound parts is accepted
(`SoundIsPlaced`). A file with one thing altered is refused, or differs in nothing a
digest covers: the cases are gone through one by one (`AlteredIsSpared`,
`DamagedIsRefused`). The offset in the header settles
because an offset of a four-byte length has at most ten digits, a longer one no fewer
(`DigitsGrow`), so that each pass comes to one of two neighbouring aligned places
(`AlignGrows`, `OffsetsSettle`). Rounding splits a pattern into what is
kept and what is dropped, by both conversions (`RoundsWell`, `WideRoundsWell`).

`FormatProofs`, for every input of a family again:

* `ReadersAgree` (`ReadsAgree`), from `HeaderAssumption` (no value is the mark of a
  missing one), `AppendixAssumption` (the magic occurs by chance only where no appendix ends
  with the file; lengths are unsigned), `PromptAssumption`, `TableAssumption` (a row
  has a byte) and `TextAssumption`. The exhaustive walk over a header and the
  quick one go through the same entries up to the one where the quick one stops
  (`WalkRuns`, `WalkFindsAll`, `QuickWalkFinds`). Reading an appendix ends at one
  size of the file only (`StreamEndsOnce`), so that the search and the declared place
  cannot disagree (`SearchFinds`). The pages of a row are between its first and its
  last byte's, and coalescing keeps after each page the runs apart, in order and of
  the same bytes (`AddsPage`, `Coalesced`, `RowsStayCovered`). The rows of the n-gram
  table depend on the last tokens after an end of text only (`NgramIs`,
  `TextsStayApart`).
* `PlacesAreKept` (`MapsKeepPlaces`), from `TokenizationAssumption` (equal texts have
  equal bytes), `GeometryAssumption`, `LayersAssumption` and `TranslationAssumption`
  (a cache is as its runtime wrote it: keys turned by the places of their tokens if
  rotation is applied, values not). Pieces are intervals between partial sums, and
  two intervals share as many bytes as their ends say (`SharedIsCounted`,
  `AlignedWeighsWhole`). Layers and heads rest on laws of quotients (`QuotientIs`,
  `RoundInOrder`, `LayersAreSpread`, `HeadsFindTheirs`). The greedy choice of layers keeps an invariant from
  round to round and, when it stops early, leaves nothing that improves
  (`StaysChosenWell`, `SelectedWell`). A vector is plain or turned by one position;
  turning back, pooling, mapping and turning again are followed one by one
  (`TurnedBack`, `PooledStaysPlain`, `MappedStaysPlain`, `TurnedOnce`).
* `SizesAreExact` (`SizeIsExact`), from `SizeAssumption`: what is sized has no more
  layers, words, checkpoints and bytes than a reader takes, rows of f32 are whole,
  and a layer slides only in an architecture whose window is known. Each section
  ends where the prediction says it does, whatever precedes it: attention
  (`AttentionEnds`), recurrent cells (`RecurrentIs`), the appendix with its
  checkpoints (`AppendixIsMeasured`), and from these the three kinds of file (`PlainEnds`,
  `HybridEnds`, `LayeredEnds`). The bytes of a layered model are sums over a
  filtered list (`SumHoldsEach`, `SectionIs`), and a smaller window never makes a
  state unsizable (`WindowSizes`).

They share the toolbox above: `FoldsRun` says what a fold holds after each place, and
`SumsExist` and `SumIs` do the same for sums.

## 6. What is only model-checked

Every liveness property (`EveryRestoreReturns`, `EveryTickEnds`,
`EveryCallAnswered`), since fairness and ENABLED are outside the prover's reach.
Every invariant and every action property of a passing run is a theorem as well.

Three things in the model are as they are because of the proofs. The prover expands a
definition only if it can read all of it, and it cannot read `SortSeq`, `SelectSeq`,
`:>` and `@@`. Where a theorem is about a sort or a selection the model folds
instead, over the set with the hindmost last (`PlanRetention`, `LoadManifests`) or
over the list (`ShardsOf`, `Coalesce`, `Section`), or asks with a quantifier
(`ParseAppendix`, `TableOk`). The algorithm modules take their sequence operators
from `Folding`. And `Rules` states what its inputs are: each of its assumptions is
used by a proof and evaluated by TLC.

One attempt failed for a reason and changed what is stated. A sliding section of no
cells does not look at its rows, so a state may be sized with a sliding section
of 0 cells and with no other; `SizesItsWindow` excludes that by name (`sizing.py`,
`layered_state_bytes`).

## 7. Plan

1. Done: the store, its abstract specification, its proofs and the refinement;
   capture admission, the restore path, the capture loop, the sidecar, the
   indexed stores, the shared drive, import and export, and the rules.
2. Left to model: the replay half of the prewarm command, the `/v1/ensure` route
   and the watcher's polling.
3. Done: every invariant and every action property that a run checks is a theorem.
   Left with TLC are the three liveness properties (section 6).

## 8. Not modelled, and why

The arithmetic of tensors, least-squares fits and reductions over logits, and
hashing: a digest is the value it is taken of. The Hugging Face adapter copies
tensors, and the PLE prefetch's `madvise` only advises the page cache. The
scripts and benches are experiments run by hand, the conformance module a
harness for tests, and the server patch is C++ of another program. In the modelled parts: file
ownership, modes, symlinks and path confinement of the store, time stamps that
compare equal, the ranking of attachments by age and size, the checks of single
fields (that a digest looks like one, that a date parses), and the contents of
manifests beyond what the properties tell apart.
