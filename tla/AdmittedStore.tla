---------------------------- MODULE AdmittedStore ----------------------------
(***************************************************************************)
(* The private directory of admitted state objects                         *)
(* (kv_rosetta/admitted_store.py), at the granularity of the file-system   *)
(* calls that other threads and processes can observe.                     *)
(*                                                                         *)
(* A Job is one call of AdmittedStore.admit.  Calls run concurrently: the  *)
(* seed handler threads and the capture thread share one daemon process,   *)
(* and the prewarm command is a process of its own.  The object file a job *)
(* writes and the manifest file it creates are both identified by the job, *)
(* which stands for the inode.  The directory is three maps from a digest  *)
(* to an inode:                                                            *)
(*    <digest>.state          object                                       *)
(*    <digest>.manifest.tmp   staging    (one name for all writers)        *)
(*    <digest>.manifest.json  manifest                                     *)
(* and the set of the uniquely named .incoming files.                      *)
(*                                                                         *)
(* Abstracted: file contents are the digest they hash to, a manifest is    *)
(* the pinned facts it carries (the file, and a stamp that every later     *)
(* change of that file moves), and the ownership, mode and symlink checks  *)
(* of resolve are left out: the store root never changes hands here.       *)
(***************************************************************************)
EXTENDS Naturals, FiniteSets

CONSTANTS
    Job,          \* the calls of admit()
    Digest,       \* the contents a raw state can have
    Reader,       \* the threads that call resolve()
    Process,      \* the processes that admit: the daemon, the prewarm command
    NoFile,       \* nothing bears that name
    Garbage,      \* contents that hash to no digest in use
    Empty,        \* a manifest file just created or truncated
    Torn,         \* a manifest file whose text is two writers' text overlaid
    MaxStamp,     \* bound: how often one object file is changed from outside
    MaxBusy       \* bound: admissions and evictions in progress at once

ASSUME BoundsAssumption == MaxStamp \in Nat /\ MaxBusy \in Nat \ {0}

VARIABLES
    pc,           \* where each job is in admit()
    req,          \* what each job was called with
    incoming,     \* the jobs whose .incoming file is on disk
    bytes,        \* what the file written by a job holds
    stamp,        \* mtime, ctime and link count of the file written by a job
    object,       \* <digest>.state
    staging,      \* <digest>.manifest.tmp
    manifest,     \* <digest>.manifest.json
    text,         \* what the manifest file created by a job holds
    handle,       \* the manifest file a job holds open
    facts,        \* what a job pinned
    evict,        \* progress of prune_model_artifacts on a digest
    rpc,          \* where each reader is in resolve()
    rview,        \* the digest and the manifest text a reader holds
    served        \* what its last completed resolve() saw

jobVars    == <<pc, req, facts, handle>>
dirVars    == <<incoming, object, staging, manifest>>
fileVars   == <<bytes, stamp, text>>
readerVars == <<rpc, rview, served>>
vars == <<jobVars, dirVars, fileVars, evict, readerVars>>

-----------------------------------------------------------------------------
Request == [digest : Digest, declared : BOOLEAN, process : Process]

Facts == [file : Job, stamp : 0..MaxStamp]

\* A parsed manifest: the content address it is bound to and the facts it pins.
Manifest == [digest : Digest, facts : Facts]

Text == Manifest \cup {Empty, Torn}

ASSUME AtomsAssumption ==
    /\ Digest # {} /\ Process # {}
    /\ NoFile \notin Job
    /\ {NoFile, Garbage} \cap Digest = {}
    /\ {Empty, Torn} \cap Manifest = {}
    /\ Empty # Torn

Active == {"copy", "publish", "facts", "open", "write", "install"}
Ended  == {"admitted", "failed", "dead"}

ActiveJobs == {j \in Job : pc[j] \in Active}

Evicting == {d \in Digest : evict[d] # "no"}

Idle == Cardinality(ActiveJobs) + Cardinality(Evicting) < MaxBusy

\* Mutant of Accepts: the object is matched by its inode alone.
AcceptsChangedFile(m, d) ==
    /\ m \in Manifest
    /\ m.digest = d
    /\ object[d] # NoFile
    /\ m.facts.file = object[d]

\* resolve() lines 205-227: the manifest read, against the object opened.
Accepts(m, d) ==
    /\ m \in Manifest
    /\ m.digest = d
    /\ object[d] # NoFile
    /\ m.facts = [file |-> object[d], stamp |-> stamp[object[d]]]

OnDisk(d) == IF manifest[d] = NoFile THEN Empty ELSE text[manifest[d]]

\* What list_objects() reports: resolve() would succeed now.
Resolvable(d) == Accepts(OnDisk(d), d)

-----------------------------------------------------------------------------
NoRequest == [digest |-> CHOOSE d \in Digest : TRUE, declared |-> FALSE,
              process |-> CHOOSE p \in Process : TRUE]

Init ==
    /\ pc = [j \in Job |-> "idle"]
    /\ req = [j \in Job |-> NoRequest]
    /\ facts = [j \in Job |-> [file |-> j, stamp |-> 0]]
    /\ handle = [j \in Job |-> j]
    /\ incoming = {}
    /\ object = [d \in Digest |-> NoFile]
    /\ staging = [d \in Digest |-> NoFile]
    /\ manifest = [d \in Digest |-> NoFile]
    /\ bytes = [j \in Job |-> Garbage]
    /\ stamp = [j \in Job |-> 0]
    /\ text = [j \in Job |-> Empty]
    /\ evict = [d \in Digest |-> "no"]
    /\ rpc = [r \in Reader |-> "idle"]
    /\ rview = [r \in Reader |-> [digest |-> NoRequest.digest, text |-> Empty]]
    /\ served = [r \in Reader |-> NoFile]

Goto(j, label) == pc' = [pc EXCEPT ![j] = label]

-----------------------------------------------------------------------------
(* admit() *)

\* The call opens its own .incoming file, still holding no whole content.
Begin(j) ==
    /\ pc[j] = "idle"
    /\ Idle
    /\ \E q \in Request : req' = [req EXCEPT ![j] = q]
    /\ incoming' = incoming \cup {j}
    /\ Goto(j, "copy")
    /\ UNCHANGED <<facts, handle, object, staging, manifest, fileVars, evict,
                   readerVars>>

\* Mutant of CopyAndVerify: the digest of the copy is never compared.
CopyUnverified(j) ==
    /\ pc[j] = "copy"
    /\ bytes' = [bytes EXCEPT ![j] = IF req[j].declared THEN req[j].digest ELSE Garbage]
    /\ Goto(j, "publish")
    /\ UNCHANGED <<req, facts, handle, dirVars, stamp, text, evict, readerVars>>

\* The bytes are copied and hashed together, flushed, and agree with what the
\* caller declared.
CopyAndVerify(j) ==
    /\ pc[j] = "copy"
    /\ req[j].declared
    /\ bytes' = [bytes EXCEPT ![j] = req[j].digest]
    /\ Goto(j, "publish")
    /\ UNCHANGED <<req, facts, handle, dirVars, stamp, text, evict, readerVars>>

\* They do not agree: AdmissionError, and the .incoming file is removed.
RefuseDeclared(j) ==
    /\ pc[j] = "copy"
    /\ ~req[j].declared
    /\ incoming' = incoming \ {j}
    /\ Goto(j, "failed")
    /\ UNCHANGED <<req, facts, handle, object, staging, manifest, fileVars,
                   evict, readerVars>>

\* os.replace(tmp, target): whatever bore the name is unlinked.
Publish(j) ==
    /\ pc[j] = "publish"
    /\ object' = [object EXCEPT ![req[j].digest] = j]
    /\ incoming' = incoming \ {j}
    /\ Goto(j, "facts")
    /\ UNCHANGED <<req, facts, handle, staging, manifest, fileVars, evict,
                   readerVars>>

\* _file_facts(target) stats the NAME, so it may see another job's file.
TakeFacts(j) ==
    LET i == object[req[j].digest] IN
    /\ pc[j] = "facts"
    /\ i # NoFile
    /\ facts' = [facts EXCEPT ![j] = [file |-> i, stamp |-> stamp[i]]]
    /\ Goto(j, "open")
    /\ UNCHANGED <<req, handle, dirVars, fileVars, evict, readerVars>>

\* Mutant of OpenManifest: mode "ab", so a leftover staging file is not truncated.
OpenForAppend(j) ==
    LET d == req[j].digest
        m == IF staging[d] = NoFile THEN j ELSE staging[d] IN
    /\ pc[j] = "open"
    /\ staging' = [staging EXCEPT ![d] = m]
    /\ handle' = [handle EXCEPT ![j] = m]
    /\ Goto(j, "write")
    /\ UNCHANGED <<req, facts, incoming, object, manifest, fileVars, evict,
                   readerVars>>

\* Mutant of OpenManifest: mode "r+b", which creates no file.
OpenExisting(j) ==
    LET d == req[j].digest IN
    /\ pc[j] = "open"
    /\ handle' = [handle EXCEPT ![j] = staging[d]]
    /\ Goto(j, "write")
    /\ UNCHANGED <<req, facts, dirVars, fileVars, evict, readerVars>>

\* open(tmp, "wb"): create the shared staging name, or truncate what bears it.
OpenManifest(j) ==
    LET d == req[j].digest
        m == IF staging[d] = NoFile THEN j ELSE staging[d] IN
    /\ pc[j] = "open"
    /\ staging' = [staging EXCEPT ![d] = m]
    /\ handle' = [handle EXCEPT ![j] = m]
    /\ text' = [text EXCEPT ![m] = Empty]
    /\ Goto(j, "write")
    /\ UNCHANGED <<req, facts, incoming, object, manifest, bytes, stamp, evict,
                   readerVars>>

\* The text goes to the open file, from its beginning: over another writer's
\* text it leaves a whole manifest or, when shorter, the other's tail.
WriteManifest(j) ==
    LET mine == [digest |-> req[j].digest, facts |-> facts[j]]
        over == IF text[handle[j]] = Empty THEN {mine} ELSE {mine, Torn} IN
    /\ pc[j] = "write"
    /\ \E t \in over : text' = [text EXCEPT ![handle[j]] = t]
    /\ Goto(j, "install")
    /\ UNCHANGED <<req, facts, handle, dirVars, bytes, stamp, evict, readerVars>>

\* os.chmod and os.replace act on the shared NAME, whoever's file bears it; the
\* fsync of the directory that follows may still raise.
InstallManifest(j) ==
    LET d == req[j].digest IN
    /\ pc[j] = "install"
    /\ staging[d] # NoFile
    /\ manifest' = [manifest EXCEPT ![d] = staging[d]]
    /\ staging' = [staging EXCEPT ![d] = NoFile]
    /\ \E label \in {"admitted", "failed"} : Goto(j, label)
    /\ UNCHANGED <<req, facts, handle, incoming, object, fileVars, evict,
                   readerVars>>

\* An OSError at any step: a full disk, or a name another job has taken away
\* (the object evicted before its facts were read, the staging file renamed).
\* The handler removes this job's .incoming file and nothing else.
Fail(j) ==
    /\ pc[j] \in Active
    /\ incoming' = incoming \ {j}
    /\ Goto(j, "failed")
    /\ UNCHANGED <<req, facts, handle, object, staging, manifest, fileVars,
                   evict, readerVars>>

\* A process dies: no handler runs, so the .incoming files stay.
Crash(p) ==
    LET lost == {j \in ActiveJobs : req[j].process = p} IN
    /\ lost # {}
    /\ pc' = [j \in Job |-> IF j \in lost THEN "dead" ELSE pc[j]]
    /\ UNCHANGED <<req, facts, handle, dirVars, fileVars, evict, readerVars>>

-----------------------------------------------------------------------------
(* resolve() *)

\* The manifest is read and parsed.
ReadManifest(r) ==
    /\ rpc[r] = "idle"
    /\ \E d \in Digest : rview' = [rview EXCEPT ![r] = [digest |-> d, text |-> OnDisk(d)]]
    /\ rpc' = [rpc EXCEPT ![r] = "open"]
    /\ UNCHANGED <<jobVars, dirVars, fileVars, evict, served>>

\* The object is opened and its facts compared: every one must match.
OpenObject(r) ==
    LET d == rview[r].digest IN
    /\ rpc[r] = "open"
    /\ served' = [served EXCEPT ![r] =
            IF Accepts(rview[r].text, d)
            THEN [digest |-> d, bytes |-> bytes[object[d]]]
            ELSE NoFile]
    /\ rpc' = [rpc EXCEPT ![r] = "idle"]
    /\ UNCHANGED <<jobVars, dirVars, fileVars, evict, rview>>

-----------------------------------------------------------------------------
(* prune_model_artifacts(), run by the threads that have just admitted *)

ListForEviction(d) ==
    /\ evict[d] = "no"
    /\ Idle
    /\ Resolvable(d)
    /\ evict' = [evict EXCEPT ![d] = "listed"]
    /\ UNCHANGED <<jobVars, dirVars, fileVars, readerVars>>

\* unlink() of the name listed earlier; a missing file ends this eviction.
UnlinkObject(d) ==
    /\ evict[d] = "listed"
    /\ object' = [object EXCEPT ![d] = NoFile]
    /\ evict' = [evict EXCEPT ![d] = IF object[d] = NoFile THEN "no" ELSE "unlinked"]
    /\ UNCHANGED <<jobVars, incoming, staging, manifest, fileVars, readerVars>>

UnlinkManifest(d) ==
    /\ evict[d] = "unlinked"
    /\ manifest' = [manifest EXCEPT ![d] = NoFile]
    /\ evict' = [evict EXCEPT ![d] = "no"]
    /\ UNCHANGED <<jobVars, incoming, object, staging, fileVars, readerVars>>

\* The evicting process dies, or its second unlink fails.
AbandonEviction(d) ==
    /\ evict[d] # "no"
    /\ evict' = [evict EXCEPT ![d] = "no"]
    /\ UNCHANGED <<jobVars, dirVars, fileVars, readerVars>>

-----------------------------------------------------------------------------
(* The world outside the store's own code *)

\* An object file is rewritten, truncated, touched or hard-linked.  The store's
\* contract excludes it for a file published but not yet pinned.
Disturb(d) ==
    LET i == object[d] IN
    /\ i # NoFile
    /\ \A j \in Job : pc[j] = "facts" => req[j].digest # d
    /\ stamp[i] < MaxStamp
    /\ stamp' = [stamp EXCEPT ![i] = @ + 1]
    /\ \E b \in {bytes[i], Garbage} : bytes' = [bytes EXCEPT ![i] = b]
    /\ UNCHANGED <<jobVars, dirVars, text, evict, readerVars>>

JobStep(j) ==
    \/ Begin(j) \/ CopyAndVerify(j) \/ RefuseDeclared(j) \/ Publish(j)
    \/ TakeFacts(j) \/ OpenManifest(j) \/ WriteManifest(j) \/ InstallManifest(j)
    \/ Fail(j)

ReaderStep(r) == ReadManifest(r) \/ OpenObject(r)

EvictStep(d) ==
    \/ ListForEviction(d) \/ UnlinkObject(d) \/ UnlinkManifest(d)
    \/ AbandonEviction(d)

Next ==
    \/ \E j \in Job : JobStep(j)
    \/ \E p \in Process : Crash(p)
    \/ \E r \in Reader : ReaderStep(r)
    \/ \E d \in Digest : EvictStep(d) \/ Disturb(d)

Spec == Init /\ [][Next]_vars

-----------------------------------------------------------------------------
(* Properties *)

\* Every variable has its type; no directory entry names a file nobody wrote.
TypeOK ==
    /\ pc \in [Job -> {"idle"} \cup Active \cup Ended]
    /\ req \in [Job -> Request]
    /\ facts \in [Job -> Facts]
    /\ handle \in [Job -> Job]
    /\ incoming \in SUBSET Job
    /\ object \in [Digest -> Job \cup {NoFile}]
    /\ staging \in [Digest -> Job \cup {NoFile}]
    /\ manifest \in [Digest -> Job \cup {NoFile}]
    /\ bytes \in [Job -> Digest \cup {Garbage}]
    /\ stamp \in [Job -> 0..MaxStamp]
    /\ text \in [Job -> Text]
    /\ evict \in [Digest -> {"no", "listed", "unlinked"}]
    /\ rpc \in [Reader -> {"idle", "open"}]
    /\ rview \in [Reader -> [digest : Digest, text : Text]]
    /\ served \in [Reader -> [digest : Digest, bytes : Digest \cup {Garbage}]
                                \cup {NoFile}]

\* Whatever the interleaving of admissions, evictions, crashes and outside
\* changes, a resolve() that succeeds returns a file holding the very bytes its
\* address is the hash of, although resolve() never rehashes (lines 180-228).
ResolveServesAdmittedBytes ==
    \A r \in Reader : served[r] # NoFile => served[r].bytes = served[r].digest

\* A file that resolves was written by an admission of that digest which had
\* verified it against what its caller declared: a partial publish, and a
\* refused or unfinished copy, is never resolvable (lines 114-116, 136-143).
ResolvableWasVerified ==
    \A d \in Digest : Resolvable(d) =>
        LET i == object[d] IN
        /\ req[i].digest = d
        /\ req[i].declared
        /\ pc[i] \notin {"idle", "copy", "publish"}
        /\ i \notin incoming

\* The digests some job compared a whole copy with.  An outside change may turn
\* the bytes of a published file later, and then moves its stamp.
Compared(j) == bytes[j] # Garbage \/ stamp[j] > 0

Promise == INSTANCE AddressedStore WITH
    Nothing  <- NoFile,
    verified <- {req[j].digest : j \in {i \in Job : Compared(i)}},
    present  <- {d \in Digest : object[d] # NoFile}

\* The files, stamps and manifests, written and unlinked call by call by threads
\* and processes that overlap, fail and die, amount to the store of the module's
\* own description (lines 1-16): every answer is one that a store of verified,
\* present contents could have given at the moment resolve() opened the object.
KeepsItsPromise == Promise!Spec

\* When every admission so far has returned its object, none is evicted or
\* changed from outside and both files are there, the digest resolves: what
\* concurrent calls of admit() leave behind is what each of them returned, an
\* object that "still satisfies its pinned facts" (line 67).
AdmissionsSettleResolvable ==
    \A d \in Digest :
        /\ \A j \in Job : pc[j] \in {"idle", "admitted"} /\ stamp[j] = 0
        /\ evict[d] = "no"
        /\ object[d] # NoFile
        /\ manifest[d] # NoFile
        => Resolvable(d)

=============================================================================
