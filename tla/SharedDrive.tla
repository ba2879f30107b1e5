----------------------------- MODULE SharedDrive -----------------------------
(***************************************************************************)
(* A shared drive (kv_rosetta/shared.py): a directory, written by several  *)
(* processes, that holds documents of content and, for each of them, cache *)
(* attachments by model and cache ABI, each a state file and a description *)
(* of it; and a slot directory, into which attachments are staged.         *)
(*                                                                         *)
(* A Job is one call of attach() or stage() and stands for the inode it    *)
(* creates when it creates one, so that a directory maps names to jobs.  A *)
(* name belongs to a pair <<content, key>>, and its .tmp name is the same  *)
(* for every call: there is no lock, so that two calls of one name may     *)
(* write, and rename, one file.  A file is written in two halves, which    *)
(* the calls that have it open interleave.  Digests, roles and texts are   *)
(* abstracted to the token sequence of each document.                      *)
(***************************************************************************)
EXTENDS Integers, FiniteSets, SequencesExt

CONSTANTS
    Job,
    Published,      \* the documents, in the order published() lists them
    Tokens,         \* the token ids of each
    Key,            \* attachment keys: records of a model and a cache ABI
    LineageOf,      \* the lineage of each model
    Unknown,        \* a lineage that was not recorded
    NoFile,
    Raised,         \* what a reader has in hand when an exception ended its call
    Calls,          \* the calls that may be made: requests, as defined below
    MaxDisturbs     \* bound: documents edited, staged files removed, by others

Content == ToSet(Published)
Name == Content \X Key
Request == [op : {"attach", "stage"}, name : Name, lineage : BOOLEAN]

ASSUME DriveAssumption ==
    /\ Calls \subseteq Request /\ Calls # {}
    /\ Published \in Seq(DOMAIN Tokens)
    /\ \A d \in DOMAIN Tokens : Tokens[d] \in Seq(Int)
    /\ \A k \in Key : k.model \in DOMAIN LineageOf
    /\ \A m \in DOMAIN LineageOf : LineageOf[m] # Unknown
    /\ NoFile \notin Job \cup DOMAIN Tokens /\ Unknown \notin Job
    /\ Raised \notin DOMAIN Tokens \cup {NoFile}
    /\ MaxDisturbs \in Nat

VARIABLES
    content,        \* each document: absent, published, altered or unreadable
    state,          \* the .state files
    statePart,      \* their .tmp files
    meta,           \* the .meta.json files
    metaPart,       \* their .tmp files
    slot,           \* the staged files
    slotPart,       \* their .tmp files
    bytes,          \* what the halves of an inode hold: what a job attached, or nothing
    text,           \* what an inode of a description holds: a job's, nothing, or garbage
    disturbs,       \* bounded: what others have done
    pc,             \* where each job is
    req,            \* what it was called with
    source,         \* the inode it copies from
    handle,         \* the inode it writes to
    shared          \* history: the inodes opened while others had them in hand, and copies

drive == <<content, state, statePart, meta, metaPart>>
slots == <<slot, slotPart>>
locals == <<source, handle>>
files == <<bytes, text, shared>>
vars == <<drive, slots, files, disturbs, pc, req, locals>>

Inode == Job \cup {NoFile}
Half == {1, 2}
Empty == [h \in Half |-> NoFile]
Attaching == {"open", "copy", "finish", "install", "describe", "write", "replace"}
Staging == {"look", "link", "fallback", "fill", "fill rest", "place"}
Working == Attaching \cup Staging

\* A call that returned, raised an error or was killed; one that SameFileError ended.
Ended == {"over", "raised"}

Named(j) == req[j].name

\* A file of which both halves are one job's.
Whole(i) == bytes[i][1] = bytes[i][2] /\ bytes[i][1] # NoFile

-----------------------------------------------------------------------------
Init ==
    /\ content = [d \in Content |-> "absent"]
    /\ state = [n \in Name |-> NoFile]
    /\ statePart = [n \in Name |-> NoFile]
    /\ meta = [n \in Name |-> NoFile]
    /\ metaPart = [n \in Name |-> NoFile]
    /\ slot = [n \in Name |-> NoFile]
    /\ slotPart = [n \in Name |-> NoFile]
    /\ bytes = [i \in Job |-> Empty]
    /\ text = [i \in Job |-> NoFile]
    /\ disturbs = 0
    /\ pc = [j \in Job |-> "idle"]
    /\ req = [j \in Job |-> CHOOSE r \in Calls : TRUE]
    /\ source = [j \in Job |-> NoFile]
    /\ handle = [j \in Job |-> NoFile]
    /\ shared = {}

Goto(j, label) == pc' = [pc EXCEPT ![j] = label]
Step(j, from, to) == pc[j] = from /\ Goto(j, to)

Begin(j) ==
    /\ pc[j] = "idle"
    /\ \E r \in Calls :
            /\ req' = [req EXCEPT ![j] = r]
            /\ Goto(j, IF r.op = "attach" THEN "open" ELSE "look")
    /\ UNCHANGED <<drive, slots, files, disturbs, locals>>

\* Killed, or stopped by an OSError: there is no handler, and what was written stays.
Stop(j) ==
    /\ pc[j] \in Working
    /\ Goto(j, "over")
    /\ source' = [source EXCEPT ![j] = NoFile]
    /\ handle' = [handle EXCEPT ![j] = NoFile]
    /\ UNCHANGED <<drive, slots, files, disturbs, req>>

\* publish(): idempotent, and it repairs what was altered.
Publish(d) ==
    /\ content[d] # "published"
    /\ content' = [content EXCEPT ![d] = "published"]
    /\ UNCHANGED <<state, statePart, meta, metaPart, slots, files, disturbs,
                   pc, req, locals>>

\* Others edit a document, so that it still parses or does not, or publish it and rename
\* a .tmp file that a second publisher has just truncated; or they clean the slot directory.
Disturb ==
    /\ disturbs < MaxDisturbs
    /\ disturbs' = disturbs + 1
    /\ \/ /\ \E d \in Content :
                \/ /\ content[d] = "published"
                   /\ content' = [content EXCEPT ![d] = "altered"]
                \/ content' = [content EXCEPT ![d] = "unreadable"]
          /\ UNCHANGED slot
       \/ /\ \E n \in Name :
                /\ slot[n] # NoFile
                /\ slot' = [slot EXCEPT ![n] = NoFile]
          /\ UNCHANGED content
    /\ UNCHANGED <<state, statePart, meta, metaPart, slotPart, files, pc,
                   req, locals>>

\* An inode that others have in hand: one that another call has open, one that has the
\* final name in the slot directory, or one whose .tmp name another call is about to
\* write through or to rename.
Copying == {"copy", "finish", "fill", "fill rest"}
Writing == {"copy", "finish", "install"}
Placing == {"fill", "fill rest", "place"}
Overlaps(j, labels) == \E k \in Job \ {j} : pc[k] \in labels /\ Named(k) = Named(j)
InHand(j, i, labels) ==
    \/ \E k \in Job \ {j} : pc[k] \in Copying /\ handle[k] = i
    \/ slot[Named(j)] = i
    \/ Overlaps(j, labels)

\* An inode is opened for writing, which empties it whoever else has it in hand.
Truncate(j, i, labels) ==
    /\ handle' = [handle EXCEPT ![j] = i]
    /\ bytes' = [bytes EXCEPT ![i] = Empty]
    /\ shared' = IF InHand(j, i, labels) THEN shared \cup {i} ELSE shared \ {i}
    /\ UNCHANGED text

-----------------------------------------------------------------------------
(* attach() *)

Still == UNCHANGED <<content, slots, disturbs, req, source>>

\* The document is missing, altered or unreadable, the state file is missing, or the
\* token count given is another.
Refuse(j) ==
    /\ Step(j, "open", "over")
    /\ UNCHANGED <<state, statePart, meta, metaPart, files, handle>> /\ Still

\* The document is there and digests to its name; the .tmp file is created, or the one
\* that is there is truncated.
Open(j) ==
    /\ Step(j, "open", "copy")
    /\ content[Named(j)[1]] = "published"
    /\ LET i == IF statePart[Named(j)] = NoFile THEN j ELSE statePart[Named(j)] IN
       /\ statePart' = [statePart EXCEPT ![Named(j)] = i]
       /\ Truncate(j, i, Writing)
    /\ UNCHANGED <<state, meta, metaPart>> /\ Still

Copy(j) ==
    /\ Step(j, "copy", "finish")
    /\ bytes' = [bytes EXCEPT ![handle[j]][1] = j]
    /\ UNCHANGED <<state, statePart, meta, metaPart, text, shared, handle>> /\ Still

Finish(j) ==
    /\ Step(j, "finish", "install")
    /\ bytes' = [bytes EXCEPT ![handle[j]][2] = j]
    /\ handle' = [handle EXCEPT ![j] = NoFile]
    /\ UNCHANGED <<state, statePart, meta, metaPart, text, shared>> /\ Still

\* Mutant of Install: the file is linked under its final name and keeps the .tmp name.
InstallLink(j) ==
    /\ Step(j, "install", "describe")
    /\ statePart[Named(j)] # NoFile
    /\ state' = [state EXCEPT ![Named(j)] = statePart[Named(j)]]
    /\ UNCHANGED <<statePart, meta, metaPart, files, handle>> /\ Still

\* Whatever has the .tmp name by now is renamed.
Install(j) ==
    /\ Step(j, "install", "describe")
    /\ statePart[Named(j)] # NoFile
    /\ state' = [state EXCEPT ![Named(j)] = statePart[Named(j)]]
    /\ statePart' = [statePart EXCEPT ![Named(j)] = NoFile]
    /\ UNCHANGED <<meta, metaPart, files, handle>> /\ Still

\* The description likewise: opened, written at once, renamed.
Describe(j) ==
    /\ Step(j, "describe", "write")
    /\ LET i == IF metaPart[Named(j)] = NoFile THEN j ELSE metaPart[Named(j)] IN
       /\ metaPart' = [metaPart EXCEPT ![Named(j)] = i]
       /\ text' = [text EXCEPT ![i] = NoFile]
       /\ handle' = [handle EXCEPT ![j] = i]
    /\ UNCHANGED <<state, statePart, meta, bytes, shared>> /\ Still

\* Over another's text, which may be the longer one, it may come to garbage.
Write(j) ==
    /\ Step(j, "write", "replace")
    /\ \E t \in {j} \cup (IF text[handle[j]] = NoFile THEN {} ELSE {Unknown}) :
            text' = [text EXCEPT ![handle[j]] = t]
    /\ handle' = [handle EXCEPT ![j] = NoFile]
    /\ UNCHANGED <<state, statePart, meta, metaPart, bytes, shared>> /\ Still

Replace(j) ==
    /\ Step(j, "replace", "over")
    /\ metaPart[Named(j)] # NoFile
    /\ meta' = [meta EXCEPT ![Named(j)] = metaPart[Named(j)]]
    /\ metaPart' = [metaPart EXCEPT ![Named(j)] = NoFile]
    /\ UNCHANGED <<state, statePart, files, handle>> /\ Still

\* Another call has renamed the file: FileNotFoundError.
LosePart(j) ==
    /\ \/ Step(j, "install", "over") /\ statePart[Named(j)] = NoFile
       \/ Step(j, "replace", "over") /\ metaPart[Named(j)] = NoFile
    /\ UNCHANGED <<state, statePart, meta, metaPart, files, handle>> /\ Still

-----------------------------------------------------------------------------
(* stage() *)

Fixed == UNCHANGED <<drive, disturbs, req, text>>

\* cache_for(): this key's attachment of this content, or none; an attachment once there
\* stays.  Whatever is in the slot directory under its name is taken for it.
Look(j) ==
    /\ pc[j] = "look"
    /\ Goto(j, IF state[Named(j)] = NoFile \/ slot[Named(j)] # NoFile THEN "over" ELSE "link")
    /\ UNCHANGED <<slots, bytes, shared, locals>> /\ Fixed

Link(j) ==
    /\ Step(j, "link", "place")
    /\ slotPart[Named(j)] = NoFile
    /\ slotPart' = [slotPart EXCEPT ![Named(j)] = state[Named(j)]]
    /\ UNCHANGED <<slot, bytes, shared, locals>> /\ Fixed

\* The link is refused: another filesystem, another owner, or a .tmp file that is there.
NoLink(j) ==
    /\ Step(j, "link", "fallback")
    /\ UNCHANGED <<slots, bytes, shared, locals>> /\ Fixed

\* The one that is there is a link to the attachment itself: copyfile raises
\* SameFileError.
SameFile(j) ==
    /\ Step(j, "fallback", "raised")
    /\ slotPart[Named(j)] = state[Named(j)]
    /\ UNCHANGED <<slots, bytes, shared, locals>> /\ Fixed

\* Mutant of OpenSlot: the copy is made under the final name.
OpenSlotInPlace(j) ==
    /\ Step(j, "fallback", "fill")
    /\ slotPart[Named(j)] = NoFile
    /\ slot' = [slot EXCEPT ![Named(j)] = j]
    /\ slotPart' = [slotPart EXCEPT ![Named(j)] = j]
    /\ source' = [source EXCEPT ![j] = state[Named(j)]]
    /\ Truncate(j, j, Placing) /\ Fixed

\* The .tmp file is opened for a copy, a new one or the one that is there, which may
\* be the staged file's other name.
OpenSlot(j) ==
    /\ Step(j, "fallback", "fill")
    /\ slotPart[Named(j)] # state[Named(j)]
    /\ LET i == IF slotPart[Named(j)] = NoFile THEN j ELSE slotPart[Named(j)] IN
       /\ slotPart' = [slotPart EXCEPT ![Named(j)] = i]
       /\ Truncate(j, i, Placing)
    /\ source' = [source EXCEPT ![j] = state[Named(j)]]
    /\ UNCHANGED slot /\ Fixed

Fill(j) ==
    /\ Step(j, "fill", "fill rest")
    /\ bytes' = [bytes EXCEPT ![handle[j]][1] = bytes[source[j]][1]]
    /\ UNCHANGED <<slots, shared, locals>> /\ Fixed

FillRest(j) ==
    /\ Step(j, "fill rest", "place")
    /\ bytes' = [bytes EXCEPT ![handle[j]][2] = bytes[source[j]][2]]
    /\ shared' = IF source[j] \in shared THEN shared \cup {handle[j]} ELSE shared
    /\ source' = [source EXCEPT ![j] = NoFile]
    /\ handle' = [handle EXCEPT ![j] = NoFile]
    /\ UNCHANGED slots /\ Fixed

\* Renaming one link of a file to another does nothing.
Place(j) ==
    /\ Step(j, "place", "over")
    /\ slotPart[Named(j)] # NoFile
    /\ IF slotPart[Named(j)] = slot[Named(j)]
       THEN UNCHANGED slots
       ELSE /\ slot' = [slot EXCEPT ![Named(j)] = slotPart[Named(j)]]
            /\ slotPart' = [slotPart EXCEPT ![Named(j)] = NoFile]
    /\ UNCHANGED <<bytes, shared, locals>> /\ Fixed

LoseSlotPart(j) ==
    /\ Step(j, "place", "over")
    /\ slotPart[Named(j)] = NoFile
    /\ UNCHANGED <<slots, bytes, shared, locals>> /\ Fixed

-----------------------------------------------------------------------------
(* What a reader is offered *)

\* describe(): the lineage and the ABI that an attachment was recorded with, unknown
\* where there is no description or it cannot be read.
Described(n) == meta[n] # NoFile /\ text[meta[n]] \in Job
Lineage(n) ==
    IF Described(n) /\ req[text[meta[n]]].lineage
    THEN LineageOf[Named(text[meta[n]])[2].model] ELSE Unknown
ABI(n) == IF Described(n) THEN Named(text[meta[n]])[2].abi ELSE Unknown

\* Mutant of CacheForLineage: the cache ABI is not compared.
CacheForLineageOnly(d, k, lineage) ==
    IF state[<<d, k>>] # NoFile THEN {state[<<d, k>>]}
    ELSE {state[<<d, o>>] : o \in {o \in Key :
            /\ state[<<d, o>>] # NoFile
            /\ lineage # Unknown /\ Lineage(<<d, o>>) = lineage}}

\* cache_for_lineage(): the exact attachment, else one of the same lineage and ABI.
CacheForLineage(d, k, lineage) ==
    IF state[<<d, k>>] # NoFile THEN {state[<<d, k>>]}
    ELSE {state[<<d, o>>] : o \in {o \in Key :
            /\ state[<<d, o>>] # NoFile
            /\ lineage # Unknown /\ Lineage(<<d, o>>) = lineage
            /\ ABI(<<d, o>>) = k.abi}}

\* _common_prefix(): how many tokens two documents start with together.
CommonPrefix ==
    [p \in Content \X Content |->
        LET a == Tokens[p[1]]  b == Tokens[p[2]] IN
        Cardinality({i \in DOMAIN a \cap DOMAIN b : \A h \in 1..i : a[h] = b[h]})]

\* A document attached for k is not JSON, or not UTF-8, any more.
Unreadable(k) ==
    \E d \in Content : state[<<d, k>>] # NoFile /\ content[d] = "unreadable"

\* Mutant of BestAttachment: the last document that qualifies is kept.
LastAttachment(target, k, minimum) ==
    LET Shared(d) == CommonPrefix[<<d, target>>]
        Better(best, d) ==
            IF /\ state[<<d, k>>] # NoFile
               /\ content[d] = "published"
               /\ Shared(d) >= minimum
            THEN d ELSE best
    IN  IF Unreadable(k) THEN Raised ELSE FoldLeft(Better, NoFile, Published)

\* best_attachment(): the first document, of those attached for k and intact, that
\* shares most tokens with the target, and at least minimum.  A document that was altered
\* is skipped; what json.loads() or read_text() raises is not caught.
BestAttachment(target, k, minimum) ==
    LET Shared(d) == CommonPrefix[<<d, target>>]
        Better(best, d) ==
            IF /\ state[<<d, k>>] # NoFile
               /\ content[d] = "published"
               /\ Shared(d) >= minimum
               /\ best = NoFile \/ Shared(d) > Shared(best)
            THEN d ELSE best
    IN  IF Unreadable(k) THEN Raised ELSE FoldLeft(Better, NoFile, Published)

-----------------------------------------------------------------------------
Attach(j) ==
    \/ Refuse(j) \/ Open(j) \/ Copy(j) \/ Finish(j) \/ Install(j)
    \/ Describe(j) \/ Write(j) \/ Replace(j) \/ LosePart(j)
Stage(j) ==
    \/ Look(j) \/ Link(j) \/ NoLink(j) \/ SameFile(j)
    \/ OpenSlot(j) \/ Fill(j) \/ FillRest(j) \/ Place(j) \/ LoseSlotPart(j)

Next ==
    \/ \E j \in Job : Begin(j) \/ Stop(j) \/ Attach(j) \/ Stage(j)
    \/ \E d \in Content : Publish(d)
    \/ Disturb

Spec == Init /\ [][Next]_vars

-----------------------------------------------------------------------------
(* Properties *)

\* Every variable has its type; no rename leaves an attachment its .tmp name as well.
DriveTypeOK ==
    /\ content \in [Content -> {"absent", "published", "altered", "unreadable"}]
    /\ \A names \in {state, statePart, meta, metaPart, slot, slotPart} :
            names \in [Name -> Inode]
    /\ bytes \in [Job -> [Half -> Inode]]
    /\ text \in [Job -> Inode \cup {Unknown}]
    /\ shared \subseteq Job
    /\ disturbs \in 0..MaxDisturbs
    /\ pc \in [Job -> {"idle"} \cup Working \cup Ended]
    /\ req \in [Job -> Calls]
    /\ source \in [Job -> Inode] /\ handle \in [Job -> Inode]
    /\ \A n \in Name : state[n] # NoFile => state[n] # statePart[n]

\* "an attachment is only ever returned to the exact model and cache ABI it was
\* written by" (shared.py, lines 16-17), or by the lineage route to a model of the same
\* lineage and the same ABI: no half of what is offered is anything else, whoever writes
\* the same .tmp file meanwhile; and it is whole, unless the call that opened it did so
\* while another call of that name was writing, or about to rename, that .tmp file
\* (attach, lines 371-373).
OfferedIsOwn ==
    \A d \in Content, k \in Key :
        \A i \in CacheForLineage(d, k, LineageOf[k.model]) :
            /\ \A h \in Half : bytes[i][h] # NoFile =>
                  LET by == Named(bytes[i][h]) IN
                  /\ by[1] = d
                  /\ by[2].abi = k.abi
                  /\ LineageOf[by[2].model] = LineageOf[k.model]
            /\ i \notin shared => Whole(i)

\* A file under its name in the slot directory holds nothing but an attachment of that
\* name, although staging may be cut short anywhere, fall back to a copy, or meet what an
\* earlier one left behind (stage, lines 426-438); and it is whole, unless it, or the
\* attachment it was made of, was opened for writing while another call of that name had
\* it in hand.
StagedIsWhole ==
    \A n \in Name : slot[n] # NoFile =>
        /\ \A h \in Half : bytes[slot[n]][h] # NoFile => Named(bytes[slot[n]][h]) = n
        /\ slot[n] \notin shared => Whole(slot[n])

\* best_attachment() offers no document that was altered or cannot be read, and none
\* that shares less with the target than another it could have offered (lines 462-479).
\* It raises, and offers nothing, exactly if a document attached for the key cannot be
\* read, whatever that document shares with the target.
BestIsLongest ==
    \A t \in Content, k \in Key, minimum \in 2..3 :
        LET best == BestAttachment(t, k, minimum)
            Shared(d) == CommonPrefix[<<d, t>>]
            attached == {d \in Content : state[<<d, k>>] # NoFile}
            usable == {d \in attached : content[d] = "published" /\ Shared(d) >= minimum}
        IN  /\ best = Raised <=> \E d \in attached : content[d] = "unreadable"
            /\ best # Raised =>
                  IF usable = {} THEN best = NoFile
                  ELSE best \in usable /\ \A d \in usable : Shared(d) <= Shared(best)

\* stage() places the attachment it has found: "Place this model's attachment where
\* its runtime will look, return the basename" (line 412).  It does not come to copy the
\* attachment onto a link of itself, but for a link that a stage still at work is about
\* to rename.
StagePlaces ==
    \A j \in Job :
        pc[j] = "fallback" /\ slotPart[Named(j)] = state[Named(j)] => Overlaps(j, Placing)

=============================================================================
