-------------------------- MODULE ImportExportProofs --------------------------
(***************************************************************************)
(* What holds of import_, and of what export wrote when no other export of *)
(* its stem overlapped it, for every number of processes, artifacts, slots *)
(* and live turns, whatever the server is and whichever request fails.     *)
(***************************************************************************)
EXTENDS ImportExport, TLAPS

Fields == {"pc", "path", "slot", "verify", "known", "reuses", "header", "payload"}

\* Where an import has a staged copy, where its header has been accepted, and
\* where its restored state has been compared with the header.
HoldsCopy == {"restore", "probe", "clear", "again", "erase"}
IsAccepted == HoldsCopy \cup {"stage", "ok"}
IsCompared == {"probe", "clear", "again", "ok"}

Shaped ==
    /\ DOMAIN job = Process /\ DOMAIN content = Slot /\ DOMAIN owner = Slot
    /\ \A p \in Process :
        /\ DOMAIN job[p] = Fields
        /\ Staged(p) \in DOMAIN saves
        /\ job[p].pc \in IsAccepted \cup {"read", "read probe", "decide"} => job[p].slot \in Slot

\* A staged copy is the payload that was hashed, and goes with the import.
CopyIsOwn(p) ==
    /\ job[p].pc \in HoldsCopy => saves[Staged(p)] = job[p].payload
    /\ job[p].pc \notin HoldsCopy \cup {"killed"} => saves[Staged(p)] = None

\* What an import has checked stays checked.
Checked(p) ==
    LET j == job[p] IN
    /\ j.pc \in IsAccepted => /\ Accepts(runtime, j.header)
                              /\ IsCompound(j.header.format) => j.verify
    /\ j.pc \in IsCompared => /\ j.payload.of # None
                              /\ IsCompound(j.header.format) => j.header.coverage = j.payload

\* What an import may say of a slot that nobody has used since it restored it.
OwnIsKnown(p) ==
    LET j == job[p] IN
    (j.pc \in IsCompared /\ owner[j.slot] = p) =>
        /\ j.pc \in {"probe", "ok"} => content[j.slot] = j.payload
        /\ j.pc \in {"clear", "again"} => (j.reuses => worth[j.payload.of] = "good")
        /\ j.pc = "ok" => (j.verify => worth[j.payload.of] = "good")

Sound(p) == CopyIsOwn(p) /\ Checked(p) /\ OwnIsKnown(p)

IInv == Shaped /\ \A p \in Process : Sound(p)

-----------------------------------------------------------------------------
\* The initial state satisfies the inductive invariant.
LEMMA InitIInv == Init => IInv
<1> SUFFICES ASSUME Init PROVE IInv
    OBVIOUS
<1>1. Shaped
    BY DEF Init, Shaped, Idle, Fields, IsAccepted, HoldsCopy
<1>2. ASSUME NEW p \in Process PROVE Sound(p)
    BY DEF Init, Sound, CopyIsOwn, Checked, OwnIsKnown, Idle, Staged,
           HoldsCopy, IsAccepted, IsCompared
<1> QED
    BY <1>1, <1>2 DEF IInv

\* A step that leaves a process, its copy and the slots it owns alone keeps what
\* is sound of it.
LEMMA OthersKeep ==
    ASSUME IInv, NEW p \in Process,
           job'[p] = job[p], runtime' = runtime, worth' = worth,
           saves'[Staged(p)] = saves[Staged(p)],
           \A s \in Slot : owner'[s] = p => owner[s] = p /\ content'[s] = content[s]
    PROVE  Sound(p)'
<1>1. Shaped /\ Sound(p)
    BY DEF IInv
<1>2. CopyIsOwn(p)'
    BY <1>1 DEF Sound, CopyIsOwn, Staged
<1>3. Checked(p)'
    BY <1>1 DEF Sound, Checked, Accepts, CacheAbi, OpaqueFormat, StateVersion, Advertised
<1>4. OwnIsKnown(p)'
    BY <1>1 DEF Sound, OwnIsKnown, Shaped, IsCompared, IsAccepted, HoldsCopy
<1> QED
    BY <1>2, <1>3, <1>4 DEF Sound

\* A step changes no job, and no staged copy, but those of process p.
OnlyJob(p) ==
    /\ DOMAIN job' = Process /\ DOMAIN job'[p] = Fields
    /\ \A q \in Process \ {p} : job'[q] = job[q]

OnlyFiles(p) ==
    /\ DOMAIN saves' = DOMAIN saves
    /\ \A q \in Process \ {p} : saves'[Staged(q)] = saves[Staged(q)]

OnlySlots(p) ==
    /\ DOMAIN content' = Slot /\ DOMAIN owner' = Slot
    /\ \A q \in Process \ {p}, s \in Slot :
           owner'[s] = q => owner[s] = q /\ content'[s] = content[s]

InImport(p) == job[p].pc \in IsAccepted \cup {"read", "read probe", "decide"}

\* What a step of process p must show: that its own job is sound, and that it
\* leaves the others alone.
LEMMA StepOf ==
    ASSUME IInv, NEW p \in Process, OnlyJob(p), OnlyFiles(p), OnlySlots(p),
           UNCHANGED <<runtime, worth>>,
           InImport(p)' => job'[p].slot \in Slot,
           Sound(p)'
    PROVE  IInv'
<1>1. \A q \in Process \ {p} : Sound(q)'
    BY OthersKeep DEF OnlyJob, OnlyFiles, OnlySlots
<1>2. Shaped'
    BY DEF IInv, Shaped, Staged, OnlyJob, OnlyFiles, OnlySlots, InImport
<1> QED
    BY <1>1, <1>2 DEF IInv

\* The files have names of their own.
LEMMA NamesDiffer ==
    ASSUME NEW p \in Process
    PROVE  /\ \A q \in Process \ {p} : Staged(p) # Staged(q)
           /\ \A q \in Process : Staged(q) # Probe /\ Staged(q) # Save(p)
BY DEF Staged, Save, Probe

\* Writing or removing a file that is not a staged copy, or one's own.
LEMMA Writing ==
    ASSUME IInv, NEW p \in Process, NEW n \in {Staged(p), Save(p), Probe}, NEW f,
           saves' = [saves EXCEPT ![n] = f]
    PROVE  /\ OnlyFiles(p)
           /\ saves'[Staged(p)] = IF n = Staged(p) THEN f ELSE saves[Staged(p)]
BY NamesDiffer DEF OnlyFiles, IInv, Shaped

\* A job that changes where it is, and nothing else.
LEMMA Going ==
    ASSUME IInv, NEW p \in Process, NEW to, Goes(p, to)
    PROVE  /\ OnlyJob(p) /\ job'[p].pc = to
           /\ job'[p].slot = job[p].slot /\ job'[p].header = job[p].header
           /\ job'[p].verify = job[p].verify /\ job'[p].reuses = job[p].reuses
           /\ job'[p].payload = job[p].payload
BY DEF Goes, OnlyJob, IInv, Shaped, Fields

\* A step that is not of an import leaves the slots alone and has no staged copy.
LEMMA ExportKeeps ==
    ASSUME IInv, NEW p \in Process, OnlyJob(p), OnlyFiles(p), saves'[Staged(p)] = None,
           UNCHANGED <<runtime, worth, content, owner>>, ~InImport(p)'
    PROVE  IInv'
<1>1. OnlySlots(p)
    BY DEF IInv, Shaped, OnlySlots
<1>2. Sound(p)'
    BY DEF Sound, CopyIsOwn, Checked, OwnIsKnown, InImport, IsAccepted, IsCompared,
           HoldsCopy, Staged
<1> QED
    BY <1>1, <1>2, StepOf DEF InImport

-----------------------------------------------------------------------------
(* export, and the beginnings of both calls *)

LEMMA ExportStepKeeps ==
    ASSUME IInv, NEW p \in Process, Export(p)
    PROVE  IInv'
<1>0. /\ Shaped /\ DOMAIN job = Process /\ DOMAIN job[p] = Fields
      /\ job[p].pc \notin HoldsCopy \cup {"killed"} => saves[Staged(p)] = None
    BY DEF IInv, Shaped, Sound, CopyIsOwn
<1>1. CASE \E a \in Path, s \in Slot : BeginExport(p, a, s)
    <2>1. OnlyJob(p) /\ job'[p].pc \in {"save", "raised"}
        BY <1>0, <1>1 DEF BeginExport, Idle, OnlyJob, Fields
    <2>2. OnlyFiles(p) /\ saves'[Staged(p)] = None
        BY <1>0, <1>1 DEF BeginExport, Begin, Ended, OnlyFiles, HoldsCopy
    <2> QED
        BY <1>1, <2>1, <2>2, ExportKeeps
           DEF BeginExport, Begin, InImport, IsAccepted, HoldsCopy
<1>2. CASE PostSave(p) \/ HashSave(p)
    <2>1. OnlyJob(p) /\ job'[p].pc \in {"head", "raised", "copy"}
        BY <1>0, <1>2 DEF PostSave, HashSave, OnlyJob, Fields
    <2>2. OnlyFiles(p) /\ saves'[Staged(p)] = None
        BY <1>0, <1>2, Writing, NamesDiffer DEF PostSave, HashSave, OnlyFiles, HoldsCopy
    <2> QED
        BY <1>2, <2>1, <2>2, ExportKeeps
           DEF PostSave, HashSave, server, slots, InImport, IsAccepted, HoldsCopy
<1>3. CASE SaveFails(p)
    <2>1. OnlyJob(p) /\ job'[p].pc = "raised"
        BY <1>3, Going DEF SaveFails
    <2>2. OnlyFiles(p) /\ saves'[Staged(p)] = None
        BY <1>0, <1>3, Writing, NamesDiffer DEF SaveFails, HoldsCopy
    <2> QED
        BY <1>3, <2>1, <2>2, ExportKeeps
           DEF SaveFails, server, slots, InImport, IsAccepted, HoldsCopy
<1>4. CASE ReadHead(p)
    <2>1. OnlyJob(p) /\ job'[p].pc \in {"raised", "identify"}
        BY <1>0, <1>4, Going DEF ReadHead, OnlyJob, Fields
    <2>2. OnlyFiles(p) /\ saves'[Staged(p)] = None
        BY <1>0, <1>4 DEF ReadHead, OnlyFiles, HoldsCopy
    <2> QED
        BY <1>4, <2>1, <2>2, ExportKeeps
           DEF ReadHead, server, slots, InImport, IsAccepted, HoldsCopy
<1>5. CASE CheckVersion(p) \/ CheckAppendix(p)
    <2>1. OnlyJob(p) /\ job'[p].pc \in {"raised", "appendix", "hash"}
        BY <1>5, Going DEF CheckVersion, CheckAppendix, Ends
    <2>2. OnlyFiles(p) /\ saves'[Staged(p)] = None
        BY <1>0, <1>5, Writing, NamesDiffer
           DEF CheckVersion, CheckAppendix, Ends, OnlyFiles, HoldsCopy
    <2> QED
        BY <1>5, <2>1, <2>2, ExportKeeps
           DEF CheckVersion, CheckAppendix, server, slots, InImport, IsAccepted, HoldsCopy
<1>6. CASE CopySave(p)
    <2>1. OnlyJob(p) /\ job'[p].pc \in {"raised", "exported"}
        BY <1>6, Going DEF CopySave, Ends
    <2>2. OnlyFiles(p) /\ saves'[Staged(p)] = None
        BY <1>0, <1>6, Writing, NamesDiffer DEF CopySave, Ends, HoldsCopy
    <2> QED
        BY <1>6, <2>1, <2>2, ExportKeeps
           DEF CopySave, server, slots, InImport, IsAccepted, HoldsCopy
<1> QED
    BY <1>1, <1>2, <1>3, <1>4, <1>5, <1>6 DEF Export

-----------------------------------------------------------------------------
(* import_ *)

\* A request of p that changes its slot.
LEMMA Holding ==
    ASSUME IInv, NEW p \in Process, NEW c, Hold(p, c), InImport(p)
    PROVE  /\ OnlySlots(p)
           /\ content'[job[p].slot] = c
           /\ owner'[job[p].slot] = p => job[p].pc = "restore" \/ owner[job[p].slot] = p
BY NoneAssumption DEF Hold, OnlySlots, IInv, Shaped, InImport

\* A step of p before its first request, after the artifact was found.
LEMMA BeforeRestoreKeeps ==
    ASSUME IInv, NEW p \in Process,
           \/ \E a \in Path, s \in Slot, v \in BOOLEAN : BeginImport(p, a, s, v)
           \/ ReadHeader(p) \/ Decide(p) \/ Stage(p)
    PROVE  IInv'
<1>0. /\ Shaped /\ DOMAIN job = Process /\ DOMAIN job[p] = Fields /\ Sound(p)
      /\ InImport(p) => job[p].slot \in Slot
    BY DEF IInv, Shaped, InImport
<1>1. CASE \E a \in Path, s \in Slot, v \in BOOLEAN : BeginImport(p, a, s, v)
    <2>1. OnlyJob(p) /\ job'[p].pc \in {"read", "refused"} /\ job'[p].slot \in Slot
        <3>1. PICK a \in Path, s \in Slot, v \in BOOLEAN : BeginImport(p, a, s, v)
            BY <1>1
        <3> QED
            BY <1>0, <3>1 DEF BeginImport, Idle, OnlyJob, Fields
    <2>2. saves'[Staged(p)] = None /\ OnlyFiles(p) /\ OnlySlots(p)
        BY <1>0, <1>1 DEF BeginImport, Begin, Ended, OnlyFiles, OnlySlots, HoldsCopy,
                          Sound, CopyIsOwn, Shaped
    <2>3. Sound(p)'
        BY <2>1, <2>2 DEF Sound, CopyIsOwn, Checked, OwnIsKnown, IsAccepted, IsCompared,
                          HoldsCopy, Staged
    <2> QED
        BY <1>1, <2>1, <2>2, <2>3, StepOf DEF BeginImport, Begin
<1>2. CASE ReadHeader(p)
    <2>1. OnlyJob(p) /\ job'[p].pc \in {"decide", "refused"} /\ job'[p].slot = job[p].slot
        BY <1>0, <1>2 DEF ReadHeader, OnlyJob, Fields
    <2>2. saves'[Staged(p)] = None /\ OnlyFiles(p) /\ OnlySlots(p)
        BY <1>0, <1>2 DEF ReadHeader, OnlyFiles, OnlySlots, HoldsCopy, slots,
                          Sound, CopyIsOwn, Shaped
    <2>3. Sound(p)'
        BY <2>1, <2>2 DEF Sound, CopyIsOwn, Checked, OwnIsKnown, IsAccepted, IsCompared,
                          HoldsCopy, Staged
    <2> QED
        BY <1>0, <1>2, <2>1, <2>2, <2>3, StepOf DEF ReadHeader, server, InImport
<1>3. CASE Decide(p)
    <2>1. /\ OnlyJob(p) /\ job'[p].slot = job[p].slot /\ job'[p].header = job[p].header
          /\ job'[p].pc = IF Accepts(runtime, job[p].header) THEN "stage" ELSE "refused"
          /\ IsCompound(job[p].header.format) => job'[p].verify
        BY <1>0, <1>3 DEF Decide, OnlyJob, Fields
    <2>2. saves'[Staged(p)] = None /\ OnlyFiles(p) /\ OnlySlots(p)
        BY <1>0, <1>3 DEF Decide, OnlyFiles, OnlySlots, HoldsCopy, slots,
                          Sound, CopyIsOwn, Shaped
    <2>3. runtime' = runtime /\ worth' = worth
        BY <1>3 DEF Decide, server
    <2>4. Accepts(runtime, job[p].header) => Accepts(runtime', job'[p].header)
        BY <2>1, <2>3
    <2>5. Checked(p)'
        BY <2>1, <2>4 DEF Checked, IsAccepted, IsCompared, HoldsCopy
    <2>6. Sound(p)'
        BY <2>1, <2>2, <2>5 DEF Sound, CopyIsOwn, OwnIsKnown, IsCompared, HoldsCopy, Staged
    <2> QED
        BY <1>0, <1>3, <2>1, <2>2, <2>3, <2>6, StepOf DEF Decide, InImport
<1>4. CASE Stage(p)
    <2>1. /\ OnlyJob(p) /\ job'[p].slot = job[p].slot /\ job'[p].header = job[p].header
          /\ job'[p].verify = job[p].verify
          /\ \/ job'[p].pc = "restore" /\ saves'[Staged(p)] = job'[p].payload
             \/ job'[p].pc = "refused" /\ saves'[Staged(p)] = None
        <3>1. CASE Goes(p, "refused") /\ saves' = [saves EXCEPT ![Staged(p)] = None]
            <4>1. saves'[Staged(p)] = None
                BY <3>1, Writing
            <4>2. OnlyJob(p) /\ job'[p].pc = "refused" /\ job'[p].slot = job[p].slot
                  /\ job'[p].header = job[p].header /\ job'[p].verify = job[p].verify
                BY <3>1, Going
            <4> QED
                BY <4>1, <4>2
        <3>2. ASSUME NEW f, job' = [job EXCEPT ![p].pc = "restore", ![p].payload = f],
                     saves' = [saves EXCEPT ![Staged(p)] = f]
              PROVE  /\ OnlyJob(p) /\ job'[p].slot = job[p].slot
                     /\ job'[p].header = job[p].header /\ job'[p].verify = job[p].verify
                     /\ job'[p].pc = "restore" /\ job'[p].payload = f
                     /\ saves'[Staged(p)] = f
            BY <1>0, <3>2 DEF OnlyJob, Fields, Shaped
        <3> QED
            BY <1>4, <3>1, <3>2 DEF Stage, Ends
    <2>2. OnlyFiles(p)
        BY <1>4, Writing DEF Stage, Ends
    <2>3. /\ runtime' = runtime /\ worth' = worth /\ OnlySlots(p)
        BY <1>0, <1>4 DEF Stage, server, slots, OnlySlots, Shaped
    <2>4. Accepts(runtime', job'[p].header) /\ (IsCompound(job'[p].header.format) => job'[p].verify)
        BY <1>0, <1>4, <2>1, <2>3 DEF Stage, Sound, Checked, IsAccepted
    <2>5. Sound(p)'
        BY <2>1, <2>4 DEF Sound, CopyIsOwn, Checked, OwnIsKnown, IsCompared, HoldsCopy, Staged
    <2> QED
        BY <1>0, <1>4, <2>1, <2>2, <2>3, <2>5, StepOf DEF Stage, InImport, IsAccepted
<1> QED
    BY <1>1, <1>2, <1>3, <1>4

\* A step that takes an import to its refusal, with its copy removed or never made.
LEMMA RefusedKeeps ==
    ASSUME IInv, NEW p \in Process, OnlyJob(p), OnlyFiles(p), OnlySlots(p),
           job'[p].pc \in {"refused", "raised"}, saves'[Staged(p)] = None,
           UNCHANGED <<runtime, worth>>
    PROVE  IInv'
<1>1. Sound(p)' /\ ~InImport(p)'
    BY DEF Sound, CopyIsOwn, Checked, OwnIsKnown, InImport, IsAccepted, IsCompared,
           HoldsCopy, Staged
<1> QED
    BY <1>1, StepOf

\* An import that goes on with its copy: what it has checked is still so.
LEMMA GoingOn ==
    ASSUME IInv, NEW p \in Process, NEW to \in HoldsCopy \cup {"ok"},
           job[p].pc \in HoldsCopy, Goes(p, to), OnlyFiles(p), OnlySlots(p),
           saves'[Staged(p)] = IF to = "ok" THEN None ELSE saves[Staged(p)],
           UNCHANGED <<runtime, worth>>,
           job[p].pc \in IsCompared \/ to \notin IsCompared
             \/ (job[p].payload.of # None /\ CoverageMatches(p)),
           OwnIsKnown(p)'
    PROVE  IInv'
<1>1. OnlyJob(p) /\ Sound(p) /\ Shaped
    BY Going DEF IInv
<1>2. /\ job'[p].pc = to /\ job'[p].slot = job[p].slot /\ job'[p].header = job[p].header
      /\ job'[p].verify = job[p].verify /\ job'[p].payload = job[p].payload
    BY Going
<1>3. CopyIsOwn(p)'
    BY <1>1, <1>2 DEF Sound, CopyIsOwn, HoldsCopy, Staged
<1>4. Accepts(runtime', job'[p].header)
    BY <1>1, <1>2 DEF Sound, Checked, IsAccepted
<1>5. Checked(p)'
    BY <1>1, <1>2, <1>4 DEF Sound, Checked, IsAccepted, IsCompared, HoldsCopy, CoverageMatches
<1> QED
    BY <1>1, <1>2, <1>3, <1>5, StepOf DEF Sound, InImport, Shaped, IsAccepted

\* A request of p that answers.
LEMMA AnswerKeeps ==
    ASSUME IInv, NEW p \in Process,
           PostRestore(p) \/ PostProbe(p) \/ PostClear(p) \/ PostAgain(p) \/ PostErase(p)
    PROVE  IInv'
<1>0. /\ Sound(p) /\ Shaped /\ InImport(p) /\ job[p].pc \in HoldsCopy
      /\ runtime' = runtime /\ worth' = worth
    BY DEF PostRestore, PostProbe, PostClear, PostAgain, PostErase, server, IInv,
           InImport, IsAccepted, HoldsCopy
<1>1. saves[Staged(p)] = job[p].payload
    BY <1>0 DEF Sound, CopyIsOwn
<1>2. ASSUME NEW to, Ends(p, to, Staged(p))
      PROVE  Goes(p, to) /\ OnlyFiles(p) /\ saves'[Staged(p)] = None
    BY <1>2, Writing DEF Ends
<1>3. ASSUME UNCHANGED saves PROVE OnlyFiles(p) /\ saves'[Staged(p)] = saves[Staged(p)]
    BY <1>3 DEF OnlyFiles
<1>4. UNCHANGED slots => OnlySlots(p)
    BY <1>0 DEF OnlySlots, slots, Shaped
<1>5. ASSUME NEW to, to \in {"refused", "raised"}, Ends(p, to, Staged(p)), OnlySlots(p)
      PROVE  IInv'
    BY <1>0, <1>2, <1>5, Going, RefusedKeeps
<1>6. CASE PostRestore(p)
    <2>1. OnlySlots(p) /\ content'[job[p].slot] = job[p].payload
        BY <1>0, <1>1, <1>6, Holding DEF PostRestore
    <2>2. CASE Goes(p, "erase") /\ UNCHANGED saves
        <3>1. OwnIsKnown(p)'
            BY <2>2, Going DEF OwnIsKnown, IsCompared
        <3> QED
            BY <1>0, <1>3, <2>1, <2>2, <3>1, GoingOn DEF HoldsCopy, IsCompared
    <2>3. CASE Ends(p, "refused", Staged(p))
        BY <1>5, <2>1, <2>3
    <2>4. CASE /\ CoverageMatches(p) /\ job[p].payload.of # None
               /\ job[p].verify /\ Goes(p, "probe") /\ UNCHANGED saves
        <3>1. OwnIsKnown(p)'
            BY <2>1, <2>4, Going DEF OwnIsKnown
        <3> QED
            BY <1>0, <1>3, <2>1, <2>4, <3>1, GoingOn DEF HoldsCopy
    <2>5. CASE /\ CoverageMatches(p) /\ job[p].payload.of # None
               /\ ~job[p].verify /\ Ends(p, "ok", Staged(p))
        <3>1. OwnIsKnown(p)'
            BY <1>2, <2>1, <2>5, Going DEF OwnIsKnown
        <3> QED
            BY <1>0, <1>2, <2>1, <2>5, <3>1, GoingOn
    <2> QED
        BY <1>6, <2>2, <2>3, <2>4, <2>5 DEF PostRestore
<1>7. CASE PostProbe(p)
    <2> DEFINE asked == file[job[p].path].payload.of
    <2>1. CASE asked = None
        BY <1>4, <1>5, <1>7, <2>1 DEF PostProbe
    <2>2. CASE asked # None
        <3>1. /\ OnlySlots(p) /\ OnlyFiles(p) /\ saves'[Staged(p)] = saves[Staged(p)]
              /\ owner'[job[p].slot] = p => owner[job[p].slot] = p
            BY <1>0, <1>3, <1>7, <2>2, Holding DEF PostProbe
        <3> DEFINE found ==
                /\ content[job[p].slot].of = asked /\ worth[asked] = "good"
                /\ IsCompound(job[p].header.format) => job[p].header.coverage.of = asked
        <3>0. job' = [job EXCEPT ![p].pc = "clear", ![p].reuses = found]
            BY <1>7, <2>2 DEF PostProbe
        <3> HIDE DEF found
        <3>2. /\ OnlyJob(p) /\ job'[p].pc = "clear" /\ job'[p].slot = job[p].slot
              /\ job'[p].header = job[p].header /\ job'[p].verify = job[p].verify
              /\ job'[p].payload = job[p].payload
            BY <1>0, <3>0 DEF OnlyJob, Shaped, IInv, Fields
        <3>3. job'[p].reuses => content[job[p].slot].of = asked /\ worth[asked] = "good"
            <4>1. job'[p].reuses = found
                BY <1>0, <3>0 DEF Shaped, IInv, Fields
            <4> QED
                BY <4>1 DEF found
        <3>4. OwnIsKnown(p)'
            BY <1>0, <1>7, <3>1, <3>2, <3>3 DEF PostProbe, Sound, OwnIsKnown, IsCompared
        <3>5. CopyIsOwn(p)'
            BY <1>0, <1>1, <3>1, <3>2 DEF CopyIsOwn, HoldsCopy, Staged
        <3>6. Accepts(runtime', job'[p].header)
            BY <1>0, <3>2 DEF Sound, Checked, IsAccepted
        <3>7. Checked(p)'
            BY <1>0, <1>7, <3>2, <3>6
               DEF PostProbe, Sound, Checked, IsAccepted, IsCompared, HoldsCopy
        <3> QED
            BY <1>0, <3>1, <3>2, <3>4, <3>5, <3>7, StepOf DEF Sound, InImport, Shaped
    <2> QED
        BY <2>1, <2>2
<1>8. CASE PostClear(p)
    <2>1. OnlySlots(p) /\ (owner'[job[p].slot] = p => owner[job[p].slot] = p)
        BY <1>0, <1>8, Holding DEF PostClear
    <2>2. OwnIsKnown(p)'
        BY <1>0, <1>8, <2>1, Going DEF PostClear, Sound, OwnIsKnown, IsCompared
    <2> QED
        BY <1>0, <1>3, <1>8, <2>1, <2>2, GoingOn DEF PostClear, HoldsCopy, IsCompared
<1>9. CASE PostAgain(p)
    <2>1. /\ OnlySlots(p) /\ content'[job[p].slot] = job[p].payload
          /\ owner'[job[p].slot] = p => owner[job[p].slot] = p
        BY <1>0, <1>1, <1>9, Holding DEF PostAgain
    <2>2. CASE ~job[p].reuses
        BY <1>5, <1>9, <2>1, <2>2 DEF PostAgain
    <2>3. CASE job[p].reuses
        <3>1. Ends(p, "ok", Staged(p))
            BY <1>9, <2>3 DEF PostAgain
        <3>2. OwnIsKnown(p)'
            BY <1>0, <1>2, <1>9, <2>1, <2>3, <3>1, Going
               DEF PostAgain, Sound, OwnIsKnown, IsCompared
        <3> QED
            BY <1>0, <1>2, <1>9, <2>1, <3>1, <3>2, GoingOn DEF PostAgain, IsCompared
    <2> QED
        BY <2>2, <2>3
<1>10. CASE PostErase(p)
    BY <1>0, <1>4, <1>5, <1>10, Holding DEF PostErase
<1> QED
    BY <1>6, <1>7, <1>8, <1>9, <1>10

\* A request of import_ that fails, whatever it did.
LEMMA FailureKeeps ==
    ASSUME IInv, NEW p \in Process, RequestFails(p)
    PROVE  IInv'
<1>0. /\ Sound(p) /\ Shaped /\ InImport(p) /\ job[p].pc \in HoldsCopy
      /\ runtime' = runtime /\ worth' = worth
    BY DEF RequestFails, server, IInv, InImport, IsAccepted, HoldsCopy
<1>1. OnlySlots(p)
    <2>1. PICK c : Hold(p, c) \/ UNCHANGED slots
        BY DEF RequestFails
    <2> QED
        BY <1>0, <2>1, Holding DEF OnlySlots, slots, Shaped
<1>2. CASE Ends(p, "refused", Staged(p))
    <2>1. OnlyFiles(p) /\ saves'[Staged(p)] = None
        BY <1>2, Writing DEF Ends
    <2>2. OnlyJob(p) /\ job'[p].pc = "refused"
        BY <1>2, Going DEF Ends
    <2> QED
        BY <1>0, <1>1, <2>1, <2>2, RefusedKeeps
<1>3. CASE Goes(p, "erase") /\ UNCHANGED saves
    <2>1. OwnIsKnown(p)'
        BY <1>3, Going DEF OwnIsKnown, IsCompared
    <2> QED
        BY <1>0, <1>1, <1>3, <2>1, GoingOn DEF HoldsCopy, IsCompared, OnlyFiles
<1> QED
    BY <1>2, <1>3 DEF RequestFails

\* The version probe, of an export or of an import.
LEMMA VersionProbeKeeps ==
    ASSUME IInv, NEW p \in Process,
           PostVersionProbe(p) \/ VersionProbeFails(p) \/ ReadVersionProbe(p)
    PROVE  IInv'
<1>0. /\ Shaped /\ OnlySlots(p) /\ runtime' = runtime /\ worth' = worth
      /\ saves[Staged(p)] = None /\ (InImport(p) => job[p].slot \in Slot)
    BY DEF PostVersionProbe, VersionProbeFails, ReadVersionProbe, server, slots, OnlySlots,
           IInv, Shaped, Sound, CopyIsOwn, HoldsCopy, InImport
<1>1. OnlyFiles(p) /\ saves'[Staged(p)] = None
    BY <1>0, Writing, NamesDiffer
       DEF PostVersionProbe, VersionProbeFails, ReadVersionProbe, OnlyFiles
<1>2. /\ OnlyJob(p) /\ job'[p].slot = job[p].slot
      /\ job[p].pc \in {"decide", "read probe"} \/ ~InImport(p)'
      /\ job'[p].pc \in {"identify", "decide", "name", "read probe", "raised", "refused"}
    <2>0. job[p].pc \in {"identify", "decide", "name", "read probe"}
        BY DEF PostVersionProbe, VersionProbeFails, ReadVersionProbe
    <2>1. CASE job' = [job EXCEPT ![p].known = TRUE] /\ job[p].pc \in {"identify", "decide"}
        <3>1. OnlyJob(p) /\ job'[p].slot = job[p].slot /\ job'[p].pc = job[p].pc
            BY <1>0, <2>1 DEF OnlyJob, Shaped, Fields
        <3> QED
            BY <2>1, <3>1 DEF InImport, IsAccepted, HoldsCopy
    <2>2. ASSUME NEW to \in {"name", "read probe", "raised", "refused"}, Goes(p, to),
                 to = "read probe" => job[p].pc = "decide"
          PROVE  /\ OnlyJob(p) /\ job'[p].slot = job[p].slot /\ job'[p].pc = to
                 /\ job[p].pc \in {"decide", "read probe"} \/ ~InImport(p)'
        BY <2>2, Going DEF InImport, IsAccepted, HoldsCopy
    <2>3. ASSUME NEW to \in {"identify", "decide"},
                 job' = [job EXCEPT ![p].known = TRUE, ![p].pc = to],
                 job[p].pc = IF to = "decide" THEN "read probe" ELSE "name"
          PROVE  /\ OnlyJob(p) /\ job'[p].slot = job[p].slot /\ job'[p].pc = to
                 /\ job[p].pc \in {"decide", "read probe"} \/ ~InImport(p)'
        <3>1. OnlyJob(p) /\ job'[p].slot = job[p].slot /\ job'[p].pc = to
            BY <1>0, <2>3 DEF OnlyJob, Shaped, Fields
        <3> QED
            BY <2>3, <3>1 DEF InImport, IsAccepted, HoldsCopy
    <2>4. CASE PostVersionProbe(p)
        BY <2>0, <2>1, <2>2, <2>4 DEF PostVersionProbe
    <2>5. CASE VersionProbeFails(p)
        BY <2>0, <2>2, <2>5 DEF VersionProbeFails
    <2>6. CASE ReadVersionProbe(p)
        BY <2>0, <2>2, <2>3, <2>6 DEF ReadVersionProbe
    <2> QED
        BY <2>4, <2>5, <2>6
<1>3. Sound(p)'
    BY <1>1, <1>2 DEF Sound, CopyIsOwn, Checked, OwnIsKnown, IsAccepted, IsCompared,
                      HoldsCopy, Staged
<1> QED
    BY <1>0, <1>1, <1>2, <1>3, StepOf DEF InImport

\* Every step preserves the inductive invariant.
LEMMA StepIInv == IInv /\ [Next]_vars => IInv'
<1> SUFFICES ASSUME IInv, [Next]_vars PROVE IInv'
    OBVIOUS
<1>1. ASSUME NEW p \in Process, Kill(p) PROVE IInv'
    <2>1. OnlyJob(p) /\ job'[p].pc = "killed"
        BY <1>1, Going DEF Kill
    <2>2. OnlyFiles(p) /\ OnlySlots(p) /\ runtime' = runtime /\ worth' = worth
        BY <1>1 DEF Kill, server, slots, OnlyFiles, OnlySlots, IInv, Shaped
    <2>3. Sound(p)' /\ ~InImport(p)'
        BY <2>1 DEF Sound, CopyIsOwn, Checked, OwnIsKnown, InImport, IsAccepted, IsCompared,
                    HoldsCopy
    <2> QED
        BY <2>1, <2>2, <2>3, StepOf
<1>2. ASSUME NEW s \in Slot, Turn(s) PROVE IInv'
    <2>1. \A p \in Process, r \in Slot :
              owner'[r] = p => owner[r] = p /\ content'[r] = content[r]
        BY <1>2, NoneAssumption DEF Turn, IInv, Shaped
    <2>2. /\ UNCHANGED <<runtime, worth, job, saves>>
          /\ DOMAIN content' = Slot /\ DOMAIN owner' = Slot
        BY <1>2 DEF Turn, IInv, Shaped
    <2>3. \A p \in Process : Sound(p)'
        BY <2>1, <2>2, OthersKeep
    <2> QED
        BY <2>2, <2>3 DEF IInv, Shaped, Staged
<1>3. CASE UNCHANGED vars
    <2>1. \A p \in Process : Sound(p)'
        BY <1>3, OthersKeep DEF vars
    <2> QED
        BY <1>3, <2>1 DEF vars, IInv, Shaped, Staged
<1>4. ASSUME NEW p \in Process, Import(p) PROVE IInv'
    BY <1>4, BeforeRestoreKeeps, AnswerKeeps, FailureKeeps DEF Import
<1> QED
    BY <1>1, <1>2, <1>3, <1>4, ExportStepKeeps, VersionProbeKeeps DEF Next

LEMMA Invariant == Spec => []IInv
BY InitIInv, StepIInv, PTL DEF Spec

\* An import that has returned has removed its staged copy, and one that returned ok
\* left in a slot that nobody used since the state it had staged, checked as far as
\* it was to be (import_, _restore_pristine), whatever other imports, exports and
\* live turns did to the slot, the files and the artifact meanwhile.
THEOREM ImportIsVerified == Spec => []ImportLeavesVerified
<1>1. ASSUME IInv PROVE ImportLeavesVerified
    BY <1>1 DEF IInv, Sound, CopyIsOwn, Checked, OwnIsKnown, ImportLeavesVerified,
                Ended, HoldsCopy, IsAccepted, IsCompared
<1> QED
    BY <1>1, Invariant, PTL

-----------------------------------------------------------------------------
(* What export writes, when nothing of its stem overlaps it. *)

HeaderFields == {"intact", "model", "abi", "format", "coverage", "head", "sha", "payload"}

\* Where an export has labelled what it found, and what it has checked by then.
IsLabelled == {"identify", "name", "appendix", "hash", "copy"}

Labelled(p) ==
    LET j == job[p] IN
    /\ DOMAIN j.header = HeaderFields
    /\ j.header.model = runtime.model /\ j.header.abi = CacheAbi(runtime)
    /\ j.header.format = ExportFormat(runtime)
    /\ j.header.coverage = j.payload

Prepared(p) ==
    LET j == job[p] IN
    j.pc \in Exporting =>
        /\ j.path \in Path /\ HybridSupport(runtime)
        /\ j.pc \in IsLabelled => Labelled(p)
        /\ j.pc \in {"appendix", "hash", "copy"} => Advertised(runtime) \in {None, runtime.emits}
        /\ j.pc \in {"hash", "copy"} => runtime.reuses \/ j.payload.of # None

\* A lone export finds in its file, each time it opens it, what its save wrote.
OfOneSave(p) ==
    LET j == job[p] IN
    (p \in lone /\ j.pc \in Exporting) =>
        /\ j.pc # "save" => saves[Save(p)] = j.payload
        /\ j.pc \in IsLabelled => j.header.head = j.payload
        /\ j.pc = "copy" => j.header.sha = j.payload

Rivals(p, q) ==
    job[p].pc \in Exporting /\ job[q].pc \in Exporting /\ Stem[job[p].path] = Stem[job[q].path]

Lone(p) == p \in lone => \A q \in Process \ {p} : ~Rivals(p, q)

ExportInv ==
    /\ IInv
    /\ DOMAIN file = Path
    /\ \A a \in Path : <<"save", Stem[a]>> \in DOMAIN saves
    /\ \A p \in Process : Prepared(p) /\ OfOneSave(p) /\ Lone(p)
    /\ ExportTakesBack

LEMMA InitExport == Init => ExportInv
<1> SUFFICES ASSUME Init PROVE ExportInv
    OBVIOUS
<1>1. IInv /\ lone = {} /\ DOMAIN file = Path
    BY InitIInv DEF Init
<1>2. \A p \in Process : job[p].pc = "idle"
    BY DEF Init, Idle
<1>3. \A a \in Path : <<"save", Stem[a]>> \in DOMAIN saves
    BY DEF Init
<1> QED
    BY <1>1, <1>2, <1>3 DEF ExportInv, Prepared, OfOneSave, Lone, ExportTakesBack, Exporting

\* What the server supports and writes does not change.
LEMMA SameServer ==
    ASSUME runtime' = runtime
    PROVE  /\ HybridSupport(runtime)' <=> HybridSupport(runtime)
           /\ Advertised(runtime)' = Advertised(runtime)
           /\ CacheAbi(runtime)' = CacheAbi(runtime)
           /\ ExportFormat(runtime)' = ExportFormat(runtime)
           /\ \A h : Accepts(runtime, h)' <=> Accepts(runtime, h)
BY DEF Accepts, HybridSupport, Appendable, Complete, CacheAbi, OpaqueFormat, StateVersion,
       Advertised, ExportFormat

\* A step of process p that ends no export and begins none: the files of other
\* exports it leaves alone, and of its own it must show what is prepared.
LEMMA WithinExport ==
    ASSUME ExportInv, IInv', NEW p \in Process, OnlyJob(p),
           UNCHANGED <<runtime, file, lone>>, DOMAIN saves' = DOMAIN saves,
           \A n \in DOMAIN saves :
              \/ saves'[n] = saves[n]
              \/ n = Probe \/ n = Staged(p)
              \/ job[p].pc \in Exporting /\ n = Save(p),
           job'[p].pc \in Exporting => job[p].pc \in Exporting /\ job'[p].path = job[p].path,
           Prepared(p)', OfOneSave(p)'
    PROVE  ExportInv'
<1>0. /\ \A q \in Process : Prepared(q) /\ OfOneSave(q) /\ Lone(q)
      /\ DOMAIN file = Path /\ ExportTakesBack
      /\ \A a \in Path : <<"save", Stem[a]>> \in DOMAIN saves
    BY DEF ExportInv
<1>1. ASSUME NEW q \in Process \ {p} PROVE Prepared(q)' /\ OfOneSave(q)'
    <2>1. job'[q] = job[q]
        BY DEF OnlyJob
    <2>2. Prepared(q)'
        BY <1>0, <2>1, SameServer DEF Prepared, Labelled
    <2>3. ASSUME q \in lone, job[q].pc \in Exporting PROVE saves'[Save(q)] = saves[Save(q)]
        <3>1. Save(q) \in DOMAIN saves /\ Save(q) # Probe /\ Save(q) # Staged(p)
            BY <1>0, <2>3 DEF Prepared, Save, Probe, Staged
        <3>2. ~(job[p].pc \in Exporting /\ Save(q) = Save(p))
            BY <1>0, <2>3 DEF Lone, Rivals, Save
        <3> QED
            BY <3>1, <3>2
    <2>4. Save(q)' = Save(q)
        BY <2>1 DEF Save
    <2>5. OfOneSave(q)'
        BY <1>0, <2>1, <2>3, <2>4 DEF OfOneSave
    <2> QED
        BY <2>2, <2>5
<1>2. ASSUME NEW q \in Process PROVE Lone(q)'
    <2>1. \A r \in Process \ {q} : Rivals(q, r)' => Rivals(q, r)
        BY DEF OnlyJob, Rivals
    <2> QED
        BY <1>0, <2>1 DEF Lone
<1>3. ExportTakesBack'
    BY <1>0, SameServer DEF ExportTakesBack
<1> QED
    BY <1>0, <1>1, <1>2, <1>3 DEF ExportInv

\* One after which p is not exporting has nothing to show.
LEMMA NotExporting ==
    ASSUME ExportInv, IInv', NEW p \in Process, OnlyJob(p),
           UNCHANGED <<runtime, file, lone>>, DOMAIN saves' = DOMAIN saves,
           \A n \in DOMAIN saves :
              \/ saves'[n] = saves[n]
              \/ n = Probe \/ n = Staged(p)
              \/ job[p].pc \in Exporting /\ n = Save(p),
           job'[p].pc \notin Exporting
    PROVE  ExportInv'
BY WithinExport DEF Prepared, OfOneSave

\* The steps of import_ are of this kind.
LEMMA ImportKeepsExport ==
    ASSUME ExportInv, IInv', NEW p \in Process, Import(p)
    PROVE  ExportInv'
<1>0. IInv /\ Shaped
    BY DEF ExportInv, IInv
<1>a. ASSUME NEW n, NEW f, n = Staged(p), saves' = saves \/ saves' = [saves EXCEPT ![n] = f]
      PROVE  /\ DOMAIN saves' = DOMAIN saves
             /\ \A m \in DOMAIN saves : saves'[m] = saves[m] \/ m = Staged(p)
    BY <1>a
<1>1. CASE \E a \in Path, s \in Slot, v \in BOOLEAN : BeginImport(p, a, s, v)
    <2>1. OnlyJob(p) /\ job'[p].pc \in {"refused", "read"}
        <3>1. PICK a \in Path, s \in Slot, v \in BOOLEAN, to \in {"refused", "read"} :
                  job' = [job EXCEPT ![p] = [Idle EXCEPT !.path = a, !.slot = s, !.verify = v,
                                                         !.pc = to]]
            BY <1>1 DEF BeginImport
        <3>2. job' = [job EXCEPT ![p] = job'[p]] /\ job'[p].pc = to /\ DOMAIN job'[p] = Fields
            BY <1>0, <3>1 DEF Idle, Fields, Shaped
        <3> QED
            BY <1>0, <3>1, <3>2 DEF OnlyJob, Shaped
    <2> QED
        BY <1>1, <2>1, NotExporting DEF BeginImport, Begin, Exporting
<1>2. CASE ReadHeader(p) \/ Decide(p)
    <2>1. OnlyJob(p) /\ job'[p].pc \in {"refused", "decide", "stage"}
        BY <1>0, <1>2 DEF ReadHeader, Decide, OnlyJob, Fields, Shaped
    <2> QED
        BY <1>2, <2>1, NotExporting DEF ReadHeader, Decide, server, slots, Exporting
<1>3. CASE Stage(p)
    <2>1. OnlyJob(p) /\ job'[p].pc \in {"restore", "refused"}
        <3>1. CASE Goes(p, "refused")
            BY <1>0, <3>1, Going
        <3>2. CASE \E f : job' = [job EXCEPT ![p].pc = "restore", ![p].payload = f]
            BY <1>0, <3>2 DEF OnlyJob, Fields, Shaped
        <3> QED
            BY <1>3, <3>1, <3>2 DEF Stage, Ends
    <2>2. /\ DOMAIN saves' = DOMAIN saves
          /\ \A m \in DOMAIN saves : saves'[m] = saves[m] \/ m = Staged(p)
        BY <1>3, <1>a DEF Stage, Ends
    <2> QED
        BY <1>3, <2>1, <2>2, NotExporting DEF Stage, server, slots, Exporting
<1>4. CASE \/ PostRestore(p) \/ PostProbe(p) \/ PostClear(p) \/ PostAgain(p) \/ PostErase(p)
           \/ RequestFails(p)
    <2>1. OnlyJob(p) /\ job'[p].pc \in {"erase", "refused", "probe", "ok", "clear", "again"}
        <3>1. CASE PostProbe(p)
            <4>1. CASE Goes(p, "refused")
                BY <1>0, <4>1, Going
            <4>2. CASE \E b : job' = [job EXCEPT ![p].pc = "clear", ![p].reuses = b]
                BY <1>0, <4>2 DEF OnlyJob, Fields, Shaped
            <4> QED
                BY <3>1, <4>1, <4>2 DEF PostProbe, Ends
        <3>2. CASE PostRestore(p)
            BY <1>0, <3>2, Going DEF PostRestore, Ends
        <3>3. CASE PostClear(p) \/ PostAgain(p) \/ PostErase(p) \/ RequestFails(p)
            BY <1>0, <3>3, Going DEF PostClear, PostAgain, PostErase, RequestFails, Ends
        <3> QED
            BY <1>4, <3>1, <3>2, <3>3
    <2>2. \/ saves' = saves
          \/ saves' = [saves EXCEPT ![Staged(p)] = None]
        BY <1>4 DEF PostRestore, PostProbe, PostClear, PostAgain, PostErase, RequestFails, Ends
    <2>3. UNCHANGED <<runtime, file, lone>>
        BY <1>4 DEF PostRestore, PostProbe, PostClear, PostAgain, PostErase, RequestFails, server
    <2> QED
        BY <1>a, <2>1, <2>2, <2>3, NotExporting DEF Exporting
<1> QED
    BY <1>1, <1>2, <1>3, <1>4 DEF Import

\* A job that an export begins; no other one of its stem is lone beside it.
LEMMA BeginKeepsExport ==
    ASSUME ExportInv, IInv', NEW p \in Process, NEW a \in Path, NEW s \in Slot,
           BeginExport(p, a, s)
    PROVE  ExportInv'
<1> DEFINE others == {q \in Process \ {p} : job[q].pc \in Exporting /\ Stem[job[q].path] = Stem[a]}
<1>0. /\ \A q \in Process : Prepared(q) /\ OfOneSave(q) /\ Lone(q)
      /\ DOMAIN file = Path /\ ExportTakesBack /\ Shaped
      /\ \A b \in Path : <<"save", Stem[b]>> \in DOMAIN saves
    BY DEF ExportInv, IInv
<1>1. /\ UNCHANGED <<runtime, file, saves>>
      /\ \A q \in Process \ {p} : job'[q] = job[q]
      /\ job'[p].path = a
      /\ job'[p].pc = IF HybridSupport(runtime) THEN "save" ELSE "raised"
    BY <1>0 DEF BeginExport, Begin, Idle, Shaped
<1>2. /\ lone' \subseteq lone \union {p}
      /\ HybridSupport(runtime) => lone' \intersect others = {} /\ (p \in lone' => others = {})
    BY DEF BeginExport
<1>3. ASSUME NEW q \in Process \ {p} PROVE Prepared(q)' /\ OfOneSave(q)'
    <2>1. Save(q)' = Save(q)
        BY <1>1 DEF Save
    <2> QED
        BY <1>0, <1>1, <1>2, <2>1, SameServer DEF Prepared, Labelled, OfOneSave
<1>4. Prepared(p)' /\ OfOneSave(p)'
    BY <1>0, <1>1, SameServer DEF Prepared, OfOneSave, Exporting, IsLabelled
<1>5. ASSUME NEW q \in Process PROVE Lone(q)'
    <2>1. CASE ~HybridSupport(runtime)
        <3>1. \A r \in Process : Rivals(q, r)' => q # p /\ r # p
            BY <1>1, <2>1 DEF Rivals, Exporting
        <3>2. \A r \in Process : Rivals(q, r)' => Rivals(q, r)
            BY <1>1, <3>1 DEF Rivals
        <3> QED
            BY <1>0, <1>2, <3>1, <3>2 DEF Lone
    <2>2. CASE HybridSupport(runtime) /\ q = p
        <3>1. \A r \in Process \ {p} : Rivals(p, r)' => r \in others
            BY <1>1 DEF Rivals
        <3> QED
            BY <1>2, <2>2, <3>1 DEF Lone
    <2>3. CASE HybridSupport(runtime) /\ q # p
        <3>1. \A r \in Process \ {p} : Rivals(q, r)' => Rivals(q, r)
            BY <1>1, <2>3 DEF Rivals
        <3>2. Rivals(q, p)' => q \in others
            BY <1>1, <2>3 DEF Rivals
        <3> QED
            BY <1>0, <1>2, <2>3, <3>1, <3>2 DEF Lone
    <2> QED
        BY <2>1, <2>2, <2>3
<1>6. ExportTakesBack'
    <2>1. Path \intersect lone' \subseteq lone
        BY <1>2, NamesAssumption
    <2> QED
        BY <1>0, <1>1, <2>1, SameServer DEF ExportTakesBack
<1> QED
    BY <1>0, <1>1, <1>3, <1>4, <1>5, <1>6 DEF ExportInv

\* An export that is done, and was alone, has written one state that the server takes
\* back: it is labelled with the version the bytes have.
LEMMA CopyKeepsExport ==
    ASSUME ExportInv, IInv', NEW p \in Process, CopySave(p), saves[Save(p)] # None
    PROVE  ExportInv'
<1> DEFINE a == job[p].path
           f == file'[a]
<1>0. /\ \A q \in Process : Prepared(q) /\ OfOneSave(q) /\ Lone(q)
      /\ DOMAIN file = Path /\ ExportTakesBack /\ Shaped
      /\ \A b \in Path : <<"save", Stem[b]>> \in DOMAIN saves
      /\ IInv
    BY DEF ExportInv, IInv
<1>1. /\ job[p].pc = "copy" /\ runtime' = runtime
      /\ OnlyJob(p) /\ job'[p].pc = "exported"
      /\ saves' = [saves EXCEPT ![Save(p)] = None]
      /\ file' = [file EXCEPT ![a] = [job[p].header EXCEPT !.payload = saves[Save(p)]]]
      /\ lone' = IF p \in lone THEN lone \union {a} ELSE lone \ {a}
    BY <1>0, Going DEF CopySave, Ends, server
<1>2. /\ a \in Path /\ HybridSupport(runtime) /\ Labelled(p)
      /\ Advertised(runtime) \in {None, runtime.emits}
      /\ runtime.reuses \/ job[p].payload.of # None
    BY <1>0, <1>1 DEF Prepared, Exporting, IsLabelled
<1>3. /\ f.model = runtime.model /\ f.abi = CacheAbi(runtime) /\ f.format = ExportFormat(runtime)
      /\ f.coverage = job[p].payload /\ f.head = job[p].header.head
      /\ f.sha = job[p].header.sha /\ f.payload = saves[Save(p)]
    BY <1>0, <1>1, <1>2 DEF Labelled, HeaderFields
<1>4. ASSUME p \in lone
      PROVE  /\ f.sha = f.payload /\ f.head = f.payload /\ f.coverage = f.payload
             /\ (runtime.reuses /\ runtime.persists) \/ Accepts(runtime, f)
    <2>1. /\ saves[Save(p)] = job[p].payload /\ job[p].header.head = job[p].payload
          /\ job[p].header.sha = job[p].payload
        BY <1>0, <1>1, <1>4 DEF OfOneSave, Exporting, IsLabelled
    <2>2. ASSUME ~(runtime.reuses /\ runtime.persists) PROVE Accepts(runtime, f)
        <3>1. StateVersion(runtime) = runtime.emits
            BY <1>2 DEF StateVersion
        <3>2. ~runtime.reuses => runtime.persists /\ runtime.format = "sckp/1"
            BY <1>2 DEF HybridSupport, Appendable, Complete
        <3>3. f.format = OpaqueFormat(runtime)
            BY <1>3, <2>2, <3>1, <3>2 DEF ExportFormat, OpaqueFormat
        <3>4. IsCompound(f.format) => ~runtime.reuses
            <4>1. ASSUME NEW x, NEW y, <<x, y>> = <<3, "sckp/1">> PROVE y = "sckp/1"
                BY <4>1
            <4>2. IsCompound(f.format) => "sckp/1" = IF runtime.reuses THEN "" ELSE "sckp/1"
                BY <1>3, <4>1 DEF IsCompound, ExportFormat
            <4> QED
                BY <4>2
        <3> QED
            BY <1>2, <1>3, <2>1, <3>3, <3>4 DEF Accepts
    <2> QED
        BY <1>3, <2>1, <2>2
<1>5. ExportTakesBack'
    <2>1. \A b \in Path \ {a} : file'[b] = file[b] /\ (b \in lone' => b \in lone)
        BY <1>0, <1>1
    <2>2. a \in lone' => p \in lone
        BY <1>1
    <2>3. \A b \in Path : b \in lone' => b # a \/ p \in lone
        BY <2>2
    <2> QED
        BY <1>0, <1>1, <1>4, <2>1, <2>3, SameServer DEF ExportTakesBack
<1>6. ASSUME NEW q \in Process
      PROVE  /\ q \in lone' => q \in lone
             /\ \A r \in Process : Rivals(q, r)' => Rivals(q, r)
    <2>1. q # a
        BY <1>2, NamesAssumption
    <2> QED
        BY <1>1, <2>1 DEF OnlyJob, Rivals, Exporting
<1>7. ASSUME NEW q \in Process \ {p} PROVE Prepared(q)' /\ OfOneSave(q)'
    <2>1. job'[q] = job[q] /\ Save(q)' = Save(q)
        BY <1>1 DEF OnlyJob, Save
    <2>2. ASSUME q \in lone, job[q].pc \in Exporting PROVE saves'[Save(q)] = saves[Save(q)]
        <3>1. ~Rivals(q, p)
            BY <1>0, <2>2 DEF Lone
        <3>2. Save(q) # Save(p)
            BY <1>1, <2>2, <3>1 DEF Rivals, Save, Exporting
        <3> QED
            BY <1>1, <3>2
    <2> QED
        BY <1>0, <1>1, <1>6, <2>1, <2>2, SameServer DEF Prepared, Labelled, OfOneSave
<1>8. Prepared(p)' /\ OfOneSave(p)'
    BY <1>1 DEF Prepared, OfOneSave, Exporting
<1> QED
    BY <1>0, <1>1, <1>5, <1>6, <1>7, <1>8 DEF ExportInv, Lone

\* The other steps of an export.
LEMMA ExportKeepsExport ==
    ASSUME ExportInv, IInv', NEW p \in Process,
           \/ PostSave(p) \/ SaveFails(p) \/ ReadHead(p) \/ CheckVersion(p)
           \/ CheckAppendix(p) \/ HashSave(p) \/ CopySave(p)
    PROVE  ExportInv'
<1> DEFINE Own == /\ DOMAIN saves' = DOMAIN saves
                  /\ \A n \in DOMAIN saves : saves'[n] = saves[n] \/ n = Save(p)
<1>0. /\ Prepared(p) /\ OfOneSave(p) /\ IInv /\ Shaped
      /\ job[p].pc \in Exporting => Save(p) \in DOMAIN saves
    BY DEF ExportInv, IInv, Prepared, Save
<1>a. job[p].pc \in Exporting /\ UNCHANGED runtime
    BY DEF PostSave, SaveFails, ReadHead, CheckVersion, CheckAppendix, HashSave, CopySave,
           server, Exporting
<1>b. ASSUME NEW f, saves' \in {saves, [saves EXCEPT ![Save(p)] = f]} PROVE Own
    BY <1>b
<1>1. CASE PostSave(p)
    <2> DEFINE c == content[job[p].slot]
    <2>1. /\ OnlyJob(p) /\ job'[p].pc = "head" /\ job'[p].path = job[p].path
          /\ job'[p].payload = c
        BY <1>0, <1>1 DEF PostSave, OnlyJob, Shaped, Fields
    <2>2. saves' = [saves EXCEPT ![Save(p)] = c] /\ UNCHANGED <<file, lone>> /\ Own
        BY <1>1, <1>b DEF PostSave
    <2>3. Save(p)' = Save(p) /\ saves'[Save(p)] = c
        BY <1>0, <1>a, <2>1, <2>2 DEF Save
    <2>4. Prepared(p)' /\ OfOneSave(p)'
        BY <1>0, <1>a, <2>1, <2>3, SameServer DEF Prepared, OfOneSave, IsLabelled
    <2> QED
        BY <1>a, <2>1, <2>2, <2>4, WithinExport
<1>2. CASE SaveFails(p)
    <2>1. OnlyJob(p) /\ job'[p].pc = "raised"
        BY <1>0, <1>2, Going DEF SaveFails
    <2>2. UNCHANGED <<file, lone>> /\ Own
        BY <1>2 DEF SaveFails
    <2> QED
        BY <1>a, <2>1, <2>2, NotExporting DEF Exporting
<1>3. CASE ReadHead(p) /\ saves[Save(p)] # None
    <2> DEFINE labelled == [intact |-> TRUE, model |-> runtime.model,
                            abi |-> CacheAbi(runtime), format |-> ExportFormat(runtime),
                            coverage |-> job[p].payload, head |-> saves[Save(p)],
                            sha |-> None, payload |-> None]
    <2>0. job' = [job EXCEPT ![p].pc = "identify", ![p].header = labelled]
        BY <1>3 DEF ReadHead
    <2>1. /\ OnlyJob(p) /\ job'[p].pc = "identify" /\ job'[p].path = job[p].path
          /\ job'[p].payload = job[p].payload /\ job'[p].header = labelled
        <3> HIDE DEF labelled
        <3> QED
            BY <1>0, <2>0 DEF OnlyJob, Shaped, Fields
    <2>2. UNCHANGED <<file, lone, saves>> /\ job[p].pc = "head"
        BY <1>3 DEF ReadHead
    <2>3. Save(p)' = Save(p)
        BY <2>1 DEF Save
    <2>4. Labelled(p)'
        BY <1>a, <2>1, SameServer DEF Labelled, HeaderFields
    <2>5. Prepared(p)' /\ OfOneSave(p)'
        BY <1>0, <1>a, <2>1, <2>2, <2>3, <2>4, SameServer DEF Prepared, OfOneSave, IsLabelled
    <2> QED
        BY <1>a, <2>1, <2>2, <2>5, WithinExport
<1>4. CASE ReadHead(p) /\ saves[Save(p)] = None
    <2>1. OnlyJob(p) /\ job'[p].pc = "raised" /\ UNCHANGED <<file, lone, saves>>
        BY <1>0, <1>4, Going DEF ReadHead
    <2> QED
        BY <1>a, <2>1, NotExporting DEF Exporting
<1>5. CASE CheckVersion(p) \/ CheckAppendix(p)
    <2>1. CASE Goes(p, "raised")
        <3>1. OnlyJob(p) /\ job'[p].pc = "raised"
            BY <1>0, <2>1, Going
        <3>2. UNCHANGED <<file, lone>> /\ Own
            BY <1>5, <1>b DEF CheckVersion, CheckAppendix, Ends, slots
        <3> QED
            BY <1>a, <3>1, <3>2, NotExporting DEF Exporting
    <2>2. ASSUME NEW to \in {"appendix", "hash"}, Goes(p, to),
                 to = "appendix" => /\ job[p].pc = "identify"
                                    /\ Advertised(runtime) \in {None, runtime.emits},
                 to = "hash" => /\ job[p].pc = "appendix"
                                /\ runtime.reuses \/ job[p].payload.of # None
          PROVE  ExportInv'
        <3>1. /\ OnlyJob(p) /\ job'[p].pc = to /\ job'[p].path = job[p].path
              /\ job'[p].header = job[p].header /\ job'[p].payload = job[p].payload
            BY <1>0, <2>2, Going DEF Goes, Shaped, Fields
        <3>2. UNCHANGED <<file, lone, saves>>
            BY <1>5, <2>2 DEF CheckVersion, CheckAppendix, Ends, Goes
        <3>3. Save(p)' = Save(p)
            BY <3>1 DEF Save
        <3>4. Prepared(p)' /\ OfOneSave(p)'
            BY <1>0, <1>a, <2>2, <3>1, <3>2, <3>3, SameServer
            DEF Prepared, Labelled, OfOneSave, IsLabelled, Exporting
        <3> QED
            BY <1>a, <3>1, <3>2, <3>4, WithinExport
    <2> QED
        BY <1>5, <2>1, <2>2 DEF CheckVersion, CheckAppendix, Ends
<1>6. CASE HashSave(p)
    <2>1. /\ OnlyJob(p) /\ job'[p].pc \in {"raised", "copy"} /\ job'[p].path = job[p].path
          /\ job'[p].payload = job[p].payload
          /\ job'[p].header = [job[p].header EXCEPT !.sha = saves[Save(p)]]
        BY <1>0, <1>6 DEF HashSave, OnlyJob, Shaped, Fields
    <2>2. UNCHANGED <<file, lone, saves>> /\ job[p].pc = "hash"
        BY <1>6 DEF HashSave
    <2>3. Save(p)' = Save(p)
        BY <2>1 DEF Save
    <2>4. Labelled(p)
        BY <1>0, <2>2 DEF Prepared, Exporting, IsLabelled
    <2>5. /\ DOMAIN job'[p].header = HeaderFields
          /\ \A x \in HeaderFields \ {"sha"} : job'[p].header[x] = job[p].header[x]
          /\ job'[p].header.sha = saves[Save(p)]
        BY <2>1, <2>4 DEF Labelled, HeaderFields
    <2>6. Labelled(p)'
        BY <1>a, <2>1, <2>4, <2>5, SameServer DEF Labelled, HeaderFields
    <2>7. Prepared(p)'
        BY <1>0, <1>a, <2>1, <2>2, <2>6, SameServer DEF Prepared
    <2>8. OfOneSave(p)'
        BY <1>0, <1>a, <2>1, <2>2, <2>3, <2>5 DEF OfOneSave, IsLabelled, HeaderFields
    <2> QED
        BY <1>a, <2>1, <2>2, <2>7, <2>8, WithinExport
<1>7. CASE CopySave(p) /\ saves[Save(p)] = None
    <2>1. OnlyJob(p) /\ job'[p].pc = "raised"
        BY <1>0, <1>7, Going DEF CopySave, Ends
    <2>2. UNCHANGED <<file, lone>> /\ Own
        BY <1>7 DEF CopySave, Ends
    <2> QED
        BY <1>a, <2>1, <2>2, NotExporting DEF Exporting
<1> QED
    BY <1>1, <1>2, <1>3, <1>4, <1>5, <1>6, <1>7, CopyKeepsExport

\* The version probe changes nothing that an export has prepared.
LEMMA VersionProbeKeepsExport ==
    ASSUME ExportInv, IInv', NEW p \in Process,
           PostVersionProbe(p) \/ VersionProbeFails(p) \/ ReadVersionProbe(p)
    PROVE  ExportInv'
<1>0. Prepared(p) /\ OfOneSave(p) /\ IInv /\ Shaped
    BY DEF ExportInv, IInv
<1>1. /\ UNCHANGED <<runtime, file, lone>> /\ DOMAIN saves' = DOMAIN saves
      /\ \A n \in DOMAIN saves : saves'[n] = saves[n] \/ n = Probe
    BY DEF PostVersionProbe, VersionProbeFails, ReadVersionProbe, server, slots
<1>2. CASE Goes(p, "raised") \/ Goes(p, "refused") \/ Goes(p, "read probe")
    <2>1. OnlyJob(p) /\ job'[p].pc \in {"raised", "refused", "read probe"}
        BY <1>0, <1>2, Going
    <2> QED
        BY <1>1, <2>1, NotExporting DEF Exporting
<1>3. ASSUME NEW to \in {"identify", "name", "decide"},
             OnlyJob(p), job'[p].pc = to, job'[p].path = job[p].path,
             job'[p].header = job[p].header, job'[p].payload = job[p].payload,
             to = "decide" \/ job[p].pc \in {"identify", "name"}
      PROVE  ExportInv'
    <2>1. Save(p)' = Save(p)
        BY <1>3 DEF Save
    <2>2. CASE to = "decide"
        BY <1>1, <1>3, <2>2, NotExporting DEF Exporting
    <2>3. CASE to # "decide"
        <3>1. Save(p) \in DOMAIN saves
            BY <1>0, <1>3, <2>3 DEF ExportInv, Prepared, Exporting, Save
        <3>2. saves'[Save(p)] = saves[Save(p)]
            BY <1>1, <3>1 DEF Save, Probe
        <3>3. Prepared(p)' /\ OfOneSave(p)'
            BY <1>0, <1>1, <1>3, <2>1, <2>3, <3>2, SameServer
            DEF Prepared, Labelled, OfOneSave, IsLabelled, Exporting
        <3> QED
            BY <1>1, <1>3, <2>3, <3>3, WithinExport DEF Exporting
    <2> QED
        BY <2>2, <2>3
<1>4. CASE Goes(p, "name") /\ job[p].pc = "identify"
    <2>1. job'[p].path = job[p].path
        BY <1>0, <1>4 DEF Goes, Shaped, Fields
    <2> QED
        BY <1>0, <1>3, <1>4, <2>1, Going
<1>5. CASE job' = [job EXCEPT ![p].known = TRUE] /\ job[p].pc \in {"identify", "decide"}
    BY <1>0, <1>3, <1>5 DEF OnlyJob, Shaped, Fields
<1>6. ASSUME NEW to \in {"identify", "decide"},
             job' = [job EXCEPT ![p].known = TRUE, ![p].pc = to],
             job[p].pc = IF to = "decide" THEN "read probe" ELSE "name"
      PROVE  ExportInv'
    BY <1>0, <1>3, <1>6 DEF OnlyJob, Shaped, Fields
<1>7. CASE PostVersionProbe(p)
    BY <1>2, <1>4, <1>5, <1>7 DEF PostVersionProbe
<1>8. CASE VersionProbeFails(p)
    BY <1>2, <1>8 DEF VersionProbeFails
<1>9. CASE ReadVersionProbe(p)
    BY <1>2, <1>6, <1>9 DEF ReadVersionProbe
<1> QED
    BY <1>7, <1>8, <1>9

\* Every step preserves the invariant of exports.
LEMMA StepExport == ExportInv /\ [Next]_vars => ExportInv'
<1> SUFFICES ASSUME ExportInv, [Next]_vars PROVE ExportInv'
    OBVIOUS
<1>0. IInv /\ IInv'
    BY StepIInv DEF ExportInv
<1>1. ASSUME NEW p \in Process, Export(p) PROVE ExportInv'
    BY <1>0, <1>1, BeginKeepsExport, ExportKeepsExport DEF Export
<1>2. ASSUME NEW p \in Process, Kill(p) PROVE ExportInv'
    <2>1. OnlyJob(p) /\ job'[p].pc = "killed" /\ UNCHANGED <<runtime, file, lone, saves>>
        BY <1>0, <1>2, Going DEF Kill, server
    <2> QED
        BY <1>0, <2>1, NotExporting DEF Exporting
<1>3. CASE UNCHANGED <<runtime, file, saves, job, lone>>
    <2>1. ASSUME NEW p \in Process PROVE Prepared(p)' /\ OfOneSave(p)' /\ Lone(p)'
        <3>1. Save(p)' = Save(p) /\ \A q \in Process : Rivals(p, q)' <=> Rivals(p, q)
            BY <1>3 DEF Save, Rivals
        <3> QED
            BY <1>3, <3>1, SameServer DEF ExportInv, Prepared, Labelled, OfOneSave, Lone
    <2>2. ExportTakesBack'
        BY <1>3, SameServer DEF ExportInv, ExportTakesBack
    <2> QED
        BY <1>0, <1>3, <2>1, <2>2 DEF ExportInv
<1>4. ASSUME NEW s \in Slot, Turn(s) PROVE ExportInv'
    BY <1>3, <1>4 DEF Turn
<1>5. CASE UNCHANGED vars
    BY <1>3, <1>5 DEF vars
<1> QED
    BY <1>0, <1>1, <1>2, <1>4, <1>5, ImportKeepsExport, VersionProbeKeepsExport DEF Next

\* What an export wrote that no other of its stem overlapped is of one save, bytes,
\* digest, tokens and coverage alike, and the server that wrote it takes it back
\* (export, write_opaque_from_file, import_), whatever other processes, kills and
\* live turns did meanwhile.
THEOREM ExportIsTakenBack == Spec => []ExportTakesBack
<1>1. ExportInv => ExportTakesBack
    BY DEF ExportInv
<1> QED
    BY <1>1, InitExport, StepExport, PTL DEF Spec

===============================================================================
