--------------------------- MODULE SharedDriveProofs ---------------------------
(***************************************************************************)
(* What holds of the shared drive for every number of jobs, documents,     *)
(* keys and lineages, whichever of the jobs overlap and wherever one is    *)
(* cut short.                                                              *)
(***************************************************************************)
EXTENDS SharedDrive, FiniteSetTheorems, TLAPS

\* A job that has not created a file yet.
Unopened == {"idle", "open", "look", "link", "fallback"}
Filling == {"fill", "fill rest"}

\* Inode i was created by a job for name n.
Created(i, n) == i \in Job /\ pc[i] \notin Unopened /\ Named(i) = n

\* The jobs of a name that are somewhere.
At(n, labels) == {j \in Job : pc[j] \in labels /\ Named(j) = n}

\* What a name leads to, what its jobs write to and what they read were created for it.
EntriesAreOwn(n) ==
    /\ state[n] # NoFile => Created(state[n], n)
    /\ statePart[n] # NoFile => Created(statePart[n], n)
    /\ slot[n] # NoFile => Created(slot[n], n)
    /\ slotPart[n] # NoFile => Created(slotPart[n], n)
    /\ \A j \in At(n, Copying) : Created(handle[j], n)
    /\ \A j \in At(n, Filling) : Created(source[j], n)

\* No half of a file is of another name's attachment.
HoldsOwn ==
    \A i \in Job, h \in Half : bytes[i][h] # NoFile =>
        pc[bytes[i][h]] # "idle" /\ Created(i, Named(bytes[i][h]))

\* Every description was written by a job for its name, or is garbage.
WrittenFor(i, n) == i \in Job /\ pc[i] # "idle" /\ Named(i) = n
DescribedByOwn ==
    /\ \A n \in Name :
          /\ meta[n] # NoFile => WrittenFor(meta[n], n)
          /\ metaPart[n] # NoFile => WrittenFor(metaPart[n], n)
    /\ \A i \in Job : text[i] \in Job => pc[i] # "idle" /\ WrittenFor(text[i], Named(i))
    /\ \A j \in Job : pc[j] = "write" => WrittenFor(handle[j], Named(j))

\* A .tmp file of the drive has no second name, and no stage reads or writes it.
PartIsApart(n) == statePart[n] # NoFile =>
    /\ statePart[n] # state[n] /\ statePart[n] # slot[n] /\ statePart[n] # slotPart[n]
    /\ \A k \in At(n, Filling) : statePart[n] # handle[k] /\ statePart[n] # source[k]

HasOpen(k, i) == pc[k] \in Copying /\ handle[k] = i

\* A whole file that nobody writes to.
Settled(i) == Whole(i) /\ \A k \in Job : ~HasOpen(k, i)

\* A .tmp file of the drive that was never shared is in one job's hand.
PartIsWritten(n) == statePart[n] # NoFile /\ statePart[n] \notin shared =>
    \A j \in At(n, Writing) :
        /\ \A k \in At(n, Writing) : k = j
        /\ pc[j] # "install" => handle[j] = statePart[n]
        /\ pc[j] = "finish" => bytes[statePart[n]][1] = j
        /\ pc[j] = "install" => Whole(statePart[n])

\* What was never shared is whole where an attachment, or a staged file, is looked for,
\* and while it is read.
StateIsSettled(n) == state[n] # NoFile /\ state[n] \notin shared => Settled(state[n])
SlotIsSettled(n) == slot[n] # NoFile /\ slot[n] \notin shared => Settled(slot[n])
SourceIsSettled(n) ==
    \A j \in At(n, Filling) : source[j] \notin shared => Settled(source[j])

\* A .tmp file of the slot directory that was never shared is a link to a whole file, or
\* in the hand of one job, or of none.
Fills(j, n) ==
    /\ \A k \in At(n, Placing) : k = j
    /\ pc[j] # "place" /\ handle[j] = slotPart[n]
    /\ \A k \in Job : HasOpen(k, slotPart[n]) => k = j
    /\ pc[j] = "fill rest" /\ source[j] \notin shared =>
            bytes[slotPart[n]][1] = bytes[source[j]][1]
SlotPartIsFilled(n) == slotPart[n] # NoFile /\ slotPart[n] \notin shared =>
    Settled(slotPart[n]) \/ \A j \in At(n, Placing) : Fills(j, n)

\* A stage goes on only with an attachment it has found, which stays.
Found(n) == At(n, {"link", "fallback"}) # {} => state[n] # NoFile

FilesOf(n) ==
    /\ EntriesAreOwn(n) /\ PartIsApart(n) /\ PartIsWritten(n) /\ StateIsSettled(n)
    /\ SlotIsSettled(n) /\ SourceIsSettled(n) /\ SlotPartIsFilled(n) /\ Found(n)
Files == HoldsOwn /\ \A n \in Name : FilesOf(n)

IInv == DriveTypeOK /\ DescribedByOwn /\ Files

-----------------------------------------------------------------------------
\* The initial state satisfies the inductive invariant.
LEMMA InitIInv == Init => IInv
<1> SUFFICES ASSUME Init PROVE IInv
    OBVIOUS
<1> USE DEF Init
<1>1. DriveTypeOK
    BY DriveAssumption DEF DriveTypeOK, Inode, Empty
<1>2. NoFile \notin Job
    BY DriveAssumption
<1>3. DescribedByOwn /\ HoldsOwn
    BY <1>2 DEF DescribedByOwn, HoldsOwn, Empty
<1>4. ASSUME NEW n \in Name PROVE FilesOf(n)
    <2>1. At(n, Copying) = {} /\ At(n, Filling) = {} /\ At(n, {"link", "fallback"}) = {}
        BY DEF At, Copying, Filling
    <2>2. /\ state[n] = NoFile /\ statePart[n] = NoFile
          /\ slot[n] = NoFile /\ slotPart[n] = NoFile
        OBVIOUS
    <2>3. EntriesAreOwn(n) /\ PartIsApart(n) /\ PartIsWritten(n)
        BY <2>1, <2>2 DEF EntriesAreOwn, PartIsApart, PartIsWritten
    <2>4. StateIsSettled(n) /\ SlotIsSettled(n) /\ SourceIsSettled(n)
        BY <2>1, <2>2 DEF StateIsSettled, SlotIsSettled, SourceIsSettled
    <2> QED
        BY <2>1, <2>2, <2>3, <2>4 DEF FilesOf, SlotPartIsFilled, Found
<1> QED
    BY <1>1, <1>3, <1>4 DEF IInv, Files

-----------------------------------------------------------------------------
\* The types one variable at a time.
LEMMA Types ==
    ASSUME DriveTypeOK
    PROVE  /\ state \in [Name -> Inode] /\ statePart \in [Name -> Inode]
           /\ meta \in [Name -> Inode] /\ metaPart \in [Name -> Inode]
           /\ slot \in [Name -> Inode] /\ slotPart \in [Name -> Inode]
           /\ bytes \in [Job -> [Half -> Inode]]
           /\ text \in [Job -> Inode \cup {Unknown}]
           /\ shared \subseteq Job
           /\ pc \in [Job -> {"idle"} \cup Working \cup Ended]
           /\ req \in [Job -> Calls]
           /\ source \in [Job -> Inode] /\ handle \in [Job -> Inode]
           /\ NoFile \notin Job /\ Unknown \notin Job
           /\ \A j \in Job : Named(j) \in Name
BY DriveAssumption DEF DriveTypeOK, Named, Request

\* A step that touches no file but perhaps removes staged ones, and after which a job is
\* copying, or about to rename, only if it was so before.
LEMMA Frame ==
    ASSUME IInv, DriveTypeOK',
           UNCHANGED <<state, statePart, slotPart, bytes, shared>>,
           \A n \in Name : slot'[n] = slot[n] \/ slot'[n] = NoFile,
           \A k \in Job :
              /\ pc[k] \notin Unopened => pc'[k] \notin Unopened
              /\ pc[k] # "idle" => pc'[k] # "idle" /\ Named(k)' = Named(k)
              /\ pc'[k] \in Writing \cup Placing =>
                    pc'[k] = pc[k] /\ handle'[k] = handle[k] /\ source'[k] = source[k],
           \A n \in Name : Found(n)'
    PROVE  Files'
<1>0. DriveTypeOK /\ Files
    BY DEF IInv
<1>1. \A i, n : Created(i, n) => Created(i, n)'
    BY DEF Created, Unopened
<1>2. \A k \in Job : pc'[k] \in Writing \cup Placing \cup Copying =>
         /\ pc'[k] = pc[k] /\ handle'[k] = handle[k] /\ source'[k] = source[k]
         /\ Named(k)' = Named(k)
    BY DEF Copying, Writing, Placing
<1>3. HoldsOwn'
    <2> SUFFICES ASSUME NEW i \in Job, NEW h \in Half, bytes'[i][h] # NoFile
                 PROVE  pc'[bytes'[i][h]] # "idle" /\ Created(i, Named(bytes[i][h]))'
        BY DEF HoldsOwn
    <2>1. bytes[i][h] \in Job /\ pc[bytes[i][h]] # "idle" /\ Created(i, Named(bytes[i][h]))
        BY <1>0, Types DEF Files, HoldsOwn, Inode
    <2> QED
        BY <1>1, <2>1
<1>4. ASSUME NEW n \in Name PROVE FilesOf(n)'
    <2>0. FilesOf(n)
        BY <1>0 DEF Files
    <2>1. \A labels \in {Copying, Writing, Placing, Filling} : \A k \in At(n, labels)' :
             /\ k \in At(n, labels)
             /\ pc'[k] = pc[k] /\ handle'[k] = handle[k] /\ source'[k] = source[k]
        BY <1>2 DEF At, Filling, Placing
    <2>2. \A x \in Job : Settled(x) => Settled(x)'
        BY <1>2 DEF Settled, Whole, HasOpen
    <2>3. EntriesAreOwn(n)' /\ PartIsApart(n)'
        BY <1>1, <2>0, <2>1 DEF FilesOf, EntriesAreOwn, PartIsApart
    <2>4. PartIsWritten(n)'
        <3> SUFFICES ASSUME statePart[n] # NoFile, statePart[n] \notin shared,
                            NEW j \in At(n, Writing)'
                     PROVE  /\ \A k \in At(n, Writing)' : k = j
                            /\ pc'[j] # "install" => handle'[j] = statePart[n]
                            /\ pc'[j] = "finish" => bytes[statePart[n]][1] = j
                            /\ pc'[j] = "install" => Whole(statePart[n])
            BY DEF PartIsWritten, Whole
        <3> QED
            BY <2>0, <2>1 DEF FilesOf, PartIsWritten
    <2>5. StateIsSettled(n)' /\ SlotIsSettled(n)'
        BY <1>0, <2>0, <2>2, Types DEF FilesOf, StateIsSettled, SlotIsSettled, Inode
    <2>6. SourceIsSettled(n)'
        <3> SUFFICES ASSUME NEW k \in At(n, Filling)', source'[k] \notin shared
                     PROVE  Settled(source[k])'
            BY DEF SourceIsSettled
        <3>1. k \in At(n, Filling) /\ source'[k] = source[k]
            BY <2>1
        <3>2. source[k] \in Job /\ Settled(source[k])
            BY <2>0, <3>1 DEF FilesOf, EntriesAreOwn, SourceIsSettled, Created
        <3> QED
            BY <2>2, <3>1, <3>2
    <2>7. SlotPartIsFilled(n)'
        <3> SUFFICES ASSUME slotPart[n] # NoFile, slotPart[n] \notin shared,
                            ~Settled(slotPart[n])', NEW j \in At(n, Placing)'
                     PROVE  Fills(j, n)'
            BY DEF SlotPartIsFilled
        <3>1. Fills(j, n)
            BY <1>0, <2>0, <2>1, <2>2, Types DEF FilesOf, SlotPartIsFilled, Inode
        <3> QED
            BY <1>2, <2>1, <3>1 DEF Fills, HasOpen
    <2> QED
        BY <2>3, <2>4, <2>5, <2>6, <2>7 DEF FilesOf
<1> QED
    BY <1>3, <1>4 DEF Files
\* A busy job that goes on leaves what the others do, what was created and for which
\* name.
LEMMA GoingOn ==
    ASSUME DriveTypeOK, NEW j \in Job, NEW to \in Working \cup Ended,
           pc[j] \in Working, to \in Unopened => pc[j] \in Unopened,
           Goto(j, to), req' = req
    PROVE  /\ pc'[j] = to
           /\ \A k \in Job : /\ Named(k)' = Named(k)
                             /\ k # j => pc'[k] = pc[k]
                             /\ pc[k] \notin Unopened => pc'[k] \notin Unopened
                             /\ pc[k] # "idle" => pc'[k] # "idle"
           /\ \A i, n : Created(i, n) => Created(i, n)'
           /\ pc' \in [Job -> {"idle"} \cup Working \cup Ended]
<1>1. /\ pc'[j] = to /\ to # "idle"
      /\ \A k \in Job \ {j} : pc'[k] = pc[k]
      /\ \A k \in Job : Named(k)' = Named(k)
      /\ pc' \in [Job -> {"idle"} \cup Working \cup Ended]
    BY Types DEF Goto, Named, Working, Attaching, Staging, Ended
<1>2. \A k \in Job : pc[k] \notin Unopened => pc'[k] \notin Unopened
    BY <1>1
<1>3. \A i, n : Created(i, n) => Created(i, n)'
    BY <1>1, <1>2 DEF Created
<1> QED
    BY <1>1, <1>2, <1>3

\* Descriptions stay own in a step that writes none.
LEMMA DescriptionsKeep ==
    ASSUME IInv, UNCHANGED <<meta, metaPart, text>>,
           \A k \in Job :
              /\ pc[k] # "idle" => pc'[k] # "idle" /\ Named(k)' = Named(k)
              /\ pc'[k] = "write" => pc[k] = "write" /\ handle'[k] = handle[k]
    PROVE  DescribedByOwn'
<1>0. DriveTypeOK /\ DescribedByOwn
    BY DEF IInv
<1>1. \A i, n : WrittenFor(i, n) => WrittenFor(i, n)'
    BY DEF WrittenFor
<1>2. \A n \in Name : /\ meta'[n] # NoFile => WrittenFor(meta[n], n)'
                      /\ metaPart'[n] # NoFile => WrittenFor(metaPart[n], n)'
    BY <1>0, <1>1 DEF DescribedByOwn
<1>3. \A i \in Job : text'[i] \in Job => pc'[i] # "idle" /\ WrittenFor(text[i], Named(i))'
    BY <1>0, <1>1 DEF DescribedByOwn
<1>4. \A k \in Job : pc'[k] = "write" => WrittenFor(handle[k], Named(k))'
    BY <1>0, <1>1 DEF DescribedByOwn
<1> QED
    BY <1>2, <1>3, <1>4 DEF DescribedByOwn

\* A job that begins is one nothing refers to.
LEMMA BeginKeeps ==
    ASSUME IInv, NEW j \in Job, Begin(j)
    PROVE  IInv'
<1>0. DriveTypeOK /\ Files
    BY DEF IInv
<1>1. PICK r \in Calls :
         /\ req' = [req EXCEPT ![j] = r]
         /\ Goto(j, IF r.op = "attach" THEN "open" ELSE "look")
    BY DEF Begin
<1>2. /\ pc[j] = "idle"
      /\ UNCHANGED <<content, state, statePart, meta, metaPart, slot, slotPart, bytes, text,
                     shared, disturbs, source, handle>>
    BY DEF Begin, drive, slots, files, locals
<1>3. /\ pc'[j] \in {"open", "look"}
      /\ \A k \in Job \ {j} : pc'[k] = pc[k] /\ Named(k)' = Named(k)
    BY <1>0, <1>1, Types DEF Goto, Named
<1>4. DriveTypeOK'
    <2>1. req' \in [Job -> Calls] /\ pc' \in [Job -> {"idle"} \cup Working \cup Ended]
        BY <1>0, <1>1, Types DEF Goto, Working, Attaching, Staging
    <2> QED
        BY <1>0, <1>2, <2>1 DEF DriveTypeOK
<1>5. \A n \in Name : Found(n)'
    BY <1>0, <1>2, <1>3 DEF Files, FilesOf, Found, At
<1>6. \A k \in Job :
         /\ pc[k] \notin Unopened => pc'[k] \notin Unopened
         /\ pc[k] # "idle" => pc'[k] # "idle" /\ Named(k)' = Named(k)
         /\ pc'[k] \in Writing \cup Placing \cup {"write"} => k # j /\ pc'[k] = pc[k]
    BY <1>2, <1>3 DEF Unopened, Writing, Placing
<1>7. Files'
    BY <1>2, <1>4, <1>5, <1>6, Frame
<1>8. DescribedByOwn'
    BY <1>2, <1>6, DescriptionsKeep
<1> QED
    BY <1>4, <1>7, <1>8 DEF IInv

\* A job that only looks on, or stops, keeps the invariant.
LEMMA LookingKeeps ==
    ASSUME IInv, NEW j \in Job, NEW to \in Working \cup Ended,
           pc[j] \in Working, to \in Unopened => pc[j] \in Unopened,
           to \notin Writing \cup Placing \cup {"write"}, Goto(j, to),
           to \in {"link", "fallback"} => state[Named(j)] # NoFile,
           UNCHANGED <<content, state, statePart, meta, metaPart, slot, slotPart, bytes, text,
                       shared, disturbs, req>>,
           source' \in [Job -> Inode], handle' \in [Job -> Inode],
           \A k \in Job \ {j} : source'[k] = source[k] /\ handle'[k] = handle[k]
    PROVE  IInv'
<1>0. DriveTypeOK /\ Files
    BY DEF IInv
<1>1. /\ pc'[j] = to
      /\ \A k \in Job : /\ Named(k)' = Named(k)
                        /\ k # j => pc'[k] = pc[k]
                        /\ pc[k] \notin Unopened => pc'[k] \notin Unopened
                        /\ pc[k] # "idle" => pc'[k] # "idle"
      /\ pc' \in [Job -> {"idle"} \cup Working \cup Ended]
    BY <1>0, GoingOn
<1>2. DriveTypeOK'
    BY <1>0, <1>1 DEF DriveTypeOK
<1>3. \A n \in Name : Found(n)'
    BY <1>0, <1>1 DEF Files, FilesOf, Found, At
<1>4. Files'
    BY <1>1, <1>2, <1>3, Frame
<1>5. DescribedByOwn'
    BY <1>1, DescriptionsKeep
<1> QED
    BY <1>2, <1>4, <1>5 DEF IInv

\* Each way a job looks on, or stops, is one of those.
LEMMA LooksKeep ==
    ASSUME IInv, NEW j \in Job,
           Stop(j) \/ Refuse(j) \/ LosePart(j) \/ Look(j) \/ NoLink(j) \/ SameFile(j)
              \/ LoseSlotPart(j)
    PROVE  IInv'
<1>0. /\ DriveTypeOK
      /\ pc[j] \in {"link", "fallback"} => state[Named(j)] # NoFile
    BY Types DEF IInv, Files, FilesOf, Found, At
<1> DEFINE Quiet == UNCHANGED <<content, state, statePart, meta, metaPart, slot, slotPart,
                                bytes, text, shared, disturbs, req>>
<1>1. CASE Stop(j)
    <2>1. /\ pc[j] \in Working /\ Goto(j, "over") /\ Quiet
          /\ \A k \in Job \ {j} : source'[k] = source[k] /\ handle'[k] = handle[k]
          /\ source' \in [Job -> Inode] /\ handle' \in [Job -> Inode]
        BY <1>0, <1>1, Types DEF Stop, drive, slots, files, Inode
    <2>2. "over" \in Working \cup Ended /\ "over" \notin Unopened \cup Writing \cup Placing
        BY DEF Ended, Unopened, Writing, Placing
    <2> QED
        BY <2>1, <2>2, LookingKeeps
<1>2. CASE Refuse(j) \/ LosePart(j) \/ Look(j) \/ NoLink(j) \/ SameFile(j) \/ LoseSlotPart(j)
    <2>1. Quiet /\ UNCHANGED <<source, handle>>
        BY <1>2 DEF Refuse, LosePart, Look, NoLink, SameFile, LoseSlotPart, Step, Still, Fixed,
                    drive, slots, files, locals
    <2>2. \E to \in {"over", "raised", "link", "fallback"} :
             /\ Goto(j, to) /\ pc[j] \in Working
             /\ to \in Unopened => pc[j] \in Unopened
             /\ to \in {"link", "fallback"} => state[Named(j)] # NoFile
        BY <1>0, <1>2 DEF Refuse, LosePart, Look, NoLink, SameFile, LoseSlotPart, Step,
                          Unopened, Working, Attaching, Staging
    <2>3. \A to \in {"over", "raised", "link", "fallback"} :
             to \in Working \cup Ended /\ to \notin Writing \cup Placing \cup {"write"}
        BY DEF Working, Staging, Ended, Writing, Placing
    <2>4. source' \in [Job -> Inode] /\ handle' \in [Job -> Inode]
        BY <1>0, <2>1, Types
    <2> QED
        BY <2>1, <2>2, <2>3, <2>4, LookingKeeps
<1> QED
    BY <1>1, <1>2

\* Publishing, and what others do to documents and staged files, keeps the invariant.
LEMMA OthersKeep ==
    ASSUME IInv, (\E d \in Content : Publish(d)) \/ Disturb
    PROVE  IInv'
<1>0. DriveTypeOK /\ Files
    BY DEF IInv
<1>1. /\ UNCHANGED <<state, statePart, meta, metaPart, slotPart, bytes, text, shared, pc,
                     req, source, handle>>
      /\ \/ slot' = slot
         \/ \E n \in Name : slot' = [slot EXCEPT ![n] = NoFile]
    BY DEF Publish, Disturb, slots, files, locals
<1>2. \A n \in Name : slot'[n] = slot[n] \/ slot'[n] = NoFile
    BY <1>0, <1>1, Types
<1>3. DriveTypeOK'
    <2>1. /\ content' \in [Content -> {"absent", "published", "altered", "unreadable"}]
          /\ disturbs' \in 0..MaxDisturbs
        <3>1. MaxDisturbs \in Nat
            BY DriveAssumption
        <3> QED
            BY <1>0, <3>1 DEF Publish, Disturb, DriveTypeOK
    <2>2. slot' \in [Name -> Inode]
        BY <1>0, <1>1, Types DEF Inode
    <2> QED
        BY <1>0, <1>1, <2>1, <2>2 DEF DriveTypeOK
<1>4. \A k \in Job : Named(k)' = Named(k)
    BY <1>1 DEF Named
<1>5. \A n \in Name : Found(n)'
    BY <1>0, <1>1, <1>4 DEF Files, FilesOf, Found, At
<1>6. Files'
    BY <1>1, <1>2, <1>3, <1>4, <1>5, Frame
<1>7. DescribedByOwn'
    BY <1>1, <1>4, DescriptionsKeep
<1> QED
    BY <1>3, <1>6, <1>7 DEF IInv

-----------------------------------------------------------------------------
(* The description of an attachment *)

\* What opening, writing and renaming a description leaves alone.
LEMMA BesideFiles ==
    ASSUME IInv, NEW j \in Job, NEW to \in {"write", "replace", "over"},
           pc[j] \in {"describe", "write", "replace"}, Goto(j, to), DriveTypeOK',
           UNCHANGED <<state, statePart, slot, slotPart, bytes, shared, req, source>>,
           \A k \in Job \ {j} : handle'[k] = handle[k]
    PROVE  /\ Files'
           /\ pc'[j] = to
           /\ \A k \in Job : /\ Named(k)' = Named(k)
                             /\ k # j => pc'[k] = pc[k]
           /\ \A i, n : WrittenFor(i, n) => WrittenFor(i, n)'
           /\ WrittenFor(j, Named(j)) /\ pc'[j] # "idle"
<1>0. DriveTypeOK /\ Files
    BY DEF IInv
<1>1. to \in Working \cup Ended /\ pc[j] \in Working /\ to \notin Unopened
    BY DEF Working, Attaching, Ended, Unopened
<1>2. /\ pc'[j] = to
      /\ \A k \in Job : /\ Named(k)' = Named(k)
                        /\ k # j => pc'[k] = pc[k]
                        /\ pc[k] \notin Unopened => pc'[k] \notin Unopened
                        /\ pc[k] # "idle" => pc'[k] # "idle"
    BY <1>0, <1>1, GoingOn
<1>3. \A n \in Name : Found(n)'
    BY <1>0, <1>2 DEF Files, FilesOf, Found, At
<1>4. to \notin Writing \cup Placing
    BY DEF Writing, Placing
<1>5. Files'
    BY <1>2, <1>3, <1>4, Frame
<1> QED
    BY <1>1, <1>2, <1>5 DEF WrittenFor

\* A description is opened for its name, ...
LEMMA DescribeKeeps ==
    ASSUME IInv, NEW j \in Job, Describe(j)
    PROVE  IInv'
<1> DEFINE n == Named(j)
           i == IF metaPart[n] = NoFile THEN j ELSE metaPart[n]
<1>0. DriveTypeOK /\ DescribedByOwn /\ n \in Name /\ NoFile \notin Job
    BY Types DEF IInv
<1>1. /\ pc[j] = "describe" /\ Goto(j, "write")
      /\ metaPart' = [metaPart EXCEPT ![n] = i]
      /\ text' = [text EXCEPT ![i] = NoFile]
      /\ handle' = [handle EXCEPT ![j] = i]
      /\ UNCHANGED <<content, state, statePart, meta, slot, slotPart, bytes, shared, disturbs,
                     req, source>>
    BY DEF Describe, Step, Still, slots
<1>2. i \in Job
    BY <1>0, Types DEF Inode
<1>3. DriveTypeOK'
    <2>1. /\ metaPart' \in [Name -> Inode] /\ handle' \in [Job -> Inode]
          /\ text' \in [Job -> Inode \cup {Unknown}]
          /\ pc' \in [Job -> {"idle"} \cup Working \cup Ended]
        <3> HIDE DEF i
        <3> QED
            BY <1>0, <1>1, <1>2, Types DEF Goto, Inode, Working, Attaching
    <2> QED
        BY <1>0, <1>1, <2>1 DEF DriveTypeOK
<1>4. /\ Files' /\ pc'[j] = "write"
      /\ \A k \in Job : /\ Named(k)' = Named(k)
                        /\ k # j => pc'[k] = pc[k]
      /\ \A x, m : WrittenFor(x, m) => WrittenFor(x, m)'
      /\ WrittenFor(j, n) /\ pc'[j] # "idle"
    BY <1>0, <1>1, <1>3, Types, BesideFiles
<1>5. WrittenFor(i, n)
    BY <1>0, <1>4 DEF DescribedByOwn
<1> HIDE DEF i
<1>6. DescribedByOwn'
    <2>1. \A m \in Name : /\ meta'[m] # NoFile => WrittenFor(meta[m], m)'
                          /\ metaPart'[m] # NoFile => WrittenFor(metaPart[m], m)'
        BY <1>0, <1>1, <1>4, <1>5, Types DEF DescribedByOwn
    <2>2. \A x \in Job : text'[x] \in Job => pc'[x] # "idle" /\ WrittenFor(text[x], Named(x))'
        <3> SUFFICES ASSUME NEW x \in Job, text'[x] \in Job
                     PROVE  pc'[x] # "idle" /\ WrittenFor(text[x], Named(x))'
            OBVIOUS
        <3>1. x # i /\ text'[x] = text[x]
            BY <1>0, <1>1, <1>2, Types
        <3> QED
            BY <1>0, <1>1, <1>4, <3>1 DEF DescribedByOwn
    <2>3. \A k \in Job : pc'[k] = "write" => WrittenFor(handle[k], Named(k))'
        BY <1>0, <1>1, <1>4, <1>5, Types DEF DescribedByOwn
    <2> QED
        BY <2>1, <2>2, <2>3 DEF DescribedByOwn
<1> QED
    BY <1>3, <1>4, <1>6 DEF IInv

\* ... written for it, ...
LEMMA WriteKeeps ==
    ASSUME IInv, NEW j \in Job, Write(j)
    PROVE  IInv'
<1>0. DriveTypeOK /\ DescribedByOwn /\ NoFile \notin Job
    BY Types DEF IInv
<1>1. PICK t \in {j, Unknown} : text' = [text EXCEPT ![handle[j]] = t]
    BY DEF Write
<1>2. /\ pc[j] = "write" /\ Goto(j, "replace")
      /\ handle' = [handle EXCEPT ![j] = NoFile]
      /\ UNCHANGED <<content, state, statePart, meta, metaPart, slot, slotPart, bytes, shared,
                     disturbs, req, source>>
    BY DEF Write, Step, Still, slots
<1>3. WrittenFor(handle[j], Named(j))
    BY <1>0, <1>2 DEF DescribedByOwn
<1>4. DriveTypeOK'
    <2>1. /\ handle' \in [Job -> Inode] /\ text' \in [Job -> Inode \cup {Unknown}]
          /\ pc' \in [Job -> {"idle"} \cup Working \cup Ended]
        BY <1>0, <1>1, <1>2, Types DEF Goto, Inode, Working, Attaching
    <2> QED
        BY <1>0, <1>2, <2>1 DEF DriveTypeOK
<1>5. /\ Files' /\ pc'[j] = "replace"
      /\ \A k \in Job : /\ Named(k)' = Named(k)
                        /\ k # j => pc'[k] = pc[k]
      /\ \A x, m : WrittenFor(x, m) => WrittenFor(x, m)'
      /\ WrittenFor(j, Named(j)) /\ pc'[j] # "idle"
    BY <1>0, <1>2, <1>4, Types, BesideFiles
<1>6. DescribedByOwn'
    <2>1. \A m \in Name : /\ meta'[m] # NoFile => WrittenFor(meta[m], m)'
                          /\ metaPart'[m] # NoFile => WrittenFor(metaPart[m], m)'
        BY <1>0, <1>2, <1>5 DEF DescribedByOwn
    <2>2. \A x \in Job : text'[x] \in Job => pc'[x] # "idle" /\ WrittenFor(text[x], Named(x))'
        <3> SUFFICES ASSUME NEW x \in Job, text'[x] \in Job
                     PROVE  pc'[x] # "idle" /\ WrittenFor(text[x], Named(x))'
            OBVIOUS
        <3>1. CASE x = handle[j]
            <4>1. text'[x] = j
                BY <1>0, <1>1, <3>1, Types
            <4>2. Named(x) = Named(j) /\ pc[x] # "idle"
                BY <1>3, <3>1 DEF WrittenFor
            <4> QED
                BY <1>2, <1>5, <4>1, <4>2
        <3>2. CASE x # handle[j]
            <4>1. text'[x] = text[x]
                BY <1>0, <1>1, <3>2, Types
            <4> QED
                BY <1>0, <1>2, <1>5, <4>1 DEF DescribedByOwn
        <3> QED
            BY <3>1, <3>2
    <2>3. \A k \in Job : pc'[k] = "write" => WrittenFor(handle[k], Named(k))'
        BY <1>0, <1>2, <1>5, Types DEF DescribedByOwn
    <2> QED
        BY <2>1, <2>2, <2>3 DEF DescribedByOwn
<1> QED
    BY <1>4, <1>5, <1>6 DEF IInv

\* ... and renamed to it.
LEMMA ReplaceKeeps ==
    ASSUME IInv, NEW j \in Job, Replace(j)
    PROVE  IInv'
<1> DEFINE n == Named(j)
<1>0. DriveTypeOK /\ DescribedByOwn /\ n \in Name
    BY Types DEF IInv
<1>1. /\ pc[j] = "replace" /\ Goto(j, "over") /\ metaPart[n] # NoFile
      /\ meta' = [meta EXCEPT ![n] = metaPart[n]]
      /\ metaPart' = [metaPart EXCEPT ![n] = NoFile]
      /\ UNCHANGED <<content, state, statePart, slot, slotPart, bytes, text, shared, disturbs,
                     req, source, handle>>
    BY DEF Replace, Step, Still, slots, files
<1>2. DriveTypeOK'
    <2>1. /\ meta' \in [Name -> Inode] /\ metaPart' \in [Name -> Inode]
          /\ pc' \in [Job -> {"idle"} \cup Working \cup Ended]
        BY <1>0, <1>1, Types DEF Goto, Inode, Ended
    <2> QED
        BY <1>0, <1>1, <2>1 DEF DriveTypeOK
<1>3. /\ Files' /\ pc'[j] = "over"
      /\ \A k \in Job : /\ Named(k)' = Named(k)
                        /\ k # j => pc'[k] = pc[k]
      /\ \A x, m : WrittenFor(x, m) => WrittenFor(x, m)'
      /\ pc'[j] # "idle"
    BY <1>0, <1>1, <1>2, Types, BesideFiles
<1>4. DescribedByOwn'
    <2>1. \A m \in Name : /\ meta'[m] # NoFile => WrittenFor(meta[m], m)'
                          /\ metaPart'[m] # NoFile => WrittenFor(metaPart[m], m)'
        <3> SUFFICES ASSUME NEW m \in Name
                     PROVE  /\ meta'[m] # NoFile => WrittenFor(meta[m], m)'
                            /\ metaPart'[m] # NoFile => WrittenFor(metaPart[m], m)'
            OBVIOUS
        <3>1. CASE m = n
            <4>1. meta'[m] = metaPart[m] /\ metaPart'[m] = NoFile
                BY <1>0, <1>1, <3>1, Types
            <4> QED
                BY <1>0, <1>3, <4>1 DEF DescribedByOwn
        <3>2. CASE m # n
            <4>1. meta'[m] = meta[m] /\ metaPart'[m] = metaPart[m]
                BY <1>0, <1>1, <3>2, Types
            <4> QED
                BY <1>0, <1>3, <4>1 DEF DescribedByOwn
        <3> QED
            BY <3>1, <3>2
    <2>2. \A x \in Job : text'[x] \in Job => pc'[x] # "idle" /\ WrittenFor(text[x], Named(x))'
        BY <1>0, <1>1, <1>3 DEF DescribedByOwn
    <2>3. \A k \in Job : pc'[k] = "write" => WrittenFor(handle[k], Named(k))'
        BY <1>0, <1>1, <1>3 DEF DescribedByOwn
    <2> QED
        BY <2>1, <2>2, <2>3 DEF DescribedByOwn
<1> QED
    BY <1>2, <1>3, <1>4 DEF IInv

-----------------------------------------------------------------------------
(* The files *)

\* Inode i has no name but, perhaps, the .tmp name of n on the drive, and no stage of
\* that name has it in hand.
Apart(i, n) ==
    /\ i \in Job
    /\ state[n] # i /\ slot[n] # i /\ slotPart[n] # i
    /\ \A k \in At(n, Filling) : handle[k] # i /\ source[k] # i

\* A job that has not created a file is apart, and nobody has it open.
LEMMA FreshIsApart ==
    ASSUME IInv, NEW i \in Job, pc[i] \in Unopened, NEW n \in Name
    PROVE  /\ Apart(i, n) /\ statePart[n] # i
           /\ \A k \in Job : ~HasOpen(k, i)
<1>1. \A m \in Name : EntriesAreOwn(m)
    BY DEF IInv, Files, FilesOf
<1>2. (\A m : ~Created(i, m)) /\ NoFile \notin Job
    BY DriveAssumption DEF Created
<1>3. \A k \in Job : Named(k) \in Name
    BY Types DEF IInv
<1>4. Apart(i, n) /\ statePart[n] # i
    BY <1>1, <1>2 DEF EntriesAreOwn, Apart, At, Copying, Filling
<1>5. \A k \in Job : ~HasOpen(k, i)
    BY <1>1, <1>2, <1>3 DEF EntriesAreOwn, At, HasOpen
<1> QED
    BY <1>4, <1>5

\* The .tmp file of a name is, and only a job that writes to it has it open.
LEMMA PartOfDriveIsApart ==
    ASSUME IInv, NEW n \in Name, statePart[n] # NoFile
    PROVE  /\ Apart(statePart[n], n) /\ Created(statePart[n], n)
           /\ \A k \in Job : HasOpen(k, statePart[n]) => k \in At(n, Writing)
<1>1. (\A m \in Name : EntriesAreOwn(m)) /\ PartIsApart(n)
    BY DEF IInv, Files, FilesOf
<1>2. Created(statePart[n], n)
    BY <1>1 DEF EntriesAreOwn
<1>3. Apart(statePart[n], n)
    BY <1>1, <1>2 DEF PartIsApart, Apart, Created
<1>4. ASSUME NEW k \in Job, HasOpen(k, statePart[n]) PROVE k \in At(n, Writing)
    <2>1. Named(k) \in Name /\ pc[k] \in Copying /\ handle[k] = statePart[n]
        BY <1>4, Types DEF IInv, HasOpen
    <2>2. Created(handle[k], Named(k))
        BY <1>1, <2>1 DEF EntriesAreOwn, At
    <2>3. Named(k) = n
        BY <1>2, <2>1, <2>2 DEF Created
    <2>4. pc[k] \notin Filling
        BY <1>3, <2>1, <2>3 DEF Apart, At
    <2> QED
        BY <2>1, <2>3, <2>4 DEF At, Copying, Filling, Writing
<1> QED
    BY <1>2, <1>3, <1>4

\* Job j has acted on the files of its name n, and on inode w alone.
Acts(j, n, w) ==
    /\ \A k \in Job : /\ Named(k)' = Named(k)
                      /\ k # j => pc'[k] = pc[k]
                      /\ k # j => handle'[k] = handle[k] /\ source'[k] = source[k]
                      /\ pc[k] # "idle" => pc'[k] # "idle"
    /\ \A i, m : Created(i, m) => Created(i, m)'
    /\ pc'[j] \in Copying => handle'[j] = w
    /\ \A m \in Name : m # n => /\ state'[m] = state[m] /\ statePart'[m] = statePart[m]
                                /\ slot'[m] = slot[m] /\ slotPart'[m] = slotPart[m]
    /\ \A i \in Job : i # w => bytes'[i] = bytes[i] /\ (i \in shared' <=> i \in shared)

\* The frame of every such step.
LEMMA StepStays ==
    ASSUME IInv, NEW j \in Job, NEW to \in Working \cup Ended,
           pc[j] \in Working, to \notin Unopened, to # "write", Goto(j, to),
           UNCHANGED <<meta, metaPart, text, req>>,
           \A k \in Job : k # j => handle'[k] = handle[k] /\ source'[k] = source[k]
    PROVE  /\ pc'[j] = to
           /\ \A k \in Job : /\ Named(k)' = Named(k)
                             /\ k # j => pc'[k] = pc[k]
                             /\ k # j => handle'[k] = handle[k] /\ source'[k] = source[k]
                             /\ pc[k] # "idle" => pc'[k] # "idle"
           /\ \A i, m : Created(i, m) => Created(i, m)'
           /\ pc' \in [Job -> {"idle"} \cup Working \cup Ended]
           /\ DescribedByOwn'
           /\ Created(j, Named(j))'
<1>1. DriveTypeOK
    BY DEF IInv
<1>2. /\ pc'[j] = to
      /\ \A k \in Job : /\ Named(k)' = Named(k)
                        /\ k # j => pc'[k] = pc[k]
                        /\ pc[k] # "idle" => pc'[k] # "idle"
      /\ \A i, m : Created(i, m) => Created(i, m)'
      /\ pc' \in [Job -> {"idle"} \cup Working \cup Ended]
    BY <1>1, GoingOn
<1>3. DescribedByOwn'
    BY <1>2, DescriptionsKeep
<1>4. Created(j, Named(j))'
    BY <1>2 DEF Created
<1> QED
    BY <1>2, <1>3, <1>4

\* A settled file that is not written to stays so.
LEMMA StaysSettled ==
    ASSUME NEW j \in Job, NEW n, NEW w, Acts(j, n, w)
    PROVE  \A i \in Job : Settled(i) /\ i # w => Settled(i)'
BY DEF Settled, Whole, HasOpen, Acts

\* What other names lead to is left alone.
LEMMA OtherNames ==
    ASSUME IInv, NEW j \in Job, NEW n \in Name, n = Named(j), NEW w, Created(w, n)',
           Acts(j, n, w), NEW m \in Name, m # n
    PROVE  FilesOf(m)'
<1>0. FilesOf(m) /\ DriveTypeOK /\ NoFile \notin Job
    BY Types DEF IInv, Files
<1>1. \A labels : At(m, labels)' = At(m, labels)
    BY DEF At, Acts
<1>2. \A labels : \A k \in At(m, labels) :
         /\ k \in Job /\ k # j
         /\ pc'[k] = pc[k] /\ handle'[k] = handle[k] /\ source'[k] = source[k]
    BY DEF At, Acts
<1>3. \A x : Created(x, m) =>
         /\ x # w /\ x \in Job
         /\ Created(x, m)'
         /\ bytes'[x] = bytes[x] /\ (x \in shared' <=> x \in shared)
         /\ Settled(x) => Settled(x)'
    <2>1. \A x : Created(x, m) => x \in Job /\ Created(x, m)' /\ x # w
        BY DEF Acts, Created
    <2> QED
        BY <2>1, StaysSettled DEF Acts
<1>4. /\ state'[m] = state[m] /\ statePart'[m] = statePart[m]
      /\ slot'[m] = slot[m] /\ slotPart'[m] = slotPart[m]
    BY DEF Acts
<1>5. EntriesAreOwn(m)
    BY <1>0 DEF FilesOf
<1>6. EntriesAreOwn(m)'
    BY <1>1, <1>2, <1>3, <1>4, <1>5 DEF EntriesAreOwn
<1>7. PartIsApart(m)'
    BY <1>0, <1>1, <1>2, <1>4 DEF FilesOf, PartIsApart
<1>8. PartIsWritten(m)'
    <2> SUFFICES ASSUME statePart'[m] # NoFile, statePart'[m] \notin shared',
                        NEW k \in At(m, Writing)'
                 PROVE  /\ \A o \in At(m, Writing)' : o = k
                        /\ pc'[k] # "install" => handle'[k] = statePart'[m]
                        /\ pc'[k] = "finish" => bytes'[statePart'[m]][1] = k
                        /\ pc'[k] = "install" => Whole(statePart[m])'
        BY DEF PartIsWritten
    <2>1. statePart[m] \notin shared /\ bytes'[statePart[m]] = bytes[statePart[m]]
        BY <1>3, <1>4, <1>5 DEF EntriesAreOwn
    <2> QED
        BY <1>0, <1>1, <1>2, <1>4, <2>1 DEF FilesOf, PartIsWritten, Whole
<1>9. StateIsSettled(m)' /\ SlotIsSettled(m)'
    BY <1>0, <1>3, <1>4, <1>5 DEF FilesOf, StateIsSettled, SlotIsSettled, EntriesAreOwn
<1>10. SourceIsSettled(m)'
    <2> SUFFICES ASSUME NEW k \in At(m, Filling)', source'[k] \notin shared'
                 PROVE  Settled(source[k])'
        BY DEF SourceIsSettled
    <2>1. k \in At(m, Filling) /\ source'[k] = source[k]
        BY <1>1, <1>2
    <2>2. Created(source[k], m) /\ source[k] \notin shared
        BY <1>3, <1>5, <2>1 DEF EntriesAreOwn
    <2>3. Settled(source[k])
        BY <1>0, <2>1, <2>2 DEF FilesOf, SourceIsSettled
    <2> QED
        BY <1>3, <2>1, <2>2, <2>3
<1>11. SlotPartIsFilled(m)'
    <2> SUFFICES ASSUME slotPart'[m] # NoFile, slotPart'[m] \notin shared',
                        ~Settled(slotPart[m])', NEW k \in At(m, Placing)'
                 PROVE  Fills(k, m)'
        BY DEF SlotPartIsFilled
    <2>1. k \in At(m, Placing) /\ Created(slotPart[m], m) /\ ~Settled(slotPart[m])
        BY <1>1, <1>3, <1>4, <1>5 DEF EntriesAreOwn
    <2>2. Fills(k, m)
        BY <1>0, <1>3, <1>4, <2>1 DEF FilesOf, SlotPartIsFilled
    <2>3. \A o \in Job : HasOpen(o, slotPart[m])' => HasOpen(o, slotPart[m])
        BY <1>3, <1>4, <2>1 DEF HasOpen, Acts
    <2>4. pc[k] = "fill rest" => Created(source[k], m)
        BY <1>5, <2>1 DEF EntriesAreOwn, At, Filling
    <2>5. \A o \in At(m, Placing)' : o = k
        BY <1>1, <2>2 DEF Fills
    <2>6. pc'[k] # "place" /\ handle'[k] = slotPart'[m]
        BY <1>2, <1>4, <2>1, <2>2 DEF Fills
    <2>7. pc'[k] = "fill rest" /\ source'[k] \notin shared' =>
             bytes'[slotPart'[m]][1] = bytes'[source'[k]][1]
        BY <1>2, <1>3, <1>4, <2>1, <2>2, <2>4 DEF Fills
    <2>8. \A o \in Job : HasOpen(o, slotPart[m])' => o = k
        BY <2>2, <2>3 DEF Fills
    <2> QED
        BY <2>5, <2>6, <2>7, <2>8 DEF Fills
<1>12. Found(m)'
    BY <1>0, <1>1, <1>4 DEF FilesOf, Found
<1> QED
    BY <1>6, <1>7, <1>8, <1>9, <1>10, <1>11, <1>12 DEF FilesOf

\* Halves written with halves of the same name's attachments, or with nothing, leave
\* every file its own.
LEMMA HoldsOwnKeeps ==
    ASSUME IInv, NEW j \in Job, pc[j] # "idle", NEW w, Acts(j, Named(j), w),
           Created(w, Named(j))',
           \A h \in Half :
              \/ bytes'[w][h] \in {bytes[w][h], NoFile, j}
              \/ \E s : Created(s, Named(j)) /\ bytes'[w][h] = bytes[s][h]
    PROVE  HoldsOwn'
<1>1. DriveTypeOK /\ HoldsOwn
    BY DEF IInv, Files
<1> SUFFICES ASSUME NEW i \in Job, NEW h \in Half, bytes'[i][h] # NoFile
             PROVE  pc'[bytes'[i][h]] # "idle" /\ Created(i, Named(bytes[i][h]))'
    BY DEF HoldsOwn
<1>2. \A s \in Job : bytes[s][h] # NoFile =>
         bytes[s][h] \in Job /\ pc[bytes[s][h]] # "idle" /\ Created(s, Named(bytes[s][h]))
    BY <1>1, Types DEF HoldsOwn, Inode
<1>3. CASE bytes'[i][h] = bytes[i][h]
    BY <1>2, <1>3 DEF Acts
<1>4. CASE i = w /\ bytes'[i][h] = j
    BY <1>4 DEF Acts
<1>5. ASSUME i = w, NEW s, Created(s, Named(j)), bytes'[i][h] = bytes[s][h]
      PROVE  pc'[bytes'[i][h]] # "idle" /\ Created(i, Named(bytes[i][h]))'
    <2>1. bytes[s][h] \in Job /\ pc[bytes[s][h]] # "idle" /\ Named(bytes[s][h]) = Named(j)
        BY <1>2, <1>5 DEF Created
    <2> QED
        BY <1>5, <2>1 DEF Acts
<1>6. i # w => bytes'[i] = bytes[i]
    BY DEF Acts
<1> QED
    BY <1>3, <1>4, <1>5, <1>6

\* So a step on the files keeps the invariant if it keeps what is said of its name.
LEMMA ActKeeps ==
    ASSUME IInv, NEW j \in Job, pc[j] # "idle", NEW n \in Name, n = Named(j), NEW w,
           Acts(j, n, w), Created(w, n)', DriveTypeOK', DescribedByOwn', FilesOf(n)',
           \A h \in Half :
              \/ bytes'[w][h] \in {bytes[w][h], NoFile, j}
              \/ \E s : Created(s, n) /\ bytes'[w][h] = bytes[s][h]
    PROVE  IInv'
<1>1. \A m \in Name : FilesOf(m)'
    BY OtherNames
<1>2. HoldsOwn'
    <2>1. Acts(j, Named(j), w)
        OBVIOUS
    <2>2. Created(w, Named(j))'
        BY DEF Acts
    <2> QED
        BY <2>1, <2>2, HoldsOwnKeeps
<1> QED
    BY <1>1, <1>2 DEF IInv, Files

-----------------------------------------------------------------------------
(* attach() *)

\* What a step of an attach leaves as it was: the staged files of its name, whether it
\* writes to a file apart from them or to one it has open.
LEMMA StagedKeep ==
    ASSUME IInv, NEW j \in Job, NEW n \in Name, n = Named(j), NEW w, Acts(j, n, w),
           pc[j] \in Attaching, pc'[j] \in Attaching,
           slot'[n] = slot[n], slotPart'[n] = slotPart[n],
           \/ Apart(w, n)
           \/ HasOpen(j, w) /\ (w \in shared' <=> w \in shared)
    PROVE  /\ SlotIsSettled(n)' /\ SourceIsSettled(n)' /\ SlotPartIsFilled(n)'
           /\ \A x \in Job : Settled(x) /\ x # w => Settled(x)'
           /\ \A k \in At(n, Filling)' : /\ k \in At(n, Filling)
                                         /\ handle'[k] = handle[k] /\ source'[k] = source[k]
           /\ state'[n] = state[n] => Found(n)'
<1>1. FilesOf(n) /\ EntriesAreOwn(n)
    BY DEF IInv, Files, FilesOf
<1>2. pc[j] \notin Placing \cup Filling /\ pc'[j] \notin Placing \cup Filling
    BY DEF Attaching, Placing, Filling
<1>3. /\ At(n, Filling)' = At(n, Filling) /\ At(n, Placing)' = At(n, Placing)
      /\ \A k \in At(n, Filling) \cup At(n, Placing) :
            k # j /\ pc'[k] = pc[k] /\ handle'[k] = handle[k] /\ source'[k] = source[k]
    <2>1. \A k \in Job : k # j =>
             /\ Named(k)' = Named(k)
             /\ pc'[k] = pc[k] /\ handle'[k] = handle[k] /\ source'[k] = source[k]
        BY DEF Acts
    <2> QED
        BY <1>2, <2>1 DEF At
<1>4. \A x \in Job : Settled(x) /\ x # w => Settled(x)'
    BY StaysSettled
<1>5. ASSUME NEW x \in Job,
             x = slot[n] \/ x = slotPart[n] \/ \E k \in At(n, Filling) : source[k] = x,
             x \notin shared'
      PROVE  /\ x \notin shared
             /\ Settled(x) => x # w /\ Settled(x)'
    <2>1. CASE x = w
        <3>1. HasOpen(j, x)
            BY <1>5, <2>1 DEF Apart
        <3> QED
            BY <1>5, <2>1, <3>1 DEF Settled, Apart
    <2>2. CASE x # w
        BY <1>4, <1>5, <2>2 DEF Acts
    <2> QED
        BY <2>1, <2>2
<1>6. SlotIsSettled(n)'
    BY <1>1, <1>5 DEF FilesOf, SlotIsSettled, EntriesAreOwn, Created
<1>7. \A k \in At(n, Filling) : source[k] \in Job
    BY <1>1 DEF EntriesAreOwn, Created
<1>8. \A k \in At(n, Filling) : source[k] \notin shared' =>
         source[k] \notin shared /\ source[k] # w /\ Settled(source[k])'
    <2>1. \A k \in At(n, Filling) : source[k] \notin shared' => source[k] \notin shared
        BY <1>5, <1>7
    <2>2. \A k \in At(n, Filling) : source[k] \notin shared => Settled(source[k])
        BY <1>1 DEF FilesOf, SourceIsSettled
    <2> QED
        BY <1>3, <1>5, <1>7, <2>1, <2>2
<1>9. SourceIsSettled(n)'
    <2> SUFFICES ASSUME NEW k \in At(n, Filling)', source'[k] \notin shared'
                 PROVE  Settled(source[k])'
        BY DEF SourceIsSettled
    <2>1. k \in At(n, Filling) /\ source'[k] = source[k]
        BY <1>3
    <2> QED
        BY <1>8, <2>1
<1>10. SlotPartIsFilled(n)'
    <2> SUFFICES ASSUME slotPart'[n] # NoFile, slotPart'[n] \notin shared',
                        ~Settled(slotPart[n])', NEW k \in At(n, Placing)'
                 PROVE  Fills(k, n)'
        BY DEF SlotPartIsFilled
    <2>1. slotPart[n] \in Job /\ slotPart[n] \notin shared /\ ~Settled(slotPart[n])
        BY <1>1, <1>5 DEF EntriesAreOwn, Created
    <2>2. k \in At(n, Placing) /\ k \in Job /\ k # j
        BY <1>2, <1>3 DEF At
    <2>3. Fills(k, n)
        BY <1>1, <2>1, <2>2 DEF FilesOf, SlotPartIsFilled
    <2>4. slotPart[n] # w
        BY <2>2, <2>3 DEF Fills, Apart
    <2>5. \A o \in Job : HasOpen(o, slotPart[n])' => o = k
        <3>1. \A o \in Job : HasOpen(o, slotPart[n])' => HasOpen(o, slotPart[n])
            BY <2>4 DEF HasOpen, Acts
        <3> QED
            BY <2>3, <3>1 DEF Fills
    <2>6. /\ \A o \in At(n, Placing)' : o = k
          /\ pc'[k] # "place" /\ handle'[k] = slotPart'[n]
        BY <1>3, <2>2, <2>3 DEF Fills
    <2>7. ASSUME pc'[k] = "fill rest", source'[k] \notin shared'
          PROVE  bytes'[slotPart'[n]][1] = bytes'[source'[k]][1]
        <3>1. k \in At(n, Filling) /\ pc[k] = "fill rest" /\ source'[k] = source[k]
            BY <1>3, <2>2, <2>7 DEF At, Filling
        <3>2. source[k] \notin shared /\ source[k] # w /\ source[k] \in Job
            BY <1>7, <1>8, <2>7, <3>1
        <3>3. bytes[slotPart[n]][1] = bytes[source[k]][1]
            BY <2>3, <3>1, <3>2 DEF Fills
        <3> QED
            BY <2>1, <2>4, <3>1, <3>2, <3>3 DEF Acts
    <2> QED
        BY <2>5, <2>6, <2>7 DEF Fills
<1>11. state'[n] = state[n] => Found(n)'
    <2>1. At(n, {"link", "fallback"})' = At(n, {"link", "fallback"})
        BY DEF At, Acts, Attaching
    <2> QED
        BY <1>1, <2>1 DEF FilesOf, Found
<1> QED
    BY <1>3, <1>4, <1>6, <1>9, <1>10, <1>11

\* Opening truncates a .tmp file that has no other name.
LEMMA OpenKeeps ==
    ASSUME IInv, NEW j \in Job, Open(j)
    PROVE  IInv'
<1>1. DriveTypeOK /\ Named(j) \in Name /\ NoFile \notin Job
    BY Types DEF IInv
<1>2. PICK n \in Name : n = Named(j)
    BY <1>1
<1>3. PICK i : i = IF statePart[n] = NoFile THEN j ELSE statePart[n]
    OBVIOUS
<1>4. /\ pc[j] = "open" /\ Goto(j, "copy")
      /\ statePart' = [statePart EXCEPT ![n] = i]
      /\ handle' = [handle EXCEPT ![j] = i]
      /\ bytes' = [bytes EXCEPT ![i] = Empty]
      /\ shared' = IF InHand(j, i, Writing) THEN shared \cup {i} ELSE shared \ {i}
      /\ UNCHANGED <<content, state, meta, metaPart, slot, slotPart, text, disturbs,
                     req, source>>
    BY <1>2, <1>3 DEF Open, Step, Still, slots, Truncate
<1>5. /\ pc'[j] = "copy"
      /\ \A k \in Job : /\ Named(k)' = Named(k)
                        /\ k # j => pc'[k] = pc[k]
                        /\ k # j => handle'[k] = handle[k] /\ source'[k] = source[k]
                        /\ pc[k] # "idle" => pc'[k] # "idle"
      /\ \A x, m : Created(x, m) => Created(x, m)'
      /\ pc' \in [Job -> {"idle"} \cup Working \cup Ended]
      /\ DescribedByOwn' /\ Created(j, n)'
    <2>1. "copy" \in Working \cup Ended /\ pc[j] \in Working /\ "copy" \notin Unopened
        BY <1>4 DEF Working, Attaching, Unopened
    <2>2. \A k \in Job : k # j => handle'[k] = handle[k] /\ source'[k] = source[k]
        BY <1>1, <1>4, Types
    <2> QED
        BY <1>2, <1>4, <2>1, <2>2, StepStays
<1>6. Apart(i, n) /\ Created(i, n)' /\ i \in Job
    <2>1. CASE statePart[n] = NoFile
        BY <1>3, <1>4, <1>5, <2>1, FreshIsApart DEF Unopened
    <2>2. CASE statePart[n] # NoFile
        BY <1>3, <1>5, <2>2, PartOfDriveIsApart DEF Created
    <2> QED
        BY <2>1, <2>2 DEF Created
<1>7. /\ statePart'[n] = i /\ handle'[j] = i
      /\ \A m \in Name : m # n => statePart'[m] = statePart[m]
      /\ bytes'[i] = Empty /\ \A k \in Job : k # i => bytes'[k] = bytes[k]
      /\ \A x : x # i => (x \in shared' <=> x \in shared)
      /\ i \notin shared' => ~InHand(j, i, Writing)
    BY <1>1, <1>4, <1>6, Types
<1>8. Acts(j, n, i)
    BY <1>4, <1>5, <1>7 DEF Acts
<1>9. DriveTypeOK'
    <2>1. /\ statePart' \in [Name -> Inode] /\ handle' \in [Job -> Inode]
          /\ bytes' \in [Job -> [Half -> Inode]] /\ shared' \subseteq Job
        BY <1>1, <1>4, <1>6, Types DEF Inode, Empty
    <2>2. \A m \in Name : state'[m] # NoFile => state'[m] # statePart'[m]
        BY <1>1, <1>4, <1>6, <1>7 DEF DriveTypeOK, Apart
    <2> QED
        BY <1>1, <1>4, <1>5, <2>1, <2>2 DEF DriveTypeOK
<1>10. FilesOf(n) /\ EntriesAreOwn(n)
    BY DEF IInv, Files, FilesOf
<1>11. /\ SlotIsSettled(n)' /\ SourceIsSettled(n)' /\ SlotPartIsFilled(n)'
       /\ \A x \in Job : Settled(x) /\ x # i => Settled(x)'
       /\ \A k \in At(n, Filling)' : /\ k \in At(n, Filling)
                                     /\ handle'[k] = handle[k] /\ source'[k] = source[k]
       /\ Found(n)'
    BY <1>2, <1>4, <1>5, <1>6, <1>8, StagedKeep DEF Attaching
<1>12. EntriesAreOwn(n)'
    <2>1. \A k \in At(n, Copying)' : k \in At(n, Copying) \/ k = j
        BY <1>5 DEF At
    <2> QED
        BY <1>4, <1>5, <1>6, <1>7, <1>10, <1>11, <2>1 DEF EntriesAreOwn, At
<1>13. PartIsApart(n)'
    BY <1>4, <1>6, <1>7, <1>11 DEF PartIsApart, Apart
<1>14. StateIsSettled(n)'
    BY <1>4, <1>6, <1>7, <1>10, <1>11
       DEF FilesOf, StateIsSettled, Apart, EntriesAreOwn, Created
<1>15. PartIsWritten(n)'
    <2> SUFFICES ASSUME statePart'[n] \notin shared', NEW k \in At(n, Writing)'
                 PROVE  k = j
        BY <1>5, <1>7 DEF PartIsWritten
    <2>1. ~Overlaps(j, Writing)
        BY <1>7 DEF InHand
    <2> QED
        BY <1>2, <1>5, <2>1 DEF At, Overlaps
<1>16. FilesOf(n)'
    BY <1>11, <1>12, <1>13, <1>14, <1>15 DEF FilesOf
<1> QED
    BY <1>2, <1>4, <1>5, <1>6, <1>7, <1>8, <1>9, <1>16, ActKeeps DEF Empty

\* Each half is written over the other's beginning or its own, ...
LEMMA CopyKeeps ==
    ASSUME IInv, NEW j \in Job, Copy(j) \/ Finish(j)
    PROVE  IInv'
<1>1. DriveTypeOK /\ Named(j) \in Name /\ NoFile \notin Job
    BY Types DEF IInv
<1>2. PICK n \in Name : n = Named(j)
    BY <1>1
<1>3. PICK w : w = handle[j]
    OBVIOUS
<1>4. PICK h \in Half : h = IF Copy(j) THEN 1 ELSE 2
    BY DEF Half
<1>5. /\ bytes' = [bytes EXCEPT ![w][h] = j]
      /\ \/ pc[j] = "copy" /\ Goto(j, "finish") /\ handle' = handle /\ h = 1
         \/ pc[j] = "finish" /\ Goto(j, "install") /\ h = 2
            /\ handle' = [handle EXCEPT ![j] = NoFile]
      /\ UNCHANGED <<content, state, statePart, meta, metaPart, slot, slotPart, text, shared,
                     disturbs, req, source>>
    BY <1>3, <1>4 DEF Copy, Finish, Step, Still, slots
<1>6. FilesOf(n) /\ EntriesAreOwn(n)
    BY DEF IInv, Files, FilesOf
<1>7. Created(w, n) /\ HasOpen(j, w) /\ w \in Job
    BY <1>2, <1>3, <1>5, <1>6 DEF EntriesAreOwn, At, Copying, HasOpen, Created
<1>8. /\ pc'[j] = IF h = 1 THEN "finish" ELSE "install"
      /\ \A k \in Job : /\ Named(k)' = Named(k)
                        /\ k # j => pc'[k] = pc[k]
                        /\ k # j => handle'[k] = handle[k] /\ source'[k] = source[k]
                        /\ pc[k] # "idle" => pc'[k] # "idle"
      /\ \A x, m : Created(x, m) => Created(x, m)'
      /\ pc' \in [Job -> {"idle"} \cup Working \cup Ended]
      /\ DescribedByOwn' /\ Created(j, n)'
    <2>1. /\ {"finish", "install"} \subseteq Working \cup Ended /\ pc[j] \in Working
          /\ "finish" \notin Unopened /\ "install" \notin Unopened
        BY <1>5 DEF Working, Attaching, Unopened
    <2>2. \A k \in Job : k # j => handle'[k] = handle[k] /\ source'[k] = source[k]
        BY <1>1, <1>5, Types
    <2>3. CASE Goto(j, "finish") /\ h = 1
        BY <1>2, <1>5, <2>1, <2>2, <2>3, StepStays
    <2>4. CASE Goto(j, "install") /\ h = 2
        BY <1>2, <1>5, <2>1, <2>2, <2>4, StepStays
    <2> QED
        BY <1>5, <2>3, <2>4
<1>9. /\ bytes'[w][h] = j /\ \A g \in Half : g # h => bytes'[w][g] = bytes[w][g]
      /\ \A k \in Job : k # w => bytes'[k] = bytes[k]
      /\ pc'[j] \in Copying => handle'[j] = w
    <2>1. pc'[j] = "install" \/ handle' = handle
        BY <1>5, <1>8
    <2> QED
        BY <1>1, <1>3, <1>5, <1>7, <2>1, Types DEF Copying
<1>10. Acts(j, n, w)
    BY <1>5, <1>8, <1>9 DEF Acts
<1>11. DriveTypeOK'
    <2>1. handle' \in [Job -> Inode] /\ bytes' \in [Job -> [Half -> Inode]]
        BY <1>1, <1>5, <1>7, Types DEF Inode
    <2> QED
        BY <1>1, <1>5, <1>8, <2>1 DEF DriveTypeOK
<1>12. /\ SlotIsSettled(n)' /\ SourceIsSettled(n)' /\ SlotPartIsFilled(n)'
       /\ \A x \in Job : Settled(x) /\ x # w => Settled(x)'
       /\ \A k \in At(n, Filling)' : /\ k \in At(n, Filling)
                                     /\ handle'[k] = handle[k] /\ source'[k] = source[k]
       /\ Found(n)'
    <2>1. pc[j] \in Attaching /\ pc'[j] \in Attaching
        BY <1>5, <1>8 DEF Attaching
    <2> QED
        BY <1>2, <1>5, <1>7, <1>10, <2>1, StagedKeep
<1>13. EntriesAreOwn(n)'
    <2>1. \A k \in At(n, Copying)' : k \in At(n, Copying) /\ (k = j => handle'[k] = w)
        BY <1>5, <1>8, <1>9 DEF At, Copying
    <2>2. \A k \in At(n, Copying)' : handle'[k] = handle[k]
        BY <1>3, <1>8, <2>1 DEF At
    <2> QED
        BY <1>5, <1>6, <1>8, <1>12, <2>1, <2>2 DEF EntriesAreOwn
<1>14. PartIsApart(n)'
    BY <1>5, <1>6, <1>12 DEF FilesOf, PartIsApart
<1>15. StateIsSettled(n)'
    <2>1. \A x \in Job : Settled(x) => x # w
        BY <1>7 DEF Settled
    <2> QED
        BY <1>5, <1>6, <1>12, <2>1 DEF FilesOf, StateIsSettled, EntriesAreOwn, Created
<1>16. PartIsWritten(n)'
    <2> SUFFICES ASSUME statePart[n] # NoFile, statePart[n] \notin shared
                 PROVE  \A k \in At(n, Writing)' :
                           /\ \A o \in At(n, Writing)' : o = k
                           /\ pc'[k] # "install" => handle'[k] = statePart[n]
                           /\ pc'[k] = "finish" => bytes'[statePart[n]][1] = k
                           /\ pc'[k] = "install" => Whole(statePart[n])'
        BY <1>5 DEF PartIsWritten
    <2>1. /\ \A k \in At(n, Writing) : k = j
          /\ handle[j] = statePart[n]
          /\ pc[j] = "finish" => bytes[statePart[n]][1] = j
        BY <1>2, <1>5, <1>6 DEF FilesOf, PartIsWritten, At, Writing
    <2>2. \A k \in At(n, Writing)' : k = j
        BY <1>8, <2>1 DEF At
    <2>3. pc'[j] # "install" => handle'[j] = statePart[n] /\ bytes'[statePart[n]][1] = j
        BY <1>3, <1>5, <1>8, <1>9, <2>1
    <2>4. pc'[j] = "install" => Whole(statePart[n])'
        <3>1. pc'[j] = "install" => bytes'[w][2] = j /\ bytes'[w][1] = j
            BY <1>3, <1>5, <1>8, <1>9, <2>1 DEF Half
        <3> QED
            BY <1>1, <1>3, <1>5, <2>1, <3>1 DEF Whole
    <2> QED
        BY <2>2, <2>3, <2>4
<1>17. FilesOf(n)'
    BY <1>12, <1>13, <1>14, <1>15, <1>16 DEF FilesOf
<1>18. \A g \in Half : bytes'[w][g] \in {bytes[w][g], NoFile, j}
    BY <1>9
<1> QED
    BY <1>2, <1>5, <1>7, <1>8, <1>10, <1>11, <1>17, <1>18, ActKeeps

\* ... and whatever has the .tmp name is renamed, to a name nobody has open.
LEMMA InstallKeeps ==
    ASSUME IInv, NEW j \in Job, Install(j)
    PROVE  IInv'
<1>1. DriveTypeOK /\ Named(j) \in Name /\ NoFile \notin Job
    BY Types DEF IInv
<1>2. PICK n \in Name : n = Named(j)
    BY <1>1
<1>3. PICK w : w = statePart[n]
    OBVIOUS
<1>4. /\ pc[j] = "install" /\ Goto(j, "describe") /\ w # NoFile
      /\ state' = [state EXCEPT ![n] = w]
      /\ statePart' = [statePart EXCEPT ![n] = NoFile]
      /\ UNCHANGED <<content, meta, metaPart, slot, slotPart, bytes, text, shared, disturbs,
                     req, source, handle>>
    BY <1>2, <1>3 DEF Install, Step, Still, slots, files
<1>5. /\ pc'[j] = "describe"
      /\ \A k \in Job : /\ Named(k)' = Named(k)
                        /\ k # j => pc'[k] = pc[k]
                        /\ k # j => handle'[k] = handle[k] /\ source'[k] = source[k]
                        /\ pc[k] # "idle" => pc'[k] # "idle"
      /\ \A x, m : Created(x, m) => Created(x, m)'
      /\ pc' \in [Job -> {"idle"} \cup Working \cup Ended]
      /\ DescribedByOwn'
    <2>1. "describe" \in Working \cup Ended /\ pc[j] \in Working /\ "describe" \notin Unopened
        BY <1>4 DEF Working, Attaching, Unopened
    <2> QED
        BY <1>4, <2>1, StepStays
<1>6. /\ Apart(w, n) /\ Created(w, n) /\ w \in Job
      /\ \A k \in Job : HasOpen(k, w) => k \in At(n, Writing)
    BY <1>3, <1>4, PartOfDriveIsApart DEF Created
<1>7. /\ state'[n] = w /\ statePart'[n] = NoFile
      /\ \A m \in Name : m # n => state'[m] = state[m] /\ statePart'[m] = statePart[m]
    BY <1>1, <1>4, Types
<1>8. Acts(j, n, w)
    BY <1>4, <1>5, <1>7 DEF Acts, Copying
<1>9. DriveTypeOK'
    <2>1. state' \in [Name -> Inode] /\ statePart' \in [Name -> Inode]
        BY <1>1, <1>4, <1>6, Types DEF Inode
    <2>2. \A m \in Name : state'[m] # NoFile => state'[m] # statePart'[m]
        BY <1>1, <1>7 DEF DriveTypeOK
    <2> QED
        BY <1>1, <1>4, <1>5, <2>1, <2>2 DEF DriveTypeOK
<1>10. FilesOf(n) /\ EntriesAreOwn(n)
    BY DEF IInv, Files, FilesOf
<1>11. /\ SlotIsSettled(n)' /\ SourceIsSettled(n)' /\ SlotPartIsFilled(n)'
       /\ \A k \in At(n, Filling)' : /\ k \in At(n, Filling)
                                     /\ handle'[k] = handle[k] /\ source'[k] = source[k]
    BY <1>2, <1>4, <1>5, <1>6, <1>8, StagedKeep DEF Attaching
<1>12. EntriesAreOwn(n)'
    <2>1. \A k \in At(n, Copying)' : k \in At(n, Copying)
        BY <1>5 DEF At, Copying
    <2> QED
        BY <1>4, <1>5, <1>6, <1>7, <1>10, <1>11, <2>1 DEF EntriesAreOwn
<1>13. PartIsApart(n)' /\ PartIsWritten(n)'
    BY <1>7 DEF PartIsApart, PartIsWritten
<1>14. StateIsSettled(n)'
    <2> SUFFICES ASSUME w \notin shared PROVE Settled(w)'
        BY <1>4, <1>7 DEF StateIsSettled
    <2>1. Whole(w) /\ \A k \in At(n, Writing) : k = j
        BY <1>2, <1>3, <1>4, <1>10 DEF FilesOf, PartIsWritten, At, Writing
    <2>2. \A k \in Job : ~HasOpen(k, w)
        BY <1>4, <1>6, <2>1 DEF HasOpen, Copying
    <2>3. \A k \in Job : ~HasOpen(k, w)'
        BY <1>4, <1>5, <2>2 DEF HasOpen, Copying
    <2> QED
        BY <1>4, <2>1, <2>3 DEF Settled, Whole
<1>15. Found(n)'
    BY <1>4, <1>7 DEF Found
<1>16. FilesOf(n)'
    BY <1>11, <1>12, <1>13, <1>14, <1>15 DEF FilesOf
<1> QED
    BY <1>2, <1>4, <1>5, <1>6, <1>8, <1>9, <1>16, ActKeeps

-----------------------------------------------------------------------------
(* stage() *)

\* What a step of a stage leaves as it was: the attachment of its name and its .tmp file.
LEMMA AttachedKeep ==
    ASSUME IInv, NEW j \in Job, NEW n \in Name, n = Named(j), NEW w, Acts(j, n, w),
           pc[j] \in Staging, pc'[j] \in {"fill", "fill rest", "place", "over"},
           state'[n] = state[n], statePart'[n] = statePart[n],
           statePart[n] # NoFile => statePart[n] # w
    PROVE  /\ PartIsWritten(n)' /\ Found(n)'
           /\ \A x \in Job : Settled(x) /\ x # w => Settled(x)'
           /\ state[n] # w => StateIsSettled(n)'
<1>1. FilesOf(n) /\ EntriesAreOwn(n)
    BY DEF IInv, Files, FilesOf
<1>2. \A x \in Job : Settled(x) /\ x # w => Settled(x)'
    BY StaysSettled
<1>3. \A k \in Job : k # j =>
         Named(k)' = Named(k) /\ pc'[k] = pc[k] /\ handle'[k] = handle[k]
    BY DEF Acts
<1>4. pc[j] \notin Writing /\ pc'[j] \notin Writing \cup {"link", "fallback"}
    BY DEF Staging, Writing
<1>5. /\ At(n, Writing)' = At(n, Writing)
      /\ \A k \in At(n, Writing) : pc'[k] = pc[k] /\ handle'[k] = handle[k]
    BY <1>3, <1>4 DEF At
<1>6. PartIsWritten(n)'
    <2> SUFFICES ASSUME statePart[n] # NoFile, statePart[n] \notin shared',
                        NEW k \in At(n, Writing)'
                 PROVE  /\ \A o \in At(n, Writing)' : o = k
                        /\ pc'[k] # "install" => handle'[k] = statePart[n]
                        /\ pc'[k] = "finish" => bytes'[statePart[n]][1] = k
                        /\ pc'[k] = "install" => Whole(statePart[n])'
        BY DEF PartIsWritten
    <2>1. statePart[n] \notin shared /\ bytes'[statePart[n]] = bytes[statePart[n]]
        BY <1>1 DEF EntriesAreOwn, Created, Acts
    <2>2. k \in At(n, Writing) /\ pc'[k] = pc[k] /\ handle'[k] = handle[k]
        BY <1>5
    <2>3. /\ \A o \in At(n, Writing) : o = k
          /\ pc[k] # "install" => handle[k] = statePart[n]
          /\ pc[k] = "finish" => bytes[statePart[n]][1] = k
          /\ pc[k] = "install" => Whole(statePart[n])
        BY <1>1, <2>1, <2>2 DEF FilesOf, PartIsWritten
    <2>4. Whole(statePart[n]) => Whole(statePart[n])'
        BY <2>1 DEF Whole
    <2> QED
        BY <1>5, <2>1, <2>2, <2>3, <2>4
<1>7. Found(n)'
    <2>1. At(n, {"link", "fallback"})' \subseteq At(n, {"link", "fallback"})
        BY <1>3, <1>4 DEF At
    <2> QED
        BY <1>1, <2>1 DEF FilesOf, Found
<1>8. ASSUME state[n] # w PROVE StateIsSettled(n)'
    <2> SUFFICES ASSUME state[n] # NoFile, state[n] \notin shared'
                 PROVE  Settled(state[n])'
        BY DEF StateIsSettled
    <2>1. state[n] \in Job /\ state[n] \notin shared
        BY <1>1, <1>8 DEF EntriesAreOwn, Created, Acts
    <2> QED
        BY <1>1, <1>2, <1>8, <2>1 DEF FilesOf, StateIsSettled
<1> QED
    BY <1>2, <1>6, <1>7, <1>8

\* The link leads to a settled attachment, if it was never shared.
LEMMA LinkKeeps ==
    ASSUME IInv, NEW j \in Job, Link(j)
    PROVE  IInv'
<1>1. DriveTypeOK /\ Named(j) \in Name /\ NoFile \notin Job
    BY Types DEF IInv
<1>2. PICK n \in Name : n = Named(j)
    BY <1>1
<1>3. PICK w : w = state[n]
    OBVIOUS
<1>4. /\ pc[j] = "link" /\ Goto(j, "place") /\ slotPart[n] = NoFile
      /\ slotPart' = [slotPart EXCEPT ![n] = w]
      /\ UNCHANGED <<content, state, statePart, meta, metaPart, slot, bytes, text, shared,
                     disturbs, req, source, handle>>
    BY <1>2, <1>3 DEF Link, Step, Fixed, drive, locals
<1>5. /\ pc'[j] = "place"
      /\ \A k \in Job : /\ Named(k)' = Named(k)
                        /\ k # j => pc'[k] = pc[k]
                        /\ k # j => handle'[k] = handle[k] /\ source'[k] = source[k]
                        /\ pc[k] # "idle" => pc'[k] # "idle"
      /\ \A x, m : Created(x, m) => Created(x, m)'
      /\ pc' \in [Job -> {"idle"} \cup Working \cup Ended]
      /\ DescribedByOwn'
    <2>1. "place" \in Working \cup Ended /\ pc[j] \in Working /\ "place" \notin Unopened
        BY <1>4 DEF Working, Staging, Unopened
    <2> QED
        BY <1>4, <2>1, StepStays
<1>6. FilesOf(n) /\ EntriesAreOwn(n)
    BY DEF IInv, Files, FilesOf
<1>7. w # NoFile /\ Created(w, n) /\ w \in Job
    BY <1>2, <1>3, <1>4, <1>6 DEF FilesOf, Found, At, EntriesAreOwn, Created
<1>8. slotPart'[n] = w /\ \A m \in Name : m # n => slotPart'[m] = slotPart[m]
    BY <1>1, <1>4, Types
<1>9. Acts(j, n, w)
    BY <1>4, <1>5, <1>8 DEF Acts, Copying
<1>10. DriveTypeOK'
    <2>1. slotPart' \in [Name -> Inode]
        BY <1>1, <1>4, <1>7, Types DEF Inode
    <2> QED
        BY <1>1, <1>4, <1>5, <2>1 DEF DriveTypeOK
<1>11. statePart[n] # NoFile => statePart[n] # w
    BY <1>3, <1>6 DEF FilesOf, PartIsApart
<1>12. PartIsWritten(n)' /\ Found(n)'
    BY <1>2, <1>4, <1>5, <1>9, <1>11, AttachedKeep DEF Staging
<1>13. \A x \in Job : Settled(x) => Settled(x)'
    BY <1>4, <1>5 DEF Settled, Whole, HasOpen, Copying
<1>14. \A labels \in {Copying, Filling} :
         At(n, labels)' = At(n, labels)
    BY <1>4, <1>5 DEF At, Copying, Filling
<1>15. EntriesAreOwn(n)'
    BY <1>4, <1>5, <1>6, <1>7, <1>8, <1>14 DEF EntriesAreOwn
<1>16. PartIsApart(n)'
    BY <1>4, <1>6, <1>8, <1>11, <1>14 DEF FilesOf, PartIsApart
<1>17. StateIsSettled(n)' /\ SlotIsSettled(n)' /\ SlotPartIsFilled(n)'
    <2>1. StateIsSettled(n)' /\ SlotIsSettled(n)'
        BY <1>4, <1>6, <1>13 DEF FilesOf, StateIsSettled, SlotIsSettled, EntriesAreOwn, Created
    <2> QED
        BY <1>3, <1>4, <1>8, <2>1 DEF StateIsSettled, SlotPartIsFilled
<1>18. SourceIsSettled(n)'
    BY <1>4, <1>6, <1>13, <1>14 DEF FilesOf, SourceIsSettled, EntriesAreOwn, Created
<1>19. FilesOf(n)'
    BY <1>12, <1>15, <1>16, <1>17, <1>18 DEF FilesOf
<1> QED
    BY <1>2, <1>4, <1>5, <1>7, <1>9, <1>10, <1>19, ActKeeps

\* The .tmp file opened for a copy is a new one, or not the attachment.
LEMMA OpenSlotKeeps ==
    ASSUME IInv, NEW j \in Job, OpenSlot(j)
    PROVE  IInv'
<1>1. DriveTypeOK /\ Named(j) \in Name /\ NoFile \notin Job
    BY Types DEF IInv
<1>2. PICK n \in Name : n = Named(j)
    BY <1>1
<1>3. PICK i : i = IF slotPart[n] = NoFile THEN j ELSE slotPart[n]
    OBVIOUS
<1>4. /\ pc[j] = "fallback" /\ Goto(j, "fill") /\ slotPart[n] # state[n]
      /\ slotPart' = [slotPart EXCEPT ![n] = i]
      /\ source' = [source EXCEPT ![j] = state[n]]
      /\ handle' = [handle EXCEPT ![j] = i]
      /\ bytes' = [bytes EXCEPT ![i] = Empty]
      /\ shared' = IF InHand(j, i, Placing) THEN shared \cup {i} ELSE shared \ {i}
      /\ UNCHANGED <<content, state, statePart, meta, metaPart, slot, text, disturbs, req>>
    BY <1>2, <1>3 DEF OpenSlot, Step, Fixed, drive, Truncate
<1>5. /\ pc'[j] = "fill"
      /\ \A k \in Job : /\ Named(k)' = Named(k)
                        /\ k # j => pc'[k] = pc[k]
                        /\ k # j => handle'[k] = handle[k] /\ source'[k] = source[k]
                        /\ pc[k] # "idle" => pc'[k] # "idle"
      /\ \A x, m : Created(x, m) => Created(x, m)'
      /\ pc' \in [Job -> {"idle"} \cup Working \cup Ended]
      /\ DescribedByOwn' /\ Created(j, n)'
    <2>1. "fill" \in Working \cup Ended /\ pc[j] \in Working /\ "fill" \notin Unopened
        BY <1>4 DEF Working, Staging, Unopened
    <2>2. \A k \in Job : k # j => handle'[k] = handle[k] /\ source'[k] = source[k]
        BY <1>1, <1>4, Types
    <2> QED
        BY <1>2, <1>4, <2>1, <2>2, StepStays
<1>6. FilesOf(n) /\ EntriesAreOwn(n)
    BY DEF IInv, Files, FilesOf
<1>7. /\ i \in Job /\ Created(i, n)' /\ i # state[n]
      /\ statePart[n] # NoFile => statePart[n] # i
    <2>1. CASE slotPart[n] = NoFile
        BY <1>3, <1>4, <1>5, <2>1, FreshIsApart DEF Unopened, Apart
    <2>2. CASE slotPart[n] # NoFile
        BY <1>3, <1>4, <1>5, <1>6, <2>2 DEF FilesOf, EntriesAreOwn, PartIsApart, Created
    <2> QED
        BY <2>1, <2>2
<1>8. state[n] # NoFile /\ Created(state[n], n) /\ state[n] \in Job
    BY <1>2, <1>4, <1>6 DEF FilesOf, Found, At, EntriesAreOwn, Created
<1>9. /\ slotPart'[n] = i /\ handle'[j] = i /\ source'[j] = state[n]
      /\ \A m \in Name : m # n => slotPart'[m] = slotPart[m]
      /\ bytes'[i] = Empty /\ \A k \in Job : k # i => bytes'[k] = bytes[k]
      /\ \A x : x # i => (x \in shared' <=> x \in shared)
      /\ i \notin shared' => ~InHand(j, i, Placing)
    BY <1>1, <1>4, <1>7, Types
<1>10. Acts(j, n, i)
    BY <1>4, <1>5, <1>9 DEF Acts
<1>11. DriveTypeOK'
    <2>1. /\ slotPart' \in [Name -> Inode] /\ handle' \in [Job -> Inode]
          /\ source' \in [Job -> Inode]
          /\ bytes' \in [Job -> [Half -> Inode]] /\ shared' \subseteq Job
        BY <1>1, <1>4, <1>7, <1>8, Types DEF Inode, Empty
    <2> QED
        BY <1>1, <1>4, <1>5, <2>1 DEF DriveTypeOK
<1>12. /\ PartIsWritten(n)' /\ Found(n)'
       /\ \A x \in Job : Settled(x) /\ x # i => Settled(x)'
       /\ StateIsSettled(n)'
    BY <1>2, <1>4, <1>5, <1>7, <1>10, AttachedKeep DEF Staging
<1>13. \A labels \in {Copying, Filling} : \A k \in At(n, labels)' :
         \/ k = j
         \/ /\ k \in At(n, labels) /\ k \in Job
            /\ pc'[k] = pc[k] /\ handle'[k] = handle[k] /\ source'[k] = source[k]
    BY <1>5 DEF At
<1>14. EntriesAreOwn(n)'
    BY <1>4, <1>5, <1>6, <1>7, <1>8, <1>9, <1>13 DEF EntriesAreOwn
<1>15. PartIsApart(n)'
    BY <1>4, <1>6, <1>7, <1>9, <1>13 DEF FilesOf, PartIsApart
<1>16. SlotIsSettled(n)'
    <2> SUFFICES ASSUME slot[n] # NoFile, slot[n] \notin shared'
                 PROVE  Settled(slot[n])'
        BY <1>4 DEF SlotIsSettled
    <2>1. slot[n] # i /\ slot[n] \in Job
        BY <1>2, <1>6, <1>9 DEF InHand, EntriesAreOwn, Created
    <2> QED
        BY <1>4, <1>6, <1>9, <1>12, <2>1 DEF FilesOf, SlotIsSettled
<1>17. SourceIsSettled(n)'
    <2> SUFFICES ASSUME NEW k \in At(n, Filling)', source'[k] \notin shared'
                 PROVE  Settled(source[k])'
        BY DEF SourceIsSettled
    <2>1. CASE k = j
        BY <1>4, <1>7, <1>8, <1>9, <1>12, <2>1 DEF StateIsSettled
    <2>2. CASE k # j
        <3>1. k \in At(n, Filling) /\ source'[k] = source[k] /\ source[k] \in Job
            BY <1>6, <1>13, <2>2 DEF EntriesAreOwn, Created
        <3>2. source[k] # i
            <4>1. Overlaps(j, Placing)
                BY <1>2, <2>2, <3>1 DEF Overlaps, At, Filling, Placing
            <4> QED
                BY <1>9, <3>1, <4>1 DEF InHand
        <3> QED
            BY <1>6, <1>9, <1>12, <3>1, <3>2 DEF FilesOf, SourceIsSettled
    <2> QED
        BY <2>1, <2>2
<1>18. SlotPartIsFilled(n)'
    <2> SUFFICES ASSUME i \notin shared', NEW k \in At(n, Placing)'
                 PROVE  Fills(k, n)'
        BY <1>9 DEF SlotPartIsFilled
    <2>1. ~InHand(j, i, Placing)
        BY <1>9
    <2>2. \A o \in At(n, Placing)' : o = j
        BY <1>2, <1>5, <2>1 DEF InHand, Overlaps, At
    <2>3. \A o \in Job : HasOpen(o, slotPart[n])' => o = j
        BY <1>5, <1>9, <2>1 DEF InHand, HasOpen
    <2> QED
        BY <1>5, <1>9, <2>2, <2>3 DEF Fills
<1>19. FilesOf(n)'
    BY <1>12, <1>14, <1>15, <1>16, <1>17, <1>18 DEF FilesOf
<1> QED
    BY <1>2, <1>4, <1>5, <1>7, <1>9, <1>10, <1>11, <1>19, ActKeeps DEF Empty

\* The copy's first half is the source's, ...
LEMMA FillKeeps ==
    ASSUME IInv, NEW j \in Job, Fill(j)
    PROVE  IInv'
<1>1. DriveTypeOK /\ Named(j) \in Name /\ NoFile \notin Job
    BY Types DEF IInv
<1>2. PICK n \in Name : n = Named(j)
    BY <1>1
<1>3. PICK w : w = handle[j]
    OBVIOUS
<1>4. /\ pc[j] = "fill" /\ Goto(j, "fill rest")
      /\ bytes' = [bytes EXCEPT ![w][1] = bytes[source[j]][1]]
      /\ UNCHANGED <<content, state, statePart, meta, metaPart, slot, slotPart, text, shared,
                     disturbs, req, source, handle>>
    BY <1>3 DEF Fill, Step, Fixed, drive, slots, locals
<1>5. /\ pc'[j] = "fill rest"
      /\ \A k \in Job : /\ Named(k)' = Named(k)
                        /\ k # j => pc'[k] = pc[k]
                        /\ k # j => handle'[k] = handle[k] /\ source'[k] = source[k]
                        /\ pc[k] # "idle" => pc'[k] # "idle"
      /\ \A x, m : Created(x, m) => Created(x, m)'
      /\ pc' \in [Job -> {"idle"} \cup Working \cup Ended]
      /\ DescribedByOwn'
    <2>1. "fill rest" \in Working \cup Ended /\ pc[j] \in Working /\ "fill rest" \notin Unopened
        BY <1>4 DEF Working, Staging, Unopened
    <2> QED
        BY <1>4, <2>1, StepStays
<1>6. FilesOf(n) /\ EntriesAreOwn(n)
    BY DEF IInv, Files, FilesOf
<1>7. /\ Created(w, n) /\ HasOpen(j, w) /\ w \in Job
      /\ Created(source[j], n) /\ source[j] \in Job
      /\ statePart[n] # NoFile => statePart[n] # w
    BY <1>2, <1>3, <1>4, <1>6
       DEF FilesOf, EntriesAreOwn, PartIsApart, At, Copying, Filling, HasOpen, Created
<1>8. /\ bytes'[w][1] = bytes[source[j]][1]
      /\ \A h \in Half : h # 1 => bytes'[w][h] = bytes[w][h]
      /\ \A k \in Job : k # w => bytes'[k] = bytes[k]
    <2>1. 1 \in Half /\ bytes[w] \in [Half -> Inode] /\ bytes \in [Job -> [Half -> Inode]]
        BY <1>1, <1>7, Types DEF Half
    <2> QED
        BY <1>4, <1>7, <2>1
<1>9. Acts(j, n, w)
    BY <1>3, <1>4, <1>5, <1>8 DEF Acts
<1>10. DriveTypeOK'
    <2>1. bytes' \in [Job -> [Half -> Inode]]
        <3>1. bytes[source[j]][1] \in Inode
            BY <1>1, <1>7, Types DEF Half
        <3> QED
            BY <1>1, <1>4, <1>7, <3>1, Types
    <2> QED
        BY <1>1, <1>4, <1>5, <2>1 DEF DriveTypeOK
<1>11. /\ PartIsWritten(n)' /\ Found(n)'
       /\ \A x \in Job : Settled(x) /\ x # w => Settled(x)'
    BY <1>2, <1>4, <1>5, <1>7, <1>9, AttachedKeep DEF Staging
<1>12. \A x \in Job : Settled(x) => x # w /\ Settled(x)'
    BY <1>7, <1>11 DEF Settled
<1>13. \A labels \in {Copying, Filling, Placing} : At(n, labels)' = At(n, labels)
    BY <1>4, <1>5 DEF At, Copying, Filling, Placing
<1>14. EntriesAreOwn(n)' /\ PartIsApart(n)'
    BY <1>4, <1>5, <1>6, <1>13 DEF FilesOf, EntriesAreOwn, PartIsApart
<1>15. StateIsSettled(n)' /\ SlotIsSettled(n)'
    BY <1>4, <1>6, <1>12 DEF FilesOf, StateIsSettled, SlotIsSettled, EntriesAreOwn, Created
<1>16. SourceIsSettled(n)'
    BY <1>4, <1>6, <1>12, <1>13 DEF FilesOf, SourceIsSettled, EntriesAreOwn, Created
<1>17. SlotPartIsFilled(n)'
    <2> SUFFICES ASSUME slotPart[n] # NoFile, slotPart[n] \notin shared,
                        ~Settled(slotPart[n])', NEW k \in At(n, Placing)'
                 PROVE  Fills(k, n)'
        BY <1>4 DEF SlotPartIsFilled
    <2>1. ~Settled(slotPart[n])
        BY <1>4, <1>6, <1>12 DEF EntriesAreOwn, Created
    <2>2. j \in At(n, Placing) /\ j \in At(n, Filling)
        BY <1>2, <1>4 DEF At, Placing, Filling
    <2>3. Fills(j, n) /\ k = j
        BY <1>6, <1>13, <2>1, <2>2 DEF FilesOf, SlotPartIsFilled, Fills
    <2>4. slotPart[n] = w
        BY <1>3, <1>4, <2>3 DEF Fills
    <2>5. source[j] \notin shared => bytes'[slotPart[n]][1] = bytes'[source[j]][1]
        <3>1. source[j] \notin shared => Settled(source[j])
            BY <1>6, <2>2 DEF FilesOf, SourceIsSettled
        <3> QED
            BY <1>7, <1>8, <1>12, <2>4, <3>1
    <2>6. \A o \in Job : HasOpen(o, slotPart[n])' => o = j
        BY <1>4, <1>5, <2>3 DEF Fills, HasOpen
    <2>7. \A o \in At(n, Placing)' : o = j
        BY <1>13, <2>3 DEF Fills
    <2>8. pc'[j] # "place" /\ handle'[j] = slotPart'[n]
        BY <1>3, <1>4, <1>5, <2>4
    <2> QED
        BY <1>4, <2>3, <2>5, <2>6, <2>7, <2>8 DEF Fills
<1>18. FilesOf(n)'
    BY <1>11, <1>14, <1>15, <1>16, <1>17 DEF FilesOf
<1>19. \A h \in Half : \/ bytes'[w][h] \in {bytes[w][h], NoFile, j}
                       \/ \E s : Created(s, n) /\ bytes'[w][h] = bytes[s][h]
    BY <1>7, <1>8 DEF Half
<1>20. Created(w, n)' /\ pc[j] # "idle" /\ DescribedByOwn'
    BY <1>4, <1>5, <1>7
<1> QED
    BY <1>2, <1>9, <1>10, <1>18, <1>19, <1>20, ActKeeps

\* ... and with the other half it is the whole source, unless one of them is shared.
LEMMA FillRestKeeps ==
    ASSUME IInv, NEW j \in Job, FillRest(j)
    PROVE  IInv'
<1>1. DriveTypeOK /\ Named(j) \in Name /\ NoFile \notin Job
    BY Types DEF IInv
<1>2. PICK n \in Name : n = Named(j)
    BY <1>1
<1>3. PICK w : w = handle[j]
    OBVIOUS
<1>4. /\ pc[j] = "fill rest" /\ Goto(j, "place")
      /\ bytes' = [bytes EXCEPT ![w][2] = bytes[source[j]][2]]
      /\ shared' = IF source[j] \in shared THEN shared \cup {w} ELSE shared
      /\ source' = [source EXCEPT ![j] = NoFile]
      /\ handle' = [handle EXCEPT ![j] = NoFile]
      /\ UNCHANGED <<content, state, statePart, meta, metaPart, slot, slotPart, text,
                     disturbs, req>>
    BY <1>3 DEF FillRest, Step, Fixed, drive, slots
<1>5. /\ pc'[j] = "place"
      /\ \A k \in Job : /\ Named(k)' = Named(k)
                        /\ k # j => pc'[k] = pc[k]
                        /\ k # j => handle'[k] = handle[k] /\ source'[k] = source[k]
                        /\ pc[k] # "idle" => pc'[k] # "idle"
      /\ \A x, m : Created(x, m) => Created(x, m)'
      /\ pc' \in [Job -> {"idle"} \cup Working \cup Ended]
      /\ DescribedByOwn'
    <2>1. "place" \in Working \cup Ended /\ pc[j] \in Working /\ "place" \notin Unopened
        BY <1>4 DEF Working, Staging, Unopened
    <2>2. \A k \in Job : k # j => handle'[k] = handle[k] /\ source'[k] = source[k]
        BY <1>1, <1>4, Types
    <2> QED
        BY <1>4, <2>1, <2>2, StepStays
<1>6. FilesOf(n) /\ EntriesAreOwn(n)
    BY DEF IInv, Files, FilesOf
<1>7. /\ Created(w, n) /\ HasOpen(j, w) /\ w \in Job
      /\ Created(source[j], n) /\ source[j] \in Job
      /\ statePart[n] # NoFile => statePart[n] # w
    BY <1>2, <1>3, <1>4, <1>6
       DEF FilesOf, EntriesAreOwn, PartIsApart, At, Copying, Filling, HasOpen, Created
<1>8. /\ bytes'[w][2] = bytes[source[j]][2] /\ bytes'[w][1] = bytes[w][1]
      /\ \A k \in Job : k # w => bytes'[k] = bytes[k]
      /\ \A x : x # w => (x \in shared' <=> x \in shared)
      /\ shared \subseteq shared'
    <2>1. 1 \in Half /\ 2 \in Half /\ bytes[w] \in [Half -> Inode] /\ bytes \in [Job -> [Half -> Inode]]
        BY <1>1, <1>7, Types DEF Half
    <2>2. /\ bytes'[w][2] = bytes[source[j]][2] /\ bytes'[w][1] = bytes[w][1]
          /\ \A k \in Job : k # w => bytes'[k] = bytes[k]
        <3>1. bytes' = [bytes EXCEPT ![w] = [bytes[w] EXCEPT ![2] = bytes[source[j]][2]]]
            BY <1>4
        <3>2. bytes'[w] = [bytes[w] EXCEPT ![2] = bytes[source[j]][2]]
            BY <1>7, <2>1, <3>1
        <3> QED
            BY <1>7, <2>1, <3>1, <3>2
    <2>3. (\A x : x # w => (x \in shared' <=> x \in shared)) /\ shared \subseteq shared'
        BY <1>4
    <2> QED
        BY <2>2, <2>3
<1>9. Acts(j, n, w)
    BY <1>4, <1>5, <1>8 DEF Acts, Copying
<1>10. DriveTypeOK'
    <2>1. /\ bytes' \in [Job -> [Half -> Inode]] /\ shared' \subseteq Job
          /\ source' \in [Job -> Inode] /\ handle' \in [Job -> Inode]
        <3>1. bytes[source[j]][2] \in Inode
            BY <1>1, <1>7, Types DEF Half
        <3>2. bytes' \in [Job -> [Half -> Inode]]
            BY <1>1, <1>4, <1>7, <3>1, Types
        <3> QED
            BY <1>1, <1>4, <1>7, <3>2, Types DEF Inode
    <2> QED
        BY <1>1, <1>4, <1>5, <2>1 DEF DriveTypeOK
<1>11. /\ PartIsWritten(n)' /\ Found(n)'
       /\ \A x \in Job : Settled(x) /\ x # w => Settled(x)'
    BY <1>2, <1>4, <1>5, <1>7, <1>9, AttachedKeep DEF Staging
<1>12. \A x \in Job : Settled(x) => x # w /\ Settled(x)'
    BY <1>7, <1>11 DEF Settled
<1>13. /\ \A labels \in {Copying, Filling} : \A k \in At(n, labels)' :
             k \in At(n, labels) /\ handle'[k] = handle[k] /\ source'[k] = source[k]
       /\ At(n, Placing)' = At(n, Placing)
    BY <1>4, <1>5 DEF At, Copying, Filling, Placing
<1>14. EntriesAreOwn(n)' /\ PartIsApart(n)'
    BY <1>4, <1>5, <1>6, <1>13 DEF FilesOf, EntriesAreOwn, PartIsApart
<1>15. StateIsSettled(n)' /\ SlotIsSettled(n)'
    BY <1>4, <1>6, <1>8, <1>12
       DEF FilesOf, StateIsSettled, SlotIsSettled, EntriesAreOwn, Created
<1>16. SourceIsSettled(n)'
    <2> SUFFICES ASSUME NEW k \in At(n, Filling)', source'[k] \notin shared'
                 PROVE  Settled(source[k])'
        BY DEF SourceIsSettled
    <2>1. k \in At(n, Filling) /\ source'[k] = source[k]
        BY <1>13
    <2> QED
        BY <1>6, <1>8, <1>12, <2>1 DEF FilesOf, SourceIsSettled, EntriesAreOwn, Created
<1>17. SlotPartIsFilled(n)'
    <2> SUFFICES ASSUME slotPart[n] # NoFile, slotPart[n] \notin shared'
                 PROVE  Settled(slotPart[n])'
        BY <1>4 DEF SlotPartIsFilled
    <2>1. slotPart[n] \in Job /\ slotPart[n] \notin shared
        BY <1>6, <1>8 DEF EntriesAreOwn, Created
    <2>2. j \in At(n, Placing) /\ j \in At(n, Filling)
        BY <1>2, <1>4 DEF At, Placing, Filling
    <2>3. CASE Settled(slotPart[n])
        BY <1>4, <1>12, <2>1, <2>3
    <2>4. CASE Fills(j, n)
        <3>1. slotPart[n] = w /\ \A k \in Job : HasOpen(k, w) => k = j
            BY <1>3, <1>4, <2>4 DEF Fills
        <3>2. source[j] \notin shared
            BY <1>4, <2>1, <3>1
        <3>3. Settled(source[j]) /\ bytes[w][1] = bytes[source[j]][1]
            BY <1>4, <1>6, <2>2, <2>4, <3>1, <3>2 DEF FilesOf, SourceIsSettled, Fills
        <3>4. bytes'[w][1] = bytes'[w][2] /\ bytes'[w][1] # NoFile
            BY <1>8, <3>3 DEF Settled, Whole
        <3>5. \A k \in Job : ~HasOpen(k, w)'
            BY <1>5, <3>1 DEF HasOpen, Copying
        <3> QED
            BY <1>4, <3>1, <3>4, <3>5 DEF Settled, Whole
    <2> QED
        BY <1>6, <2>1, <2>2, <2>3, <2>4 DEF FilesOf, SlotPartIsFilled
<1>18. FilesOf(n)'
    BY <1>11, <1>14, <1>15, <1>16, <1>17 DEF FilesOf
<1>19. \A h \in Half : \/ bytes'[w][h] \in {bytes[w][h], NoFile, j}
                       \/ \E s : Created(s, n) /\ bytes'[w][h] = bytes[s][h]
    BY <1>7, <1>8 DEF Half
<1>20. Created(w, n)' /\ pc[j] # "idle" /\ DescribedByOwn'
    BY <1>4, <1>5, <1>7
<1> QED
    BY <1>2, <1>9, <1>10, <1>18, <1>19, <1>20, ActKeeps

\* What is renamed under the final name is settled, unless it is shared.
LEMMA PlaceKeeps ==
    ASSUME IInv, NEW j \in Job, Place(j)
    PROVE  IInv'
<1>1. DriveTypeOK /\ Named(j) \in Name /\ NoFile \notin Job
    BY Types DEF IInv
<1>2. PICK n \in Name : n = Named(j)
    BY <1>1
<1>3. PICK w : w = slotPart[n]
    OBVIOUS
<1>4. /\ pc[j] = "place" /\ Goto(j, "over") /\ w # NoFile
      /\ IF w = slot[n] THEN slot' = slot /\ slotPart' = slotPart
         ELSE /\ slot' = [slot EXCEPT ![n] = w]
              /\ slotPart' = [slotPart EXCEPT ![n] = NoFile]
      /\ UNCHANGED <<content, state, statePart, meta, metaPart, bytes, text, shared, disturbs,
                     req, source, handle>>
    BY <1>2, <1>3 DEF Place, Step, Fixed, drive, slots, locals
<1>5. /\ pc'[j] = "over"
      /\ \A k \in Job : /\ Named(k)' = Named(k)
                        /\ k # j => pc'[k] = pc[k]
                        /\ k # j => handle'[k] = handle[k] /\ source'[k] = source[k]
                        /\ pc[k] # "idle" => pc'[k] # "idle"
      /\ \A x, m : Created(x, m) => Created(x, m)'
      /\ pc' \in [Job -> {"idle"} \cup Working \cup Ended]
      /\ DescribedByOwn'
    <2>1. "over" \in Working \cup Ended /\ pc[j] \in Working /\ "over" \notin Unopened
        BY <1>4 DEF Working, Staging, Ended, Unopened
    <2> QED
        BY <1>4, <2>1, StepStays
<1>6. FilesOf(n) /\ EntriesAreOwn(n)
    BY DEF IInv, Files, FilesOf
<1>7. /\ Created(w, n) /\ w \in Job
      /\ statePart[n] # NoFile => statePart[n] # w
    BY <1>3, <1>4, <1>6 DEF FilesOf, EntriesAreOwn, PartIsApart, Created
<1>8. /\ slot'[n] = w /\ slotPart'[n] \in {w, NoFile}
      /\ \A m \in Name : m # n => slot'[m] = slot[m] /\ slotPart'[m] = slotPart[m]
    BY <1>1, <1>3, <1>4, Types
<1>9. Acts(j, n, w)
    BY <1>4, <1>5, <1>8 DEF Acts, Copying
<1>10. DriveTypeOK'
    <2>1. slot' \in [Name -> Inode] /\ slotPart' \in [Name -> Inode]
        BY <1>1, <1>4, <1>7, Types DEF Inode
    <2> QED
        BY <1>1, <1>4, <1>5, <2>1 DEF DriveTypeOK
<1>11. PartIsWritten(n)' /\ Found(n)'
    BY <1>2, <1>4, <1>5, <1>7, <1>9, AttachedKeep DEF Staging
<1>12. \A x \in Job : Settled(x) => Settled(x)'
    BY <1>4, <1>5 DEF Settled, Whole, HasOpen, Copying
<1>13. \A labels \in {Copying, Filling} : At(n, labels)' = At(n, labels)
    BY <1>4, <1>5 DEF At, Copying, Filling
<1>14. EntriesAreOwn(n)' /\ PartIsApart(n)'
    BY <1>4, <1>5, <1>6, <1>7, <1>8, <1>13 DEF FilesOf, EntriesAreOwn, PartIsApart
<1>15. w \notin shared => Settled(w)'
    <2>1. j \in At(n, Placing)
        BY <1>2, <1>4 DEF At, Placing
    <2> QED
        BY <1>3, <1>4, <1>6, <1>7, <1>12, <2>1 DEF FilesOf, SlotPartIsFilled, Fills
<1>16. SlotIsSettled(n)' /\ SlotPartIsFilled(n)'
    BY <1>4, <1>8, <1>15 DEF SlotIsSettled, SlotPartIsFilled
<1>17. StateIsSettled(n)' /\ SourceIsSettled(n)'
    BY <1>4, <1>6, <1>12, <1>13
       DEF FilesOf, StateIsSettled, SourceIsSettled, EntriesAreOwn, Created
<1>18. FilesOf(n)'
    BY <1>11, <1>14, <1>16, <1>17 DEF FilesOf
<1> QED
    BY <1>2, <1>4, <1>5, <1>7, <1>9, <1>10, <1>18, ActKeeps

-----------------------------------------------------------------------------
\* So the invariant is inductive.
LEMMA StepIInv == IInv /\ [Next]_vars => IInv'
<1> SUFFICES ASSUME IInv, [Next]_vars PROVE IInv'
    OBVIOUS
<1>1. ASSUME NEW j \in Job, Begin(j) PROVE IInv'
    BY <1>1, BeginKeeps
<1>2. ASSUME NEW j \in Job, Attach(j) PROVE IInv'
    BY <1>2, LooksKeep, OpenKeeps, CopyKeeps, InstallKeeps, DescribeKeeps, WriteKeeps,
       ReplaceKeeps DEF Attach
<1>3. ASSUME NEW j \in Job, Stage(j) PROVE IInv'
    BY <1>3, LooksKeep, LinkKeeps, OpenSlotKeeps, FillKeeps, FillRestKeeps, PlaceKeeps
       DEF Stage
<1>4. ASSUME NEW j \in Job, Stop(j) PROVE IInv'
    BY <1>4, LooksKeep
<1>5. ASSUME (\E d \in Content : Publish(d)) \/ Disturb PROVE IInv'
    BY <1>5, OthersKeep
<1>6. CASE UNCHANGED vars
    <2>1. /\ UNCHANGED <<content, state, statePart, meta, metaPart, slot, slotPart, bytes, text,
                         shared, disturbs, pc, req, source, handle>>
          /\ \A k \in Job : Named(k)' = Named(k)
        BY <1>6 DEF vars, drive, slots, files, locals, Named
    <2>2. DriveTypeOK'
        BY <2>1 DEF IInv, DriveTypeOK
    <2>3. \A n \in Name : Found(n)'
        BY <2>1 DEF IInv, Files, FilesOf, Found, At
    <2>4. Files' /\ DescribedByOwn'
        BY <2>1, <2>2, <2>3, Frame, DescriptionsKeep
    <2> QED
        BY <2>2, <2>4 DEF IInv
<1> QED
    BY <1>1, <1>2, <1>3, <1>4, <1>5, <1>6 DEF Next

\* The inductive invariant holds in every reachable state.
LEMMA Inductive == Spec => []IInv
BY InitIInv, StepIInv, PTL DEF Spec

\* Every variable keeps its type, and no rename leaves an attachment its .tmp name as
\* well, whichever calls of one name overlap (shared.attach).
THEOREM TypeCorrect == Spec => []DriveTypeOK
<1>1. IInv => DriveTypeOK
    BY DEF IInv
<1> QED
    BY <1>1, Inductive, PTL

\* Whoever writes, and wherever a stage is cut short, a staged file holds nothing but an
\* attachment of its name, and is whole unless it or its attachment was opened for writing
\* while another call of that name had it in hand (shared.stage).
THEOREM StagedStaysWhole == Spec => []StagedIsWhole
<1>1. IInv => StagedIsWhole
    <2> SUFFICES ASSUME IInv, NEW n \in Name, slot[n] # NoFile
                 PROVE  /\ \A h \in Half : bytes[slot[n]][h] # NoFile =>
                              Named(bytes[slot[n]][h]) = n
                        /\ slot[n] \notin shared => Whole(slot[n])
        BY DEF StagedIsWhole
    <2>1. HoldsOwn /\ Created(slot[n], n) /\ SlotIsSettled(n)
        BY DEF IInv, Files, FilesOf, EntriesAreOwn
    <2> QED
        BY <2>1 DEF HoldsOwn, Created, SlotIsSettled, Settled
<1> QED
    BY <1>1, Inductive, PTL

\* What cache_for_lineage() returns holds nothing but what was written for that document,
\* that ABI and a model of that lineage, and is whole unless it was opened while another
\* call of its name wrote, or was about to rename, the same .tmp file
\* (shared.cache_for_lineage, shared.attach).
THEOREM OfferedStaysOwn == Spec => []OfferedIsOwn
<1>1. IInv => OfferedIsOwn
    <2> SUFFICES ASSUME IInv, NEW d \in Content, NEW k \in Key,
                        NEW i \in CacheForLineage(d, k, LineageOf[k.model])
                 PROVE  /\ \A h \in Half : bytes[i][h] # NoFile =>
                              LET by == Named(bytes[i][h]) IN
                              /\ by[1] = d
                              /\ by[2].abi = k.abi
                              /\ LineageOf[by[2].model] = LineageOf[k.model]
                        /\ i \notin shared => Whole(i)
        BY DEF OfferedIsOwn
    <2>1. DriveTypeOK /\ HoldsOwn /\ DescribedByOwn /\ \A n \in Name : FilesOf(n)
        BY DEF IInv, Files
    <2>2. PICK o \in Key :
             /\ i = state[<<d, o>>] /\ i # NoFile
             /\ \/ o = k
                \/ /\ Lineage(<<d, o>>) = LineageOf[k.model]
                   /\ ABI(<<d, o>>) = k.abi
                   /\ LineageOf[k.model] # Unknown
        <3>1. CASE state[<<d, k>>] # NoFile
            <4>1. i = state[<<d, k>>]
                BY <3>1 DEF CacheForLineage
            <4> QED
                BY <3>1, <4>1
        <3>2. CASE state[<<d, k>>] = NoFile
            BY <3>2 DEF CacheForLineage
        <3> QED
            BY <3>1, <3>2
    <2>3. PICK n \in Name : n = <<d, o>>
        BY DEF Name
    <2>4. Created(i, n) /\ StateIsSettled(n)
        BY <2>1, <2>2, <2>3 DEF FilesOf, EntriesAreOwn
    <2>5. i \notin shared => Whole(i)
        BY <2>2, <2>3, <2>4 DEF StateIsSettled, Settled
    <2>6. \A h \in Half : bytes[i][h] # NoFile => Named(bytes[i][h]) = n
        BY <2>1, <2>4 DEF HoldsOwn, Created
    <2>7. o.abi = k.abi /\ LineageOf[o.model] = LineageOf[k.model]
        <3>1. CASE o = k
            BY <3>1
        <3>2. CASE o # k
            <4>1. Described(n) /\ Lineage(n) = LineageOf[k.model] /\ ABI(n) = k.abi
                BY <2>2, <2>3, <3>2 DEF Lineage
            <4>2. meta[n] # NoFile /\ text[meta[n]] \in Job
                BY <4>1 DEF Described
            <4>3. WrittenFor(meta[n], n)
                BY <2>1, <4>2 DEF DescribedByOwn
            <4>4. Named(text[meta[n]]) = n
                BY <2>1, <4>2, <4>3 DEF DescribedByOwn, WrittenFor
            <4>5. Lineage(n) \in {Unknown, LineageOf[o.model]} /\ ABI(n) = o.abi
                BY <2>3, <4>1, <4>4 DEF Lineage, ABI
            <4> QED
                BY <2>2, <3>2, <4>1, <4>5
        <3> QED
            BY <3>1, <3>2
    <2> QED
        BY <2>3, <2>5, <2>6, <2>7
<1> QED
    BY <1>1, Inductive, PTL

-----------------------------------------------------------------------------
(* best_attachment(): the fold over the documents, and what it ends with *)

\* What holds of a set when it holds of its proper subsets holds of every finite set.
LEMMA SubsetInduction ==
    ASSUME NEW S, IsFiniteSet(S), NEW G,
           \A s \in SUBSET S : (\A r \in SUBSET s : r # s => r \in G) => s \in G
    PROVE  S \in G
<1> DEFINE T == (SUBSET S) \ G
<1>1. SUFFICES ASSUME T # {} PROVE FALSE
    OBVIOUS
<1>2. T \subseteq FiniteSubsetsOf(S)
    BY FS_Subset DEF FiniteSubsetsOf
<1>3. PICK s \in T : \A r \in T : ~(<<r, s>> \in StrictSubsetOrdering(S))
    <2> HIDE DEF T
    <2> QED
        BY <1>1, <1>2, WFMin, FS_StrictSubsetOrderingWellFounded
<1>4. \A r \in SUBSET s : r # s => r \in G
    BY <1>3 DEF StrictSubsetOrdering
<1> QED
    BY <1>3, <1>4

\* A finite set of numbers has a largest.
LEMMA LargestExists ==
    ASSUME NEW S, IsFiniteSet(S), S \subseteq Int, S # {}
    PROVE  Max(S) \in S /\ \A y \in S : Max(S) >= y
<1> DEFINE G == {s \in SUBSET S : s # {} => \E x \in s : \A y \in s : x >= y}
<1>1. ASSUME NEW s \in SUBSET S, \A r \in SUBSET s : r # s => r \in G
      PROVE  s \in G
    <2>1. SUFFICES ASSUME s # {} PROVE \E x \in s : \A y \in s : x >= y
        OBVIOUS
    <2>2. PICK a \in s : TRUE
        BY <2>1
    <2>3. s \ {a} # {} => \E x \in s \ {a} : \A y \in s \ {a} : x >= y
        <3>1. s \ {a} \in SUBSET s /\ s \ {a} # s
            BY <2>2
        <3> QED
            BY <1>1, <3>1
    <2>4. CASE s \ {a} = {}
        BY <2>2, <2>4
    <2>5. CASE s \ {a} # {}
        <3>1. PICK x \in s \ {a} : \A y \in s \ {a} : x >= y
            BY <2>3, <2>5
        <3>2. CASE a >= x
            <4>1. \A y \in s : a >= y
                BY <3>1, <3>2
            <4> QED
                BY <2>2, <4>1
        <3>3. CASE ~ (a >= x)
            <4>1. \A y \in s : x >= y
                BY <2>2, <3>1, <3>3
            <4> QED
                BY <4>1
        <3> QED
            BY <3>2, <3>3
    <2> QED
        BY <2>4, <2>5
<1>2. S \in G
    <2> HIDE DEF G
    <2> QED
        BY <1>1, SubsetInduction
<1>3. \E x \in S : \A y \in S : x >= y
    BY <1>2
<1> QED
    BY <1>3 DEF Max

\* Any two documents share a number of tokens.
LEMMA SharedIsCounted ==
    ASSUME NEW d \in Content, NEW t \in Content
    PROVE  CommonPrefix[<<d, t>>] \in Nat
<1> DEFINE a == Tokens[d]
           b == Tokens[t]
           both == {i \in DOMAIN a \cap DOMAIN b : \A h \in 1..i : a[h] = b[h]}
<1>1. CommonPrefix[<<d, t>>] = Cardinality(both)
    BY DEF CommonPrefix
<1>2. a \in Seq(Int)
    BY DriveAssumption DEF Content, ToSet
<1>3. both \subseteq 1..Len(a) /\ Len(a) \in Nat
    <2> HIDE DEF a, b
    <2> QED
        BY <1>2
<1>4. IsFiniteSet(both)
    <2> HIDE DEF both
    <2> QED
        <3>1. 1 \in Int /\ Len(a) \in Int
            BY <1>3
        <3>2. IsFiniteSet(1..Len(a))
            BY <3>1, FS_Interval
        <3> QED
            BY <1>3, <3>2, FS_Subset
<1> HIDE DEF both
<1> QED
    BY <1>1, <1>4, FS_CardinalityType

\* The better of a document found so far and the next one listed.
Nearer(t, k, m, best, d) ==
    IF /\ state[<<d, k>>] # NoFile
       /\ content[d] = "published"
       /\ CommonPrefix[<<d, t>>] >= m
       /\ best = NoFile \/ CommonPrefix[<<d, t>>] > CommonPrefix[<<best, t>>]
    THEN d ELSE best

\* f is the best of the documents at each set of places in the list, taken in order.
Picks(t, k, m, S, f) ==
    f = [s \in SUBSET S |->
            IF s = {} THEN NoFile
            ELSE Nearer(t, k, m, f[s \ {Max(s)}], Published[Max(s)])]

\* The definition of BestAttachment, with those of the library unfolded.
LEMMA BestAttachmentDef ==
    ASSUME NEW t, NEW k, NEW m, ~Unreadable(k)
    PROVE  BestAttachment(t, k, m) =
               (CHOOSE f : Picks(t, k, m, DOMAIN Published, f))[DOMAIN Published]
BY DEF BestAttachment, FoldLeft, MapThenFoldSet, Picks, Nearer, Max

\* A finite set of numbers.
Places(S) == IsFiniteSet(S) /\ S \subseteq Int

\* One for a finite set of places agrees there with one for a part of it.
LEMMA PicksAgree ==
    ASSUME NEW t, NEW k, NEW m, NEW S, NEW f, Picks(t, k, m, S, f),
           NEW U, NEW g, Picks(t, k, m, U, g),
           U \in SUBSET S, Places(U)
    PROVE  f[U] = g[U]
<1> DEFINE G == {s \in SUBSET U : f[s] = g[s]}
<1>1. ASSUME NEW s \in SUBSET U, \A r \in SUBSET s : r # s => r \in G
      PROVE  s \in G
    <2>1. s # {} => Max(s) \in s
        BY FS_Subset, LargestExists DEF Places
    <2>2. s # {} => f[s \ {Max(s)}] = g[s \ {Max(s)}]
        BY <1>1, <2>1
    <2> QED
        BY <2>2 DEF Picks
<1>2. U \in G
    <2> HIDE DEF G
    <2> QED
        BY <1>1, SubsetInduction DEF Places
<1> QED
    BY <1>2

\* Over a finite set of places there is such a function.
LEMMA PicksExist ==
    ASSUME NEW t, NEW k, NEW m, NEW S, Places(S)
    PROVE  \E f : Picks(t, k, m, S, f)
<1> DEFINE F(r) == CHOOSE f : Picks(t, k, m, r, f)
           Rest(r) == r \ {Max(r)}
           G == {s \in SUBSET S : \E f : Picks(t, k, m, s, f)}
<1>0. ASSUME NEW r \in SUBSET S, r # {} PROVE Max(r) \in r
    BY <1>0, FS_Subset, LargestExists DEF Places
<1>1. ASSUME NEW s \in SUBSET S, \A r \in SUBSET s : r # s => r \in G
      PROVE  s \in G
    <2> DEFINE W == [r \in SUBSET s |->
                        IF r = {} THEN NoFile
                        ELSE Nearer(t, k, m, F(Rest(r))[Rest(r)], Published[Max(r)])]
    <2>1. ASSUME NEW r \in SUBSET s, r # {}
          PROVE  W[Rest(r)] = F(Rest(r))[Rest(r)]
        <3> DEFINE u == Rest(r)
                   v == Rest(u)
        <3>1. Max(r) \in r
            BY <1>0, <2>1
        <3>2. u \subseteq s /\ u # s /\ v \subseteq s /\ v # s
            BY <3>1
        <3>3. Picks(t, k, m, u, F(u)) /\ Picks(t, k, m, v, F(v))
            <4>1. (\E f : Picks(t, k, m, u, f)) /\ (\E f : Picks(t, k, m, v, f))
                BY <1>1, <3>2
            <4> QED
                BY <4>1
        <3>4. F(u)[u] = IF u = {} THEN NoFile
                        ELSE Nearer(t, k, m, F(u)[v], Published[Max(u)])
            BY <3>3 DEF Picks
        <3>5. F(u)[v] = F(v)[v]
            <4>1. Places(v) /\ v \in SUBSET u
                BY <3>2, FS_Subset DEF Places
            <4> HIDE DEF F, u
            <4> QED
                BY <4>1, <3>3, PicksAgree DEF v
        <3>6. W[u] = IF u = {} THEN NoFile
                     ELSE Nearer(t, k, m, F(v)[v], Published[Max(u)])
            BY <3>2
        <3> QED
            BY <3>4, <3>5, <3>6
    <2>2. Picks(t, k, m, s, W)
        <3> HIDE DEF F
        <3>1. \A r \in SUBSET s :
                W[r] = IF r = {} THEN NoFile
                       ELSE Nearer(t, k, m, W[r \ {Max(r)}], Published[Max(r)])
            BY <2>1
        <3>2. W = [r \in SUBSET s |-> W[r]]
            OBVIOUS
        <3> HIDE DEF W
        <3> QED
            BY <3>1, <3>2 DEF Picks
    <2> QED
        BY <2>2
<1>2. S \in G
    <2> HIDE DEF G
    <2> QED
        BY <1>1, SubsetInduction DEF Places
<1> QED
    BY <1>2

\* The best of the documents at the places S.
BestAt(t, k, m, S) == (CHOOSE f : Picks(t, k, m, S, f))[S]

\* So the best of a list is the better of its last document and the best of the others.
LEMMA BestUnfold ==
    ASSUME NEW t, NEW k, NEW m, NEW S, Places(S)
    PROVE  BestAt(t, k, m, S) =
               IF S = {} THEN NoFile
               ELSE Nearer(t, k, m, BestAt(t, k, m, S \ {Max(S)}), Published[Max(S)])
<1> DEFINE F(s) == CHOOSE f : Picks(t, k, m, s, f)
           R == S \ {Max(S)}
<1>1. Places(R) /\ R \in SUBSET S
    BY FS_Subset DEF Places
<1>2. Picks(t, k, m, S, F(S)) /\ Picks(t, k, m, R, F(R))
    <2>1. (\E f : Picks(t, k, m, S, f)) /\ (\E f : Picks(t, k, m, R, f))
        <3> HIDE DEF R
        <3> QED
            BY <1>1, PicksExist
    <2> QED
        BY <2>1
<1>3. F(S)[S] = IF S = {} THEN NoFile ELSE Nearer(t, k, m, F(S)[R], Published[Max(S)])
    BY <1>2 DEF Picks
<1>4. F(S)[R] = F(R)[R]
    <2> HIDE DEF F, R
    <2> QED
        BY <1>1, <1>2, PicksAgree
<1>5. BestAt(t, k, m, S) = F(S)[S]
    BY DEF BestAt
<1>6. BestAt(t, k, m, R) = F(R)[R]
    BY DEF BestAt
<1>7. BestAt(t, k, m, S) = IF S = {} THEN NoFile
                           ELSE Nearer(t, k, m, BestAt(t, k, m, R), Published[Max(S)])
    <2> HIDE DEF F, R
    <2> QED
        BY <1>3, <1>4, <1>5, <1>6
<1> QED
    BY <1>7

\* A document that best_attachment() may offer.
Usable(t, k, m, d) ==
    content[d] = "published" /\ state[<<d, k>>] # NoFile /\ CommonPrefix[<<d, t>>] >= m

\* What is picked from the places S is usable, and shares as much as any that is.
Longest(t, k, m, S) ==
    LET best == BestAt(t, k, m, S) IN
    \/ best = NoFile /\ \A i \in S : ~ Usable(t, k, m, Published[i])
    \/ /\ best \in Content /\ Usable(t, k, m, best)
       /\ \A i \in S : Usable(t, k, m, Published[i]) =>
              CommonPrefix[<<Published[i], t>>] <= CommonPrefix[<<best, t>>]

\* The list of documents, place by place.
LEMMA LongestIsPicked ==
    ASSUME NEW t \in Content, NEW k, NEW m \in Int
    PROVE  Longest(t, k, m, DOMAIN Published)
<1> DEFINE P == DOMAIN Published
           G == {s \in SUBSET P : Longest(t, k, m, s)}
<1>0. IsFiniteSet(P) /\ P \subseteq Int /\ \A i \in P : Published[i] \in Content
    <2>1. P = 1..Len(Published) /\ Len(Published) \in Nat
        BY DriveAssumption
    <2>2. IsFiniteSet(1..Len(Published))
        BY <2>1, FS_Interval
    <2>3. 1..Len(Published) \subseteq Int
        BY <2>1
    <2>4. \A i \in P : Published[i] \in Content
        BY DEF Content, ToSet
    <2> HIDE DEF P
    <2> QED
        BY <2>1, <2>2, <2>3, <2>4
<1>1. ASSUME NEW s \in SUBSET P, \A r \in SUBSET s : r # s => r \in G
      PROVE  s \in G
    <2> DEFINE i == Max(s)
               r == s \ {i}
               d == Published[i]
               prior == BestAt(t, k, m, r)
    <2>1. IsFiniteSet(s) /\ s \subseteq Int /\ Places(s)
        BY <1>0, FS_Subset DEF Places
    <2>2. CASE s = {}
        BY <2>1, <2>2, BestUnfold DEF Longest
    <2>3. CASE s # {}
        <3>1. i \in s
            BY <2>1, <2>3, LargestExists
        <3>2. Longest(t, k, m, r)
            BY <1>1, <3>1
        <3>3. BestAt(t, k, m, s) = Nearer(t, k, m, prior, d)
            BY <2>1, <2>3, BestUnfold
        <3>4. d \in Content /\ CommonPrefix[<<d, t>>] \in Nat
            BY <1>0, <3>1, SharedIsCounted
        <3>5. \A e \in s : Published[e] \in Content /\ CommonPrefix[<<Published[e], t>>] \in Nat
            BY <1>0, SharedIsCounted
        <3>6. NoFile \notin Content
            BY DriveAssumption DEF Content, ToSet
        <3>7. prior \in Content => CommonPrefix[<<prior, t>>] \in Nat
            BY SharedIsCounted
        <3>8. \A e \in s : e = i \/ e \in r
            OBVIOUS
        <3>9. CASE Usable(t, k, m, d)
                   /\ (prior = NoFile \/ CommonPrefix[<<d, t>>] > CommonPrefix[<<prior, t>>])
            <4>1. BestAt(t, k, m, s) = d
                BY <3>3, <3>9 DEF Nearer, Usable
            <4>2. \A e \in s : Usable(t, k, m, Published[e]) =>
                      CommonPrefix[<<Published[e], t>>] <= CommonPrefix[<<d, t>>]
                <5> HIDE DEF r, i
                <5> QED
                    BY <3>2, <3>4, <3>5, <3>6, <3>7, <3>8, <3>9 DEF Longest
            <4> QED
                BY <3>4, <3>9, <4>1, <4>2 DEF Longest
        <3>10. CASE ~ (Usable(t, k, m, d)
                   /\ (prior = NoFile \/ CommonPrefix[<<d, t>>] > CommonPrefix[<<prior, t>>]))
            <4>1. BestAt(t, k, m, s) = prior
                BY <3>3, <3>10 DEF Nearer, Usable
            <4> HIDE DEF r, i
            <4> QED
                BY <3>2, <3>4, <3>6, <3>7, <3>8, <3>10, <4>1 DEF Longest
        <3> QED
            BY <3>9, <3>10
    <2> QED
        BY <2>2, <2>3
<1>2. P \in G
    <2> HIDE DEF G, P
    <2> QED
        BY <1>0, <1>1, SubsetInduction
<1> QED
    BY <1>2

\* Whatever is attached, altered and repaired meanwhile, best_attachment() offers no
\* document that was altered or cannot be read and none that shares fewer tokens with the
\* target than another it could have offered; it finds one when there is one; and it
\* raises exactly if a document attached for the key cannot be read
\* (shared.best_attachment).
THEOREM BestStaysLongest == Spec => []BestIsLongest
<1>1. BestIsLongest
    <2> SUFFICES ASSUME NEW t \in Content, NEW k \in Key, NEW m \in 2..3
                 PROVE  LET best == BestAttachment(t, k, m)
                            attached == {d \in Content : state[<<d, k>>] # NoFile}
                            usable == {d \in attached : content[d] = "published"
                                                     /\ CommonPrefix[<<d, t>>] >= m}
                        IN  /\ best = Raised <=> \E d \in attached : content[d] = "unreadable"
                            /\ best # Raised =>
                                  IF usable = {} THEN best = NoFile
                                  ELSE best \in usable /\ \A d \in usable :
                                      CommonPrefix[<<d, t>>] <= CommonPrefix[<<best, t>>]
        BY DEF BestIsLongest
    <2> DEFINE best == BestAttachment(t, k, m)
               usable == {d \in Content : Usable(t, k, m, d)}
    <2>1. Longest(t, k, m, DOMAIN Published)
        BY LongestIsPicked
    <2>2. CASE Unreadable(k)
        BY <2>2 DEF BestAttachment, Unreadable
    <2>3. CASE ~Unreadable(k)
        <3>1. best = BestAt(t, k, m, DOMAIN Published)
            BY <2>3, BestAttachmentDef DEF BestAt
        <3>2. \A d \in Content : \E i \in DOMAIN Published : d = Published[i]
            BY DEF Content, ToSet
        <3>3. IF usable = {} THEN best = NoFile
              ELSE best \in usable /\ \A d \in usable :
                  CommonPrefix[<<d, t>>] <= CommonPrefix[<<best, t>>]
            BY <2>1, <3>1, <3>2 DEF Longest
        <3>4. best # Raised
            <4>1. Content \subseteq DOMAIN Tokens
                BY DriveAssumption DEF Content, ToSet
            <4> QED
                BY <3>3, <4>1, DriveAssumption
        <3> HIDE DEF best
        <3> QED
            BY <2>3, <3>3, <3>4 DEF Unreadable, Usable, best
    <2> QED
        BY <2>2, <2>3
<1> QED
    BY <1>1, PTL

=============================================================================
