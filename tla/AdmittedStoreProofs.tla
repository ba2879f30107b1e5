------------------------ MODULE AdmittedStoreProofs ------------------------
(***************************************************************************)
(* What holds of AdmittedStore for every number of jobs, digests, readers  *)
(* and processes and for every bound.                                      *)
(***************************************************************************)
EXTENDS AloneAdmission, TLAPS

\* The steps before an object file gets its name.
Early == {"idle", "copy", "publish"}

\* Facts f pin contents d: as long as the stamp of the pinned file has not
\* moved, that file holds d.
Pins(f, d) ==
    /\ pc[f.file] \notin {"idle", "copy"}
    /\ f.stamp <= stamp[f.file]
    /\ f.stamp = stamp[f.file] => bytes[f.file] = d

\* A job that has verified its copy holds the bytes its caller declared.
VerifiedCopy ==
    \A j \in Job : pc[j] = "publish" => req[j].declared /\ bytes[j] = req[j].digest

\* The file under <digest>.state is a published one, of that digest.
PublishedObject ==
    \A d \in Digest : object[d] # NoFile =>
        /\ pc[object[d]] \notin Early
        /\ req[object[d]].digest = d
        /\ req[object[d]].declared
        /\ object[d] \notin incoming

\* Between its rename and its stat, a job's name still holds good bytes.
WindowGood ==
    \A j \in Job : pc[j] = "facts" /\ object[req[j].digest] # NoFile
        => bytes[object[req[j].digest]] = req[j].digest

\* Wherever facts are kept (by a job, in a manifest file, in the text a reader
\* holds), they pin the contents of the digest they are kept for.
HeldFactsPin ==
    \A j \in Job : pc[j] \in {"open", "write"} => Pins(facts[j], req[j].digest)
TextsPin ==
    \A j \in Job : text[j] \in Manifest => Pins(text[j].facts, text[j].digest)
ViewsPin ==
    \A r \in Reader : rview[r].text \in Manifest
        => Pins(rview[r].text.facts, rview[r].text.digest)

IInv ==
    /\ TypeOK
    /\ VerifiedCopy
    /\ PublishedObject
    /\ WindowGood
    /\ HeldFactsPin
    /\ TextsPin
    /\ ViewsPin
    /\ ResolveServesAdmittedBytes

-----------------------------------------------------------------------------
\* The initial state satisfies the inductive invariant.
LEMMA InitIInv == Init => IInv
<1> SUFFICES ASSUME Init PROVE IInv
    OBVIOUS
<1> USE DEF Init
<1>1. NoRequest \in Request
    BY AtomsAssumption DEF NoRequest, Request
<1>2. TypeOK
    BY <1>1, BoundsAssumption, AtomsAssumption
    DEF TypeOK, Facts, Text, Active, Ended, Request
<1>3. VerifiedCopy /\ PublishedObject /\ WindowGood /\ HeldFactsPin
    BY <1>1 DEF VerifiedCopy, PublishedObject, WindowGood, HeldFactsPin, Request
<1>4. TextsPin /\ ViewsPin /\ ResolveServesAdmittedBytes
    BY AtomsAssumption DEF TextsPin, ViewsPin, ResolveServesAdmittedBytes
<1> QED
    BY <1>2, <1>3, <1>4 DEF IInv

\* Every step preserves the inductive invariant.
LEMMA StepIInv == IInv /\ [Next]_vars => IInv'
<1> SUFFICES ASSUME IInv, [Next]_vars PROVE IInv'
    OBVIOUS
<1> USE BoundsAssumption, AtomsAssumption
    DEF IInv, jobVars, dirVars, fileVars, readerVars, Goto
<1>0. TypeOK
    OBVIOUS
\* A job that begins is not under any name yet.
<1>1. ASSUME NEW j \in Job, Begin(j) PROVE IInv'
    <2> USE <1>1 DEF Begin
    <2>1. TypeOK'
        BY <1>0 DEF TypeOK, Request, Facts, Manifest, Text, Active, Ended
    <2>2. PublishedObject'
        BY <1>0 DEF TypeOK, PublishedObject, VerifiedCopy, Request, Facts,
           Manifest, Text, Active, Pins, Early
    <2>3. VerifiedCopy' /\ WindowGood' /\ HeldFactsPin' /\ TextsPin' /\
         ViewsPin' /\ ResolveServesAdmittedBytes'
        BY <1>0 DEF TypeOK, VerifiedCopy, WindowGood, HeldFactsPin,
           TextsPin, ViewsPin, ResolveServesAdmittedBytes, Request, Facts,
           Manifest, Text, Active, Pins, Early, PublishedObject
    <2> QED
        BY <2>1, <2>2, <2>3
\* Only the job's own, still unnamed and unpinned file changes.
<1>2. ASSUME NEW j \in Job, CopyAndVerify(j) PROVE IInv'
    <2> USE <1>2 DEF CopyAndVerify
    <2>1. TypeOK'
        BY <1>0 DEF TypeOK, Request, Facts, Manifest, Text, Active, Ended
    <2>2. VerifiedCopy'
        BY <1>0 DEF TypeOK, VerifiedCopy, PublishedObject, Request, Facts,
           Manifest, Text, Active, Pins, Early
    <2>3. PublishedObject'
        BY <1>0 DEF TypeOK, PublishedObject, VerifiedCopy, Request, Facts,
           Manifest, Text, Active, Pins, Early
    <2>4. WindowGood'
        BY <1>0 DEF TypeOK, WindowGood, VerifiedCopy, PublishedObject,
           Request, Facts, Manifest, Text, Active, Pins, Early
    <2>5. HeldFactsPin'
        BY <1>0 DEF TypeOK, HeldFactsPin, WindowGood, PublishedObject,
           Request, Facts, Manifest, Text, Active, Pins, Early
    <2>6. TextsPin' /\ ViewsPin' /\ ResolveServesAdmittedBytes'
        BY <1>0 DEF TypeOK, TextsPin, ViewsPin, ResolveServesAdmittedBytes,
           Request, Facts, Manifest, Text, Active, Pins, Early,
           HeldFactsPin, PublishedObject
    <2> QED
        BY <2>1, <2>2, <2>3, <2>4, <2>5, <2>6
<1>3. ASSUME NEW j \in Job, RefuseDeclared(j) PROVE IInv'
    <2> USE <1>3 DEF RefuseDeclared
    <2>1. TypeOK'
        BY <1>0 DEF TypeOK, Request, Facts, Manifest, Text, Active, Ended
    <2>2. VerifiedCopy' /\ PublishedObject' /\ WindowGood' /\ HeldFactsPin'
         /\ TextsPin' /\ ViewsPin' /\ ResolveServesAdmittedBytes'
        BY <1>0 DEF TypeOK, VerifiedCopy, PublishedObject, WindowGood,
           HeldFactsPin, TextsPin, ViewsPin, ResolveServesAdmittedBytes,
           Request, Facts, Manifest, Text, Active, Pins, Early
    <2> QED
        BY <2>1, <2>2
\* The name now leads to a verified copy.
<1>4. ASSUME NEW j \in Job, Publish(j) PROVE IInv'
    <2> USE <1>4 DEF Publish
    <2>1. TypeOK'
        BY <1>0 DEF TypeOK, Request, Facts, Manifest, Text, Active, Ended
    <2>2. PublishedObject'
        BY <1>0 DEF TypeOK, PublishedObject, VerifiedCopy, Request, Facts,
           Manifest, Text, Active, Pins, Early
    <2>3. WindowGood'
        BY <1>0 DEF TypeOK, WindowGood, VerifiedCopy, PublishedObject,
           Request, Facts, Manifest, Text, Active, Pins, Early
    <2>4. VerifiedCopy' /\ HeldFactsPin' /\ TextsPin' /\ ViewsPin' /\
         ResolveServesAdmittedBytes'
        BY <1>0 DEF TypeOK, VerifiedCopy, HeldFactsPin, TextsPin, ViewsPin,
           ResolveServesAdmittedBytes, Request, Facts, Manifest, Text,
           Active, Pins, Early, PublishedObject, WindowGood
    <2> QED
        BY <2>1, <2>2, <2>3, <2>4
\* WindowGood is what makes the stat trustworthy.
<1>5. ASSUME NEW j \in Job, TakeFacts(j) PROVE IInv'
    <2> USE <1>5 DEF TakeFacts
    <2>1. TypeOK'
        BY <1>0 DEF TypeOK, Request, Facts, Manifest, Text, Active, Ended
    <2>2. HeldFactsPin'
        BY <1>0 DEF TypeOK, HeldFactsPin, WindowGood, PublishedObject,
           Request, Facts, Manifest, Text, Active, Pins, Early
    <2>3. VerifiedCopy' /\ PublishedObject' /\ WindowGood' /\ TextsPin' /\
         ViewsPin' /\ ResolveServesAdmittedBytes'
        BY <1>0 DEF TypeOK, VerifiedCopy, PublishedObject, WindowGood,
           TextsPin, ViewsPin, ResolveServesAdmittedBytes, Request, Facts,
           Manifest, Text, Active, Pins, Early, HeldFactsPin
    <2> QED
        BY <2>1, <2>2, <2>3
<1>6. ASSUME NEW j \in Job, OpenManifest(j) PROVE IInv'
    <2> USE <1>6 DEF OpenManifest
    <2>1. TypeOK'
        BY <1>0 DEF TypeOK, Request, Facts, Manifest, Text, Active, Ended
    <2>2. TextsPin'
        BY <1>0 DEF TypeOK, TextsPin, HeldFactsPin, PublishedObject,
           Request, Facts, Manifest, Text, Active, Pins, Early
    <2>3. VerifiedCopy' /\ PublishedObject' /\ WindowGood' /\ HeldFactsPin'
         /\ ViewsPin' /\ ResolveServesAdmittedBytes'
        BY <1>0 DEF TypeOK, VerifiedCopy, PublishedObject, WindowGood,
           HeldFactsPin, ViewsPin, ResolveServesAdmittedBytes, Request,
           Facts, Manifest, Text, Active, Pins, Early, TextsPin
    <2> QED
        BY <2>1, <2>2, <2>3
\* A whole text is the writer's own facts.
<1>7. ASSUME NEW j \in Job, WriteManifest(j) PROVE IInv'
    <2> USE <1>7 DEF WriteManifest
    <2>1. TypeOK'
        BY <1>0 DEF TypeOK, Request, Facts, Manifest, Text, Active, Ended
    <2>2. TextsPin'
        BY <1>0 DEF TypeOK, TextsPin, HeldFactsPin, PublishedObject,
           Request, Facts, Manifest, Text, Active, Pins, Early
    <2>3. VerifiedCopy' /\ PublishedObject' /\ WindowGood' /\ HeldFactsPin'
         /\ ViewsPin' /\ ResolveServesAdmittedBytes'
        BY <1>0 DEF TypeOK, VerifiedCopy, PublishedObject, WindowGood,
           HeldFactsPin, ViewsPin, ResolveServesAdmittedBytes, Request,
           Facts, Manifest, Text, Active, Pins, Early, TextsPin
    <2> QED
        BY <2>1, <2>2, <2>3
<1>8. ASSUME NEW j \in Job, InstallManifest(j) PROVE IInv'
    <2> USE <1>8 DEF InstallManifest
    <2>1. TypeOK'
        BY <1>0 DEF TypeOK, Request, Facts, Manifest, Text, Active, Ended
    <2>2. VerifiedCopy' /\ PublishedObject' /\ WindowGood' /\ HeldFactsPin'
         /\ TextsPin' /\ ViewsPin' /\ ResolveServesAdmittedBytes'
        BY <1>0 DEF TypeOK, VerifiedCopy, PublishedObject, WindowGood,
           HeldFactsPin, TextsPin, ViewsPin, ResolveServesAdmittedBytes,
           Request, Facts, Manifest, Text, Active, Pins, Early
    <2> QED
        BY <2>1, <2>2
<1>9. ASSUME NEW j \in Job, Fail(j) PROVE IInv'
    <2> USE <1>9 DEF Fail
    <2>1. TypeOK'
        BY <1>0 DEF TypeOK, Request, Facts, Manifest, Text, Active, Ended
    <2>2. VerifiedCopy' /\ PublishedObject' /\ WindowGood' /\ HeldFactsPin'
         /\ TextsPin' /\ ViewsPin' /\ ResolveServesAdmittedBytes'
        BY <1>0 DEF TypeOK, VerifiedCopy, PublishedObject, WindowGood,
           HeldFactsPin, TextsPin, ViewsPin, ResolveServesAdmittedBytes,
           Request, Facts, Manifest, Text, Active, Pins, Early
    <2> QED
        BY <2>1, <2>2
<1>10. ASSUME NEW p \in Process, Crash(p) PROVE IInv'
    <2> USE <1>10 DEF Crash, ActiveJobs
    <2>1. TypeOK'
        BY <1>0 DEF TypeOK, Request, Facts, Manifest, Text, Active, Ended
    <2>2. VerifiedCopy' /\ PublishedObject' /\ WindowGood' /\ HeldFactsPin'
         /\ TextsPin' /\ ViewsPin' /\ ResolveServesAdmittedBytes'
        BY <1>0 DEF TypeOK, VerifiedCopy, PublishedObject, WindowGood,
           HeldFactsPin, TextsPin, ViewsPin, ResolveServesAdmittedBytes,
           Request, Facts, Manifest, Text, Active, Pins, Early
    <2> QED
        BY <2>1, <2>2
<1>11. ASSUME NEW r \in Reader, ReadManifest(r) PROVE IInv'
    <2> USE <1>11 DEF ReadManifest, OnDisk
    <2>1. TypeOK'
        BY <1>0 DEF TypeOK, Request, Facts, Manifest, Text, Active, Ended
    <2>2. ViewsPin'
        BY <1>0 DEF TypeOK, ViewsPin, TextsPin, PublishedObject, Request,
           Facts, Manifest, Text, Active, Pins, Early
    <2>3. VerifiedCopy' /\ PublishedObject' /\ WindowGood' /\ HeldFactsPin'
         /\ TextsPin' /\ ResolveServesAdmittedBytes'
        BY <1>0 DEF TypeOK, VerifiedCopy, PublishedObject, WindowGood,
           HeldFactsPin, TextsPin, ResolveServesAdmittedBytes, Request,
           Facts, Manifest, Text, Active, Pins, Early, ViewsPin
    <2> QED
        BY <2>1, <2>2, <2>3
\* Equal facts mean an unmoved stamp, so the pin applies.
<1>12. ASSUME NEW r \in Reader, OpenObject(r) PROVE IInv'
    <2> USE <1>12 DEF OpenObject, Accepts
    <2>1. TypeOK'
        BY <1>0 DEF TypeOK, Request, Facts, Manifest, Text, Active, Ended
    <2>2. ResolveServesAdmittedBytes'
        BY <1>0 DEF TypeOK, ResolveServesAdmittedBytes, ViewsPin, Request,
           Facts, Manifest, Text, Active, Pins, Early
    <2>3. VerifiedCopy' /\ PublishedObject' /\ WindowGood' /\ HeldFactsPin'
         /\ TextsPin' /\ ViewsPin'
        BY <1>0 DEF TypeOK, VerifiedCopy, PublishedObject, WindowGood,
           HeldFactsPin, TextsPin, ViewsPin, Request, Facts, Manifest,
           Text, Active, Pins, Early
    <2> QED
        BY <2>1, <2>2, <2>3
<1>13. ASSUME NEW d \in Digest, UnlinkObject(d) PROVE IInv'
    <2> USE <1>13 DEF UnlinkObject
    <2>1. TypeOK'
        BY <1>0 DEF TypeOK, Request, Facts, Manifest, Text, Active, Ended
    <2>2. PublishedObject'
        BY <1>0 DEF TypeOK, PublishedObject, VerifiedCopy, Request, Facts,
           Manifest, Text, Active, Pins, Early
    <2>3. WindowGood'
        BY <1>0 DEF TypeOK, WindowGood, VerifiedCopy, PublishedObject,
           Request, Facts, Manifest, Text, Active, Pins, Early
    <2>4. VerifiedCopy' /\ HeldFactsPin' /\ TextsPin' /\ ViewsPin' /\
         ResolveServesAdmittedBytes'
        BY <1>0 DEF TypeOK, VerifiedCopy, HeldFactsPin, TextsPin, ViewsPin,
           ResolveServesAdmittedBytes, Request, Facts, Manifest, Text,
           Active, Pins, Early, PublishedObject, WindowGood
    <2> QED
        BY <2>1, <2>2, <2>3, <2>4
\* The stamp moves with the bytes, and no window is open.
<1>14. ASSUME NEW d \in Digest, Disturb(d) PROVE IInv'
    <2> USE <1>14 DEF Disturb
    <2>1. TypeOK'
        BY <1>0 DEF TypeOK, Request, Facts, Manifest, Text, Active, Ended
    <2>2. VerifiedCopy'
        BY <1>0 DEF TypeOK, VerifiedCopy, PublishedObject, Request, Facts,
           Manifest, Text, Active, Pins, Early
    <2>3. WindowGood'
        BY <1>0 DEF TypeOK, WindowGood, VerifiedCopy, PublishedObject,
           Request, Facts, Manifest, Text, Active, Pins, Early
    <2>4. HeldFactsPin'
        BY <1>0 DEF TypeOK, HeldFactsPin, WindowGood, PublishedObject,
           Request, Facts, Manifest, Text, Active, Pins, Early
    <2>5. TextsPin'
        BY <1>0 DEF TypeOK, TextsPin, HeldFactsPin, PublishedObject,
           Request, Facts, Manifest, Text, Active, Pins, Early
    <2>6. PublishedObject' /\ ViewsPin' /\ ResolveServesAdmittedBytes'
        BY <1>0 DEF TypeOK, PublishedObject, ViewsPin,
           ResolveServesAdmittedBytes, Request, Facts, Manifest, Text,
           Active, Pins, Early, TextsPin, VerifiedCopy
    <2> QED
        BY <2>1, <2>2, <2>3, <2>4, <2>5, <2>6
\* Eviction's bookkeeping and the names of manifests appear in no conjunct but
\* TypeOK.
<1>15. ASSUME NEW d \in Digest,
             ListForEviction(d) \/ UnlinkManifest(d) \/ AbandonEviction(d)
      PROVE  IInv'
    <2> USE <1>15 DEF ListForEviction, UnlinkManifest, AbandonEviction
    <2>1. TypeOK'
        BY <1>0 DEF TypeOK
    <2>2. UNCHANGED <<jobVars, incoming, object, fileVars, readerVars>>
        OBVIOUS
    <2> QED
        BY <2>1, <2>2 DEF VerifiedCopy, PublishedObject, WindowGood, HeldFactsPin,
           TextsPin, ViewsPin, ResolveServesAdmittedBytes, Pins
<1>16. CASE UNCHANGED vars
    BY <1>16 DEF vars, TypeOK, VerifiedCopy, PublishedObject, WindowGood,
       HeldFactsPin, TextsPin, ViewsPin, ResolveServesAdmittedBytes, Pins
<1> QED
    BY <1>1, <1>2, <1>3, <1>4, <1>5, <1>6, <1>7, <1>8, <1>9, <1>10, <1>11,
       <1>12, <1>13, <1>14, <1>15, <1>16 DEF Next, JobStep, ReaderStep,
       EvictStep

\* The inductive invariant holds in every reachable state.
THEOREM Inductive == Spec => []IInv
BY InitIInv, StepIInv, PTL DEF Spec

\* Every variable keeps its type.
THEOREM TypeCorrect == Spec => []TypeOK
<1>1. IInv => TypeOK
    BY DEF IInv
<1> QED
    BY <1>1, Inductive, PTL

\* A resolve() that succeeds has opened a file holding the bytes its address is
\* the hash of, although nothing on that path rehashes: for any number of
\* concurrent admissions, evictions, crashes and outside changes.
THEOREM ResolveIsSound == Spec => []ResolveServesAdmittedBytes
<1>1. IInv => ResolveServesAdmittedBytes
    BY DEF IInv
<1> QED
    BY <1>1, Inductive, PTL

\* No partial, refused or unfinished publication is ever resolvable.
THEOREM NothingUnverifiedResolves == Spec => []ResolvableWasVerified
<1>1. IInv => ResolvableWasVerified
    BY DEF IInv, PublishedObject, ResolvableWasVerified, Resolvable, Accepts,
       Early, TypeOK
<1> QED
    BY <1>1, Inductive, PTL

-----------------------------------------------------------------------------
(* AdmittedStore implements AddressedStore, for every number of jobs, digests,
   readers and processes and for every bound: each step of the directory of
   files maps to a step of the addressed store or to none. *)

\* The mapped variables.
Verified == {req[j].digest : j \in {i \in Job : Compared(i)}}
Present  == {d \in Digest : object[d] # NoFile}

\* A call that has not begun has compared nothing, and a name leads only to a
\* file that was compared with the digest it bears.
Traced ==
    /\ \A j \in Job : pc[j] = "idle" => ~Compared(j)
    /\ \A d \in Digest : object[d] # NoFile => Compared(object[d])

\* The initial state is traced.
LEMMA InitTraced == Init => Traced
BY BoundsAssumption DEF Init, Traced, Compared

\* Every step keeps the trace.  A verified copy is never garbage, and what turns
\* the bytes of a published file into garbage moves its stamp.
LEMMA StepTraced == IInv /\ Traced /\ [Next]_vars => Traced'
<1> SUFFICES ASSUME IInv, Traced, [Next]_vars PROVE Traced'
    OBVIOUS
<1> USE BoundsAssumption, AtomsAssumption
    DEF Traced, Compared, jobVars, dirVars, fileVars, readerVars, Goto
<1>0. TypeOK /\ PublishedObject /\ VerifiedCopy
    BY DEF IInv
<1>1. ASSUME NEW j \in Job, Begin(j) PROVE Traced'
    BY <1>0, <1>1 DEF Begin, TypeOK
<1>2. ASSUME NEW j \in Job, CopyAndVerify(j) PROVE Traced'
    BY <1>0, <1>2 DEF CopyAndVerify, TypeOK, Request
<1>3. ASSUME NEW j \in Job, RefuseDeclared(j) PROVE Traced'
    BY <1>0, <1>3 DEF RefuseDeclared, TypeOK
<1>4. ASSUME NEW j \in Job, Publish(j) PROVE Traced'
    BY <1>0, <1>4 DEF Publish, TypeOK, VerifiedCopy, Request
<1>5. ASSUME NEW j \in Job, TakeFacts(j) PROVE Traced'
    BY <1>0, <1>5 DEF TakeFacts, TypeOK
<1>6. ASSUME NEW j \in Job, OpenManifest(j) PROVE Traced'
    BY <1>0, <1>6 DEF OpenManifest, TypeOK
<1>7. ASSUME NEW j \in Job, WriteManifest(j) PROVE Traced'
    BY <1>0, <1>7 DEF WriteManifest, TypeOK
<1>8. ASSUME NEW j \in Job, InstallManifest(j) PROVE Traced'
    BY <1>0, <1>8 DEF InstallManifest, TypeOK
<1>9. ASSUME NEW j \in Job, Fail(j) PROVE Traced'
    BY <1>0, <1>9 DEF Fail, TypeOK, Active
<1>10. ASSUME NEW p \in Process, Crash(p) PROVE Traced'
    BY <1>0, <1>10 DEF Crash, ActiveJobs, Active, TypeOK
<1>11. ASSUME NEW r \in Reader, ReaderStep(r) PROVE Traced'
    BY <1>11 DEF ReaderStep, ReadManifest, OpenObject
<1>12. ASSUME NEW d \in Digest, UnlinkObject(d) PROVE Traced'
    BY <1>0, <1>12 DEF UnlinkObject, TypeOK
\* The file an outsider changes bears a name, so its job has begun.
<1>13. ASSUME NEW d \in Digest, Disturb(d) PROVE Traced'
    <2>1. object[d] \in Job /\ pc[object[d]] # "idle"
        BY <1>0, <1>13 DEF Disturb, TypeOK, PublishedObject, Early
    <2>2. stamp'[object[d]] = stamp[object[d]] + 1 /\ stamp[object[d]] \in Nat
        BY <1>0, <1>13, <2>1 DEF Disturb, TypeOK
    <2>3. \A j \in Job \ {object[d]} : bytes'[j] = bytes[j] /\ stamp'[j] = stamp[j]
        BY <1>0, <1>13, <2>1 DEF Disturb, TypeOK
    <2>4. pc' = pc /\ object' = object
        BY <1>13 DEF Disturb
    <2> QED
        BY <1>0, <2>1, <2>2, <2>3, <2>4 DEF TypeOK
<1>14. ASSUME NEW d \in Digest,
              ListForEviction(d) \/ UnlinkManifest(d) \/ AbandonEviction(d)
       PROVE  Traced'
    BY <1>14 DEF ListForEviction, UnlinkManifest, AbandonEviction
<1>15. CASE UNCHANGED vars
    BY <1>15 DEF vars
<1> QED
    BY <1>1, <1>2, <1>3, <1>4, <1>5, <1>6, <1>7, <1>8, <1>9, <1>10, <1>11,
       <1>12, <1>13, <1>14, <1>15 DEF Next, JobStep, EvictStep

-----------------------------------------------------------------------------
\* Initial states map to initial states.
LEMMA InitMaps == Init => Promise!Init
<1> SUFFICES ASSUME Init PROVE Promise!Init
    OBVIOUS
<1>1. Verified = {}
    BY BoundsAssumption DEF Init, Verified, Compared
<1>2. Present = {}
    BY DEF Init, Present
<1> QED
    BY <1>1, <1>2 DEF Init, Promise!Init, Verified, Present

\* A step that leaves the requests, bytes, stamps and objects alone leaves what
\* is verified and present alone.
LEMMA FilesAlone ==
    ASSUME UNCHANGED <<req, bytes, stamp, object>>
    PROVE  Verified' = Verified /\ Present' = Present
BY DEF Verified, Present, Compared

\* Every step maps to a step or a stutter.
LEMMA StepMaps ==
    IInv /\ Traced /\ [Next]_vars => [Promise!Next]_(Promise!vars)
<1> SUFFICES ASSUME IInv, Traced, [Next]_vars
             PROVE  Promise!Next \/ UNCHANGED Promise!vars
    OBVIOUS
<1> USE DEF jobVars, dirVars, fileVars, readerVars
<1>0. TypeOK /\ PublishedObject /\ VerifiedCopy /\ ViewsPin
    BY DEF IInv
<1>a. ASSUME Verified' = Verified, Present' = Present, served' = served
      PROVE  UNCHANGED Promise!vars
    BY <1>a DEF Promise!vars, Verified, Present
\* A job that begins had compared nothing: its new request adds no digest.
<1>1. ASSUME NEW j \in Job, Begin(j) PROVE UNCHANGED Promise!vars
    <2>1. ~Compared(j) /\ (\A i \in Job : Compared(i)' <=> Compared(i))
        BY <1>1 DEF Begin, Traced, Compared
    <2>2. \A i \in Job \ {j} : req'[i] = req[i]
        BY <1>0, <1>1 DEF Begin, TypeOK
    <2>3. Verified' = Verified
        BY <2>1, <2>2 DEF Verified
    <2>4. Present' = Present /\ served' = served
        BY <1>1 DEF Begin, Present
    <2> QED
        BY <1>a, <2>3, <2>4
<1>2. ASSUME NEW j \in Job, CopyAndVerify(j) PROVE Promise!Next
    <2>1. req[j].digest \in Digest /\ req[j].digest # Garbage
        BY <1>0, AtomsAssumption DEF TypeOK, Request
    <2>2. req' = req /\ Compared(j)'
        BY <1>0, <1>2, <2>1 DEF CopyAndVerify, TypeOK, Compared
    <2>3. \A i \in Job \ {j} : Compared(i)' <=> Compared(i)
        BY <1>0, <1>2 DEF CopyAndVerify, TypeOK, Compared
    <2>4. Verified' = Verified \cup {req[j].digest}
        BY <2>2, <2>3 DEF Verified
    <2>5. Present' = Present /\ served' = served
        BY <1>2 DEF CopyAndVerify, Present
    <2>6. Promise!Verify(req[j].digest)
        BY <2>4, <2>5 DEF Promise!Verify, Verified, Present
    <2> QED
        BY <2>1, <2>6 DEF Promise!Next, Promise!Verify
<1>3. ASSUME NEW j \in Job, Publish(j) PROVE Promise!Next
    <2>1. req[j].digest \in Digest /\ Compared(j)
        BY <1>0, <1>3, AtomsAssumption
        DEF Publish, VerifiedCopy, TypeOK, Request, Compared
    <2>2. req[j].digest \in Verified
        BY <2>1 DEF Verified
    <2>3. Verified' = Verified /\ served' = served
        BY <1>3 DEF Publish, Verified, Compared
    <2>4. Present' = Present \cup {req[j].digest}
        BY <1>0, <1>3, <2>1, AtomsAssumption DEF Publish, TypeOK, Present
    <2>5. Promise!Publish(req[j].digest)
        BY <2>2, <2>3, <2>4 DEF Promise!Publish, Verified, Present
    <2> QED
        BY <2>1, <2>5 DEF Promise!Next, Promise!Publish
<1>4. ASSUME NEW d \in Digest, UnlinkObject(d) PROVE Promise!Next
    <2>1. Verified' = Verified /\ served' = served
        BY <1>4 DEF UnlinkObject, Verified, Compared
    <2>2. Present' = Present \ {d}
        BY <1>0, <1>4 DEF UnlinkObject, TypeOK, Present
    <2>3. Promise!Withdraw(d)
        BY <2>1, <2>2 DEF Promise!Withdraw, Verified, Present
    <2> QED
        BY <2>3 DEF Promise!Next
\* Equal facts mean an unmoved stamp, so what is opened are the digest's bytes.
<1>5. ASSUME NEW r \in Reader, OpenObject(r) PROVE Promise!Next
    <2>1. Verified' = Verified /\ Present' = Present
        BY <1>5, FilesAlone DEF OpenObject
    <2>2. CASE Accepts(rview[r].text, rview[r].digest)
        <3> DEFINE d == rview[r].digest
        <3>1. d \in Digest /\ d \in Present
            BY <1>0, <2>2 DEF TypeOK, Accepts, Present
        <3>2. bytes[object[d]] = d
            BY <1>0, <2>2 DEF ViewsPin, Pins, Accepts, TypeOK
        <3>3. served' = [served EXCEPT ![r] = [digest |-> d, bytes |-> d]]
            BY <1>5, <2>2, <3>2 DEF OpenObject
        <3>4. Promise!Serve(r, d)
            BY <2>1, <3>1, <3>3 DEF Promise!Serve, Verified, Present
        <3> QED
            BY <3>1, <3>4 DEF Promise!Next
    <2>3. CASE ~Accepts(rview[r].text, rview[r].digest)
        <3>1. served' = [served EXCEPT ![r] = NoFile]
            BY <1>5, <2>3 DEF OpenObject
        <3>2. Promise!Refuse(r)
            BY <2>1, <3>1 DEF Promise!Refuse, Verified, Present
        <3> QED
            BY <3>2 DEF Promise!Next
    <2> QED
        BY <2>2, <2>3
\* A change from outside touches a file that was compared, and leaves it so.
<1>6. ASSUME NEW d \in Digest, Disturb(d) PROVE UNCHANGED Promise!vars
    <2>1. object[d] \in Job /\ Compared(object[d])
        BY <1>0, <1>6 DEF Disturb, TypeOK, Traced
    <2>2. stamp'[object[d]] = stamp[object[d]] + 1 /\ stamp[object[d]] \in Nat
        BY <1>0, <1>6, <2>1, BoundsAssumption DEF Disturb, TypeOK
    <2>3. \A j \in Job \ {object[d]} : Compared(j)' <=> Compared(j)
        BY <1>0, <1>6, <2>1 DEF Disturb, TypeOK, Compared
    <2>4. \A j \in Job : Compared(j)' <=> Compared(j)
        BY <2>1, <2>2, <2>3 DEF Compared
    <2>5. req' = req /\ object' = object /\ served' = served
        BY <1>6 DEF Disturb
    <2>6. Verified' = Verified /\ Present' = Present
        BY <2>4, <2>5 DEF Verified, Present
    <2> QED
        BY <1>a, <2>5, <2>6
\* The other steps touch names, texts and bookkeeping the promise does not see.
<1>7. ASSUME UNCHANGED <<req, bytes, stamp, object, served>>
      PROVE  UNCHANGED Promise!vars
    BY <1>7, <1>a, FilesAlone
<1>8. ASSUME NEW j \in Job,
             \/ RefuseDeclared(j) \/ TakeFacts(j) \/ OpenManifest(j)
             \/ WriteManifest(j) \/ InstallManifest(j) \/ Fail(j)
      PROVE  UNCHANGED Promise!vars
    BY <1>7, <1>8 DEF RefuseDeclared, TakeFacts, OpenManifest, WriteManifest,
       InstallManifest, Fail
<1>9. ASSUME NEW p \in Process, Crash(p) PROVE UNCHANGED Promise!vars
    BY <1>7, <1>9 DEF Crash
<1>10. ASSUME NEW r \in Reader, ReadManifest(r) PROVE UNCHANGED Promise!vars
    BY <1>7, <1>10 DEF ReadManifest
<1>11. ASSUME NEW d \in Digest,
              ListForEviction(d) \/ UnlinkManifest(d) \/ AbandonEviction(d)
       PROVE  UNCHANGED Promise!vars
    BY <1>7, <1>11 DEF ListForEviction, UnlinkManifest, AbandonEviction
<1>12. CASE UNCHANGED vars
    BY <1>7, <1>12 DEF vars
<1> QED
    BY <1>1, <1>2, <1>3, <1>4, <1>5, <1>6, <1>8, <1>9, <1>10, <1>11, <1>12
    DEF Next, JobStep, ReaderStep, EvictStep

\* The directory of files, manifests and stamps that threads and processes change
\* call by call, failing and dying as they do, implements the store of verified,
\* present contents that the module describes (admitted_store.py, lines 1-16).
THEOREM Implements == Spec => KeepsItsPromise
<1>1. Spec => [](IInv /\ Traced)
    BY InitIInv, StepIInv, InitTraced, StepTraced, PTL DEF Spec
<1> QED
    BY <1>1, InitMaps, StepMaps, PTL DEF Spec, KeepsItsPromise, Promise!Spec

-----------------------------------------------------------------------------
(* An admission that nothing overlaps. *)

\* What such a call has done so far is still as it left it: its object is under
\* the digest's name, its facts are of that object, and the staging name leads to
\* the manifest file it holds open, empty and then with its own text.
AsLeft(j) ==
    LET d == req[j].digest IN
    /\ pc[j] \in {"facts", "open", "write", "install"} => object[d] = j
    /\ pc[j] \in {"open", "write", "install"} => facts[j].file = j
    /\ pc[j] \in {"write", "install"} => staging[d] = handle[j]
    /\ pc[j] = "write" => text[handle[j]] = Empty
    /\ pc[j] = "install" => text[handle[j]] = [digest |-> d, facts |-> facts[j]]

AloneInv == \A j \in alone : OnlyOne(j) /\ AsLeft(j)

\* The step of an admission that goes on alone was its own, or one that changes
\* nothing it relies on.
LEMMA StepAlone ==
    ASSUME TypeOK, AloneInv, AloneNext, alone \subseteq Job
    PROVE  AloneInv'
<1> SUFFICES ASSUME NEW j \in alone'
             PROVE  OnlyOne(j)' /\ AsLeft(j)'
    BY DEF AloneInv
<1>1. j \in Job /\ OnlyOne(j)' /\ (j \in alone \/ pc[j] = "idle")
    BY DEF AloneNext
<1>2. \A i \in Job : pc'[i] \in Active <=> i = j
    BY <1>1 DEF OnlyOne, ActiveJobs
<1>3. \A d \in Digest : evict'[d] = "no"
    BY <1>1 DEF OnlyOne, Evicting
<1>4. CASE pc[j] = "idle"
    <2>1. ASSUME NEW i \in Job, JobStep(i) PROVE AsLeft(j)'
        <3>1. CASE Begin(i)
            BY <1>1, <1>4, <3>1 DEF Begin, Goto, TypeOK, AsLeft
        <3>2. CASE ~Begin(i)
            <4>1. i # j /\ \E label : pc' = [pc EXCEPT ![i] = label]
                BY <1>4, <2>1, <3>2 DEF JobStep, CopyAndVerify, RefuseDeclared, Publish,
                   TakeFacts, OpenManifest, WriteManifest, InstallManifest, Fail, Goto,
                   Active
            <4> QED
                BY <1>1, <1>4, <4>1 DEF TypeOK, AsLeft
        <3> QED
            BY <3>1, <3>2
    <2>2. ASSUME ~ \E i \in Job : JobStep(i) PROVE FALSE
        <3>1. pc'[j] = pc[j]
            BY <1>1, <1>4, <2>2 DEF AloneNext, Next, Crash, ReaderStep, ReadManifest,
               OpenObject, EvictStep, ListForEviction, UnlinkObject, UnlinkManifest,
               AbandonEviction, Disturb, jobVars, ActiveJobs, Active
        <3> QED
            BY <1>1, <1>2, <1>4, <3>1 DEF Active
    <2> QED
        BY <2>1, <2>2, <1>1
<1>5. CASE j \in alone /\ pc[j] # "idle"
    <2>1. OnlyOne(j) /\ AsLeft(j)
        BY <1>5 DEF AloneInv
    <2>2. /\ \A i \in Job : pc[i] \in Active <=> i = j
          /\ \A d \in Digest : evict[d] = "no"
        BY <2>1 DEF OnlyOne, ActiveJobs, Evicting
    <2> USE DEF Goto, Active, AsLeft
    <2>3. ASSUME NEW i \in Job, Begin(i) PROVE FALSE
        <3>1. pc'[i] = "copy" /\ i # j
            BY <1>5, <2>3 DEF Begin, TypeOK
        <3> QED
            BY <1>2, <3>1
    <2>4. ASSUME NEW i \in Job, i # j, JobStep(i) PROVE FALSE
        BY <2>2, <2>3, <2>4 DEF JobStep, CopyAndVerify, RefuseDeclared, Publish, TakeFacts,
           OpenManifest, WriteManifest, InstallManifest, Fail
    <2>5. CASE CopyAndVerify(j)
        BY <1>1, <2>5 DEF CopyAndVerify, TypeOK
    <2>6. CASE Publish(j)
        BY <1>1, <2>6 DEF Publish, TypeOK, Request
    <2>7. CASE TakeFacts(j)
        BY <1>1, <2>1, <2>7 DEF TakeFacts, TypeOK, Request, dirVars
    <2>8. CASE OpenManifest(j)
        BY <1>1, <2>1, <2>8, AtomsAssumption DEF OpenManifest, TypeOK, Request, fileVars
    <2>9. CASE WriteManifest(j)
        BY <1>1, <2>1, <2>9 DEF WriteManifest, TypeOK, Request, dirVars
    <2>10. CASE RefuseDeclared(j) \/ InstallManifest(j) \/ Fail(j)
        <3>1. pc'[j] \notin Active
            BY <1>1, <2>10 DEF RefuseDeclared, InstallManifest, Fail, TypeOK
        <3> QED
            BY <1>1, <1>2, <3>1
    <2>11. ASSUME NEW p \in Process, Crash(p) PROVE AsLeft(j)'
        <3>1. pc'[j] = pc[j]
            BY <1>1, <1>2, <2>11 DEF Crash
        <3> QED
            BY <1>1, <2>1, <2>11, <3>1 DEF Crash, dirVars, fileVars
    <2>12. ASSUME NEW r \in Reader, ReaderStep(r) PROVE AsLeft(j)'
        BY <2>1, <2>12 DEF ReaderStep, ReadManifest, OpenObject, jobVars, dirVars, fileVars
    <2>13. ASSUME NEW d \in Digest, EvictStep(d) PROVE FALSE
        BY <1>3, <2>2, <2>13 DEF EvictStep, ListForEviction, UnlinkObject, UnlinkManifest,
           AbandonEviction, TypeOK
    <2>14. ASSUME NEW d \in Digest, Disturb(d) PROVE AsLeft(j)'
        BY <2>1, <2>14 DEF Disturb, jobVars, dirVars
    <2> QED
        BY <2>3, <2>4, <2>5, <2>6, <2>7, <2>8, <2>9, <2>10, <2>11, <2>12, <2>13, <2>14
        DEF AloneNext, Next, JobStep
<1> QED
    BY <1>1, <1>4, <1>5

\* An admission that no other and no eviction overlapped leaves its digest
\* resolvable when it returns, unless its object was changed from outside: for any
\* number of earlier calls that overlapped, failed, died or were evicted half-way.
THEOREM AdmittedAlone == AloneSpec => AdmittedAloneIsResolvable
<1> DEFINE Inv == AloneInv /\ alone \subseteq Job
<1>1. AloneInit => Init /\ Inv
    BY DEF AloneInit, AloneInv
<1>2. TypeOK /\ Inv /\ [AloneNext]_<<vars, alone>> => Inv'
    <2> SUFFICES ASSUME TypeOK, Inv, [AloneNext]_<<vars, alone>> PROVE Inv'
        OBVIOUS
    <2>1. CASE AloneNext
        <3>1. AloneInv'
            BY <2>1, StepAlone
        <3>2. (alone \subseteq Job)'
            BY <2>1 DEF AloneNext
        <3> QED
            BY <3>1, <3>2
    <2>2. CASE UNCHANGED <<vars, alone>>
        BY <2>2 DEF vars, jobVars, dirVars, fileVars, AloneInv, AsLeft, OnlyOne, ActiveJobs, Evicting
    <2> QED
        BY <2>1, <2>2
<1>3. [AloneNext]_<<vars, alone>> => [Next]_vars
    BY DEF AloneNext
<1>4. TypeOK /\ Inv /\ [AloneNext]_<<vars, alone>> =>
         [\A j \in alone :
             /\ pc[j] = "install" /\ pc'[j] = "admitted"
             /\ stamp[facts[j].file] = facts[j].stamp
             => Resolvable(req[j].digest)']_<<vars, alone>>
    <2> SUFFICES ASSUME TypeOK, Inv, AloneNext,
                        NEW j \in alone,
                        pc[j] = "install", pc'[j] = "admitted",
                        stamp[facts[j].file] = facts[j].stamp
                 PROVE  Resolvable(req[j].digest)'
        OBVIOUS
    <2> DEFINE d == req[j].digest
    <2>1. j \in Job /\ d \in Digest
        BY DEF TypeOK, Request
    <2>2. /\ object[d] = j /\ facts[j].file = j /\ staging[d] = handle[j]
          /\ text[handle[j]] = [digest |-> d, facts |-> facts[j]]
        BY DEF AloneInv, AsLeft
    <2>3. InstallManifest(j)
        <3>1. ASSUME NEW i \in Job, JobStep(i) PROVE InstallManifest(j)
            <4>1. \E label : pc' = [pc EXCEPT ![i] = label]
                BY <3>1 DEF JobStep, Begin, CopyAndVerify, RefuseDeclared, Publish,
                   TakeFacts, OpenManifest, WriteManifest, InstallManifest, Fail, Goto
            <4>2. i = j
                BY <2>1, <4>1 DEF TypeOK
            <4>3. ~Fail(j)
                BY <2>1 DEF Fail, Goto, TypeOK
            <4> QED
                BY <3>1, <4>2, <4>3 DEF JobStep, Begin, CopyAndVerify, RefuseDeclared,
                   Publish, TakeFacts, OpenManifest, WriteManifest
        <3>2. ASSUME NEW p \in Process, Crash(p) PROVE FALSE
            BY <2>1, <3>2 DEF Crash
        <3>3. ASSUME UNCHANGED pc PROVE FALSE
            BY <2>1, <3>3
        <3> QED
            BY <3>1, <3>2, <3>3 DEF AloneNext, Next, ReaderStep, ReadManifest, OpenObject,
               EvictStep, ListForEviction, UnlinkObject, UnlinkManifest, AbandonEviction,
               Disturb, jobVars
    <2>4. /\ manifest'[d] = handle[j] /\ text' = text /\ object' = object
          /\ stamp' = stamp /\ req' = req
        BY <2>1, <2>2, <2>3 DEF InstallManifest, TypeOK, fileVars
    <2>5. handle[j] \in Job /\ facts[j] \in Facts
        BY <2>1 DEF TypeOK
    <2>6. OnDisk(d)' = [digest |-> d, facts |-> facts[j]]
        BY <2>2, <2>4, <2>5, AtomsAssumption DEF OnDisk
    <2>7. facts[j] = [file |-> j, stamp |-> stamp[j]]
        BY <2>2, <2>5 DEF Facts
    <2> QED
        BY <2>1, <2>2, <2>4, <2>5, <2>6, <2>7, AtomsAssumption
        DEF Resolvable, Accepts, Manifest
<1> QED
    BY <1>1, <1>2, <1>3, <1>4, TypeCorrect, PTL DEF AloneSpec, AdmittedAloneIsResolvable, Spec

=============================================================================
