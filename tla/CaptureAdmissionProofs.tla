------------------------ MODULE CaptureAdmissionProofs ------------------------
(***************************************************************************)
(* What holds of CaptureAdmission for every number of calls, models,       *)
(* prefixes and artifacts to keep, however the calls overlap; and, at the  *)
(* end, what holds besides as long as they have not.                       *)
(***************************************************************************)
EXTENDS SerialAdmission, FiniteSetTheorems, SequenceTheorems, TLAPS

\* A call admits its artifact once, after the steps before "admit".
BeforeAdmit == {"idle", "list", "discard", "pinHeld", "admit"}
AfterAdmit == {"unlinkRaw", "pinNew", "scan", "drop"}

AdmitsOnce ==
    /\ \A i, k \in DOMAIN order : order[i] = order[k] => i = k
    /\ \A j \in Job : /\ pc[j] \in BeforeAdmit => j \notin Admitted
                      /\ pc[j] \in AfterAdmit => j \in Admitted
                      /\ pc[j] = "discard" \/ (pc[j] = "pinHeld") => found[j] \in Admitted

\* The younger artifacts of the model of the i-th one.
YoungerOnes(i) ==
    {k \in (i + 1)..Len(order) : call[order[k]].model = call[order[i]].model}

Old(i) == Cardinality(YoungerOnes(i)) >= Keep

\* What a pruning is about to unlink is of its call's model, and old.
VictimsAreOld ==
    \A j \in Job : \A i \in DOMAIN order : order[i] \in victims[j] =>
        /\ call[order[i]].model = call[j].model
        /\ Old(i)

IInv ==
    /\ TypeOK
    /\ AdmitsOnce
    /\ VictimsAreOld
    /\ EvictedWereOld
    /\ StoreBounded

-----------------------------------------------------------------------------
\* The artifacts admitted so far, and those of them that are held and unpinned,
\* are finitely many.
LEMMA FinitelyMany ==
    ASSUME TypeOK
    PROVE  /\ IsFiniteSet(Admitted)
           /\ \A m : Unpinned(m) \subseteq Admitted /\ IsFiniteSet(Unpinned(m))
<1>1. order \in [1..Len(order) -> Job] /\ Len(order) \in Nat
    BY LenProperties DEF TypeOK
<1>2. order \in Surjection(1..Len(order), Admitted)
    BY <1>1 DEF Surjection, Admitted
<1>3. IsFiniteSet(1..Len(order))
    BY <1>1, FS_Interval
<1>4. IsFiniteSet(Admitted)
    BY <1>2, <1>3, FS_Surjection
<1>5. \A m : Unpinned(m) \subseteq Admitted
    BY DEF TypeOK, Unpinned, Of
<1> QED
    BY <1>4, <1>5, FS_Subset

\* Of two admitted artifacts one is younger, and not both.
LEMMA YoungerOrders ==
    ASSUME TypeOK, AdmitsOnce, NEW a \in Admitted, NEW b \in Admitted
    PROVE  /\ a # b => Younger(a, b) \/ Younger(b, a)
           /\ ~(Younger(a, b) /\ Younger(b, a))
           /\ \A c \in Admitted : Younger(c, a) /\ Younger(a, b) => Younger(c, b)
<1>1. DOMAIN order = 1..Len(order) /\ Len(order) \in Nat
    BY LenProperties DEF TypeOK
<1> QED
    BY <1>1 DEF AdmitsOnce, Younger, Admitted

\* What a pruning leaves is no more than Keep: a younger artifact has fewer
\* younger ones, so that counting them numbers what is left below Keep.
LEMMA Remainder ==
    ASSUME TypeOK, AdmitsOnce, NEW m \in Model
    PROVE  Cardinality(Unpinned(m) \ Excess(m)) <= Keep
<1> DEFINE Left == Unpinned(m) \ Excess(m)
           rank == [a \in Left |-> Cardinality(YoungerUnpinned(a, m))]
<1>1. Unpinned(m) \subseteq Admitted /\ IsFiniteSet(Unpinned(m))
    BY FinitelyMany
<1>2. \A a \in Left : /\ IsFiniteSet(YoungerUnpinned(a, m))
                      /\ Cardinality(YoungerUnpinned(a, m)) \in Nat
    BY <1>1, FS_Subset, FS_CardinalityType DEF YoungerUnpinned
<1>3. \A a \in Left : rank[a] \in 0..(Keep - 1)
    BY <1>2, KeepAssumption DEF Excess
<1>4. ASSUME NEW a \in Left, NEW b \in Left, Younger(a, b)
      PROVE  rank[a] # rank[b]
    <2>1. a \in Admitted /\ b \in Admitted
        BY <1>1
    <2>2. YoungerUnpinned(a, m) \subseteq YoungerUnpinned(b, m)
        BY <1>1, <1>4, <2>1, YoungerOrders DEF YoungerUnpinned
    <2>3. a \in YoungerUnpinned(b, m) /\ a \notin YoungerUnpinned(a, m)
        BY <1>4, <2>1, YoungerOrders DEF YoungerUnpinned
    <2>4. Cardinality(YoungerUnpinned(a, m)) # Cardinality(YoungerUnpinned(b, m))
        BY <1>2, <2>2, <2>3, FS_Subset
    <2> QED
        BY <2>4
<1>5. \A a, b \in Left : rank[a] = rank[b] => a = b
    BY <1>1, <1>4, YoungerOrders
<1>6. rank \in Injection(Left, 0..(Keep - 1))
    BY <1>3, <1>5 DEF Injection, IsInjective
<1>7. IsFiniteSet(0..(Keep - 1)) /\ Cardinality(0..(Keep - 1)) = Keep
    BY KeepAssumption, FS_Interval
<1> QED
    BY <1>6, <1>7, FS_Injection

\* The younger ones are finitely many.
LEMMA YoungerAreFinite ==
    ASSUME TypeOK, NEW i \in DOMAIN order
    PROVE  IsFiniteSet(YoungerOnes(i)) /\ Cardinality(YoungerOnes(i)) \in Nat
<1>1. DOMAIN order = 1..Len(order) /\ Len(order) \in Nat
    BY LenProperties DEF TypeOK
<1>2. IsFiniteSet((i + 1)..Len(order))
    BY <1>1, FS_Interval
<1>3. YoungerOnes(i) \subseteq (i + 1)..Len(order)
    BY DEF YoungerOnes
<1> QED
    BY <1>2, <1>3, FS_Subset, FS_CardinalityType

\* What a pruning finds in excess is old.
LEMMA ExcessIsOld ==
    ASSUME TypeOK, AdmitsOnce, NEW m \in Model,
           NEW i \in DOMAIN order, order[i] \in Excess(m)
    PROVE  call[order[i]].model = m /\ Old(i)
<1> DEFINE later == YoungerUnpinned(order[i], m)
           place == [b \in later |-> CHOOSE k \in YoungerOnes(i) : order[k] = b]
<1>1. DOMAIN order = 1..Len(order) /\ Len(order) \in Nat
    BY LenProperties DEF TypeOK
<1>2. call[order[i]].model = m
    BY DEF Excess, Unpinned, Of
<1>3. \A b \in later : \E k \in YoungerOnes(i) : order[k] = b
    BY <1>1, <1>2 DEF YoungerUnpinned, Younger, YoungerOnes, AdmitsOnce, Unpinned, Of
<1>4. \A b \in later : place[b] \in YoungerOnes(i) /\ order[place[b]] = b
    BY <1>3
<1>5. place \in Injection(later, YoungerOnes(i))
    BY <1>4 DEF Injection, IsInjective
<1>6. IsFiniteSet(YoungerOnes(i))
    BY <1>1, YoungerAreFinite
<1>7. Cardinality(later) <= Cardinality(YoungerOnes(i))
    BY <1>5, <1>6, FS_Injection
<1>8. Cardinality(later) >= Keep
    BY DEF Excess
<1>9. IsFiniteSet(later)
    BY FinitelyMany, FS_Subset DEF YoungerUnpinned
<1>10. Cardinality(later) \in Nat /\ Cardinality(YoungerOnes(i)) \in Nat
    BY <1>6, <1>9, FS_CardinalityType
<1> QED
    BY <1>2, <1>7, <1>8, <1>10, KeepAssumption DEF Old

-----------------------------------------------------------------------------
\* The initial state satisfies the inductive invariant.
LEMMA InitIInv == Init => IInv
<1> SUFFICES ASSUME Init PROVE IInv
    OBVIOUS
<1>1. order = <<>> /\ DOMAIN order = {} /\ Admitted = {} /\ held = {}
    BY DEF Init, Admitted
<1>2. TypeOK
    BY <1>1 DEF Init, TypeOK
<1>3. AdmitsOnce
    BY <1>1 DEF Init, AdmitsOnce, AfterAdmit
<1>4. VictimsAreOld /\ EvictedWereOld
    BY <1>1 DEF VictimsAreOld, EvictedWereOld
<1>5. StoreBounded
    <2>1. \A m : Unpinned(m) \ (Pending \cup released \cup Condemned(m)) = {}
        BY <1>1 DEF Unpinned, Of
    <2> QED
        BY <2>1, FS_EmptySet, KeepAssumption DEF StoreBounded
<1> QED
    BY <1>2, <1>3, <1>4, <1>5 DEF IInv

-----------------------------------------------------------------------------
\* A step that admits nothing leaves the order alone, and who is admitted.
LEMMA OrderAlone ==
    ASSUME UNCHANGED <<order, call>>
    PROVE  /\ Admitted' = Admitted
           /\ \A i \in DOMAIN order : Old(i)' = Old(i)
BY DEF Admitted, Old, YoungerOnes

\* Admission puts the call's artifact behind those admitted before.
LEMMA AdmitAppends ==
    ASSUME TypeOK, AdmitsOnce, NEW j \in Job, Admit(j)
    PROVE  /\ Len(order) \in Nat /\ DOMAIN order = 1..Len(order)
           /\ order' \in Seq(Job) /\ DOMAIN order' = 1..(Len(order) + 1)
           /\ Len(order') = Len(order) + 1
           /\ \A i \in DOMAIN order : order'[i] = order[i]
           /\ order'[Len(order) + 1] = j
           /\ Admitted' = Admitted \cup {j}
           /\ j \notin Admitted
<1>1. order' = Append(order, j) /\ order \in Seq(Job)
    BY DEF Admit, TypeOK
<1>2. /\ Len(order) \in Nat /\ DOMAIN order = 1..Len(order)
      /\ order' \in Seq(Job)
      /\ Len(order') = Len(order) + 1
      /\ \A i \in 1..Len(order) : order'[i] = order[i]
      /\ order'[Len(order) + 1] = j
    BY <1>1, AppendProperties, LenProperties
<1>3. DOMAIN order' = 1..(Len(order) + 1)
    BY <1>2, LenProperties
<1>4. Admitted' = Admitted \cup {j}
    BY <1>2, <1>3 DEF Admitted
<1>5. j \notin Admitted
    BY DEF AdmitsOnce, Admit, BeforeAdmit
<1> QED
    BY <1>2, <1>3, <1>4, <1>5

\* What was old stays old, for younger ones are only ever added.
LEMMA OldStays ==
    ASSUME TypeOK, AdmitsOnce, NEW j \in Job, Admit(j), NEW i \in DOMAIN order, Old(i)
    PROVE  Old(i)'
<1>1. YoungerOnes(i) \subseteq YoungerOnes(i)'
    BY AdmitAppends DEF YoungerOnes, Admit
<1>2. IsFiniteSet(YoungerOnes(i)')
    <2>1. IsFiniteSet((i + 1)..Len(order)')
        <3>1. i + 1 \in Int /\ Len(order)' \in Int
            BY AdmitAppends
        <3> QED
            BY <3>1, FS_Interval
    <2>2. YoungerOnes(i)' \subseteq (i + 1)..Len(order)'
        BY DEF YoungerOnes
    <2> QED
        BY <2>1, <2>2, FS_Subset
<1>3. Cardinality(YoungerOnes(i)) <= Cardinality(YoungerOnes(i)')
    BY <1>1, <1>2, FS_Subset
<1>4. Cardinality(YoungerOnes(i)) \in Nat /\ Cardinality(YoungerOnes(i)') \in Nat
    BY <1>2, YoungerAreFinite, FS_CardinalityType
<1> QED
    BY <1>3, <1>4, KeepAssumption DEF Old

-----------------------------------------------------------------------------
\* Every step keeps the types.
LEMMA StepTypeOK == IInv /\ [Next]_vars => TypeOK'
<1> SUFFICES ASSUME IInv, [Next]_vars PROVE TypeOK'
    OBVIOUS
<1> USE DEF Goto
<1>0. TypeOK /\ AdmitsOnce
    BY DEF IInv
<1>a. ASSUME UNCHANGED <<order, call>> PROVE Admitted' = Admitted
    BY <1>a, OrderAlone
<1>1. ASSUME NEW j \in Job, Saved(j) PROVE TypeOK'
    BY <1>0, <1>1, <1>a DEF Saved, TypeOK, Active
<1>2. ASSUME NEW j \in Job, FindHeld(j) PROVE TypeOK'
    BY <1>0, <1>2, <1>a DEF FindHeld, TypeOK, Active, Covering, Of
<1>3. ASSUME NEW j \in Job, FindNothing(j) PROVE TypeOK'
    BY <1>0, <1>3, <1>a DEF FindNothing, TypeOK, Active
<1>4. ASSUME NEW j \in Job, DiscardRaw(j) PROVE TypeOK'
    BY <1>0, <1>4, <1>a DEF DiscardRaw, TypeOK, Active
<1>5. ASSUME NEW j \in Job, PinHeld(j) PROVE TypeOK'
    BY <1>0, <1>5, <1>a DEF PinHeld, TypeOK, Active, AdmitsOnce
<1>6. ASSUME NEW j \in Job, Admit(j) PROVE TypeOK'
    <2>1. order' \in Seq(Job) /\ Admitted' = Admitted \cup {j}
        BY <1>0, <1>6, AdmitAppends
    <2>2. /\ pc' \in [Job -> {"idle", "done", "refused", "dead"} \cup Active]
          /\ held' = held \cup {j}
          /\ UNCHANGED <<call, raw, pins, found, victims>>
          /\ released' \in {released, released \cup {j}}
        BY <1>0, <1>6 DEF Admit, TypeOK, Active
    <2> QED
        BY <1>0, <2>1, <2>2 DEF TypeOK
<1>7. ASSUME NEW j \in Job, Refuse(j) PROVE TypeOK'
    <2>1. released' \in SUBSET Admitted
        BY <1>0, <1>7 DEF Refuse, TypeOK, Pending, AdmitsOnce, AfterAdmit
    <2> QED
        BY <1>0, <1>7, <1>a, <2>1 DEF Refuse, TypeOK, Active
<1>8. ASSUME NEW j \in Job, UnlinkRaw(j) PROVE TypeOK'
    BY <1>0, <1>8, <1>a DEF UnlinkRaw, TypeOK, Active
<1>9. ASSUME NEW j \in Job, PinNew(j) PROVE TypeOK'
    BY <1>0, <1>9, <1>a DEF PinNew, TypeOK, Active, AdmitsOnce, AfterAdmit
<1>10. ASSUME NEW j \in Job, Scan(j) PROVE TypeOK'
    BY <1>0, <1>10, <1>a DEF Scan, TypeOK, Active, Excess, Unpinned, Of
<1>11. ASSUME NEW j \in Job, Drop(j) PROVE TypeOK'
    BY <1>0, <1>11, <1>a DEF Drop, NextVictim, TypeOK, Active
<1>12. ASSUME NEW j \in Job, DropFails(j) PROVE TypeOK'
    BY <1>0, <1>12, <1>a DEF DropFails, NextVictim, TypeOK, Active
<1>13. ASSUME Crash PROVE TypeOK'
    <2>1. Pending \subseteq Admitted /\ \A j \in Job : victims[j] \subseteq Admitted
        BY <1>0 DEF TypeOK, Pending, AdmitsOnce, AfterAdmit
    <2>2. released' \in SUBSET Admitted
        BY <1>0, <1>13, <2>1 DEF Crash, TypeOK, ActiveJobs
    <2> QED
        BY <1>0, <1>13, <1>a, <2>2 DEF Crash, TypeOK
<1>14. ASSUME NEW a \in Job, OperatorPin(a) \/ OperatorUnpin(a) PROVE TypeOK'
    BY <1>0, <1>14, <1>a DEF OperatorPin, OperatorUnpin, TypeOK
<1>15. CASE UNCHANGED vars
    BY <1>0, <1>15, <1>a DEF vars, TypeOK
<1> QED
    BY <1>1, <1>2, <1>3, <1>4, <1>5, <1>6, <1>7, <1>8, <1>9, <1>10, <1>11,
       <1>12, <1>13, <1>14, <1>15 DEF Next, JobStep

\* Every call still admits once.
LEMMA StepAdmitsOnce == IInv /\ [Next]_vars => AdmitsOnce'
<1> SUFFICES ASSUME IInv, [Next]_vars PROVE AdmitsOnce'
    OBVIOUS
<1> USE DEF Goto, BeforeAdmit, AfterAdmit
<1>0. TypeOK /\ AdmitsOnce
    BY DEF IInv
<1>a. ASSUME UNCHANGED <<order, call>>,
             \A j \in Job :
                /\ pc'[j] \in BeforeAdmit => pc[j] \in BeforeAdmit
                /\ pc'[j] \in AfterAdmit => pc[j] \in AfterAdmit
                /\ pc'[j] \in {"discard", "pinHeld"} => found'[j] \in Admitted
      PROVE  AdmitsOnce'
    BY <1>0, <1>a, OrderAlone DEF AdmitsOnce
<1>1. ASSUME NEW j \in Job, Saved(j) \/ FindNothing(j) \/ DiscardRaw(j) PROVE AdmitsOnce'
    BY <1>0, <1>1, <1>a DEF Saved, FindNothing, DiscardRaw, TypeOK, AdmitsOnce
<1>2. ASSUME NEW j \in Job, FindHeld(j) PROVE AdmitsOnce'
    BY <1>0, <1>2, <1>a DEF FindHeld, TypeOK, AdmitsOnce, Covering, Of
<1>3. ASSUME NEW j \in Job, PinHeld(j) PROVE AdmitsOnce'
    BY <1>0, <1>3, <1>a DEF PinHeld, TypeOK, AdmitsOnce
<1>4. ASSUME NEW j \in Job, Admit(j) PROVE AdmitsOnce'
    <2>1. \A i, k \in DOMAIN order' : order'[i] = order'[k] => i = k
        <3>1. \A i \in DOMAIN order : order[i] # j
            BY <1>0, <1>4, AdmitAppends DEF Admitted
        <3> QED
            BY <1>0, <1>4, <3>1, AdmitAppends DEF AdmitsOnce
    <2>2. /\ pc'[j] \in AfterAdmit \cup {"done"} /\ found' = found
          /\ \A i \in Job \ {j} : pc'[i] = pc[i]
        BY <1>0, <1>4 DEF Admit, TypeOK
    <2>3. Admitted' = Admitted \cup {j}
        BY <1>0, <1>4, AdmitAppends
    <2> QED
        BY <1>0, <2>1, <2>2, <2>3 DEF AdmitsOnce
<1>5. ASSUME NEW j \in Job, Refuse(j) \/ UnlinkRaw(j) \/ PinNew(j) \/ Scan(j)
      PROVE  AdmitsOnce'
    BY <1>0, <1>5, <1>a DEF Refuse, UnlinkRaw, PinNew, Scan, TypeOK, AdmitsOnce
<1>6. ASSUME NEW j \in Job, Drop(j) \/ DropFails(j) PROVE AdmitsOnce'
    BY <1>0, <1>6, <1>a DEF Drop, DropFails, NextVictim, TypeOK, AdmitsOnce
<1>7. ASSUME Crash PROVE AdmitsOnce'
    BY <1>0, <1>7, <1>a DEF Crash, TypeOK, AdmitsOnce
<1>8. ASSUME NEW a \in Job, OperatorPin(a) \/ OperatorUnpin(a) PROVE AdmitsOnce'
    BY <1>0, <1>8, <1>a DEF OperatorPin, OperatorUnpin, AdmitsOnce
<1>9. CASE UNCHANGED vars
    BY <1>0, <1>9, <1>a DEF vars, AdmitsOnce
<1> QED
    BY <1>1, <1>2, <1>3, <1>4, <1>5, <1>6, <1>7, <1>8, <1>9 DEF Next, JobStep

\* Every step keeps the victims old.
LEMMA StepVictims == IInv /\ [Next]_vars => VictimsAreOld'
<1> SUFFICES ASSUME IInv, [Next]_vars PROVE VictimsAreOld'
    OBVIOUS
<1> USE DEF Goto
<1>0. TypeOK /\ AdmitsOnce /\ VictimsAreOld
    BY DEF IInv
<1>a. ASSUME UNCHANGED <<order, call>>, \A j \in Job : victims'[j] \subseteq victims[j]
      PROVE  VictimsAreOld'
    BY <1>0, <1>a, OrderAlone DEF VictimsAreOld
<1>1. ASSUME NEW j \in Job, Admit(j) PROVE VictimsAreOld'
    <2> SUFFICES ASSUME NEW i \in Job, NEW k \in DOMAIN order', order'[k] \in victims[i]
                 PROVE  call[order'[k]].model = call[i].model /\ Old(k)'
        BY <1>1 DEF VictimsAreOld, Admit
    <2>1. order'[k] # j
        BY <1>0, <1>1, AdmitAppends DEF TypeOK
    <2>2. k \in DOMAIN order /\ order'[k] = order[k]
        BY <1>0, <1>1, <2>1, AdmitAppends
    <2> QED
        BY <1>0, <1>1, <2>2, OldStays DEF VictimsAreOld
<1>2. ASSUME NEW j \in Job, Scan(j) PROVE VictimsAreOld'
    <2> SUFFICES ASSUME NEW i \in Job, NEW k \in DOMAIN order, order[k] \in victims'[i]
                 PROVE  call[order[k]].model = call[i].model /\ Old(k)
        BY <1>2, OrderAlone DEF VictimsAreOld, Scan
    <2>1. CASE i = j
        <3>1. order[k] \in Excess(call[j].model) /\ call[j].model \in Model
            BY <1>0, <1>2, <2>1 DEF Scan, TypeOK, Call
        <3> QED
            BY <1>0, <2>1, <3>1, ExcessIsOld
    <2>2. CASE i # j
        BY <1>0, <1>2, <2>2 DEF Scan, TypeOK, VictimsAreOld
    <2> QED
        BY <2>1, <2>2
<1>3. ASSUME NEW j \in Job, Drop(j) \/ DropFails(j) PROVE VictimsAreOld'
    BY <1>0, <1>3, <1>a DEF Drop, DropFails, NextVictim, TypeOK
<1>4. ASSUME NEW j \in Job,
             \/ Saved(j) \/ FindHeld(j) \/ FindNothing(j) \/ DiscardRaw(j) \/ PinHeld(j)
             \/ Refuse(j) \/ UnlinkRaw(j) \/ PinNew(j)
             \/ OperatorPin(j) \/ OperatorUnpin(j)
      PROVE  VictimsAreOld'
    BY <1>4, <1>a DEF Saved, FindHeld, FindNothing, DiscardRaw, PinHeld, Refuse,
                      UnlinkRaw, PinNew, OperatorPin, OperatorUnpin
<1>5. CASE Crash
    BY <1>5, <1>a DEF Crash
<1>6. CASE UNCHANGED vars
    BY <1>6, <1>a DEF vars
<1> QED
    BY <1>1, <1>2, <1>3, <1>4, <1>5, <1>6 DEF Next, JobStep

\* Every step evicts only what is old.
LEMMA StepEvicted == IInv /\ [Next]_vars => EvictedWereOld'
<1> SUFFICES ASSUME IInv, [Next]_vars PROVE EvictedWereOld'
    OBVIOUS
<1>0. TypeOK /\ AdmitsOnce /\ VictimsAreOld /\ \A i \in DOMAIN order : order[i] \notin held => Old(i)
    BY DEF IInv, EvictedWereOld, Old, YoungerOnes
<1>q. EvictedWereOld' <=> \A i \in DOMAIN order' : order'[i] \notin held' => Old(i)'
    BY DEF EvictedWereOld, Old, YoungerOnes
<1>a. ASSUME UNCHANGED <<order, call>>, held' = held PROVE EvictedWereOld'
    BY <1>0, <1>q, <1>a, OrderAlone
<1>1. ASSUME NEW j \in Job, Admit(j) PROVE EvictedWereOld'
    <2> SUFFICES ASSUME NEW k \in DOMAIN order', order'[k] \notin held' PROVE Old(k)'
        BY <1>q
    <2>1. order'[k] # j /\ held \subseteq held'
        BY <1>1 DEF Admit
    <2>2. k \in DOMAIN order /\ order'[k] = order[k]
        BY <1>0, <1>1, <2>1, AdmitAppends
    <2> QED
        BY <1>0, <1>1, <2>1, <2>2, OldStays
<1>2. ASSUME NEW j \in Job, Drop(j) PROVE EvictedWereOld'
    <2>1. PICK a \in victims[j] : held' = held \ {a}
        BY <1>2 DEF Drop
    <2>2. \A i \in DOMAIN order : order[i] = a => Old(i)
        BY <1>0, <2>1 DEF VictimsAreOld
    <2> QED
        BY <1>0, <1>q, <1>2, <2>1, <2>2, OrderAlone DEF Drop
<1>3. ASSUME NEW j \in Job,
             \/ Saved(j) \/ FindHeld(j) \/ FindNothing(j) \/ DiscardRaw(j) \/ PinHeld(j)
             \/ Refuse(j) \/ UnlinkRaw(j) \/ PinNew(j) \/ Scan(j) \/ DropFails(j)
             \/ OperatorPin(j) \/ OperatorUnpin(j)
      PROVE  EvictedWereOld'
    BY <1>3, <1>a DEF Saved, FindHeld, FindNothing, DiscardRaw, PinHeld, Refuse,
                      UnlinkRaw, PinNew, Scan, DropFails, OperatorPin, OperatorUnpin
<1>4. CASE Crash
    BY <1>4, <1>a DEF Crash
<1>5. CASE UNCHANGED vars
    BY <1>5, <1>a DEF vars
<1> QED
    BY <1>1, <1>2, <1>3, <1>4, <1>5 DEF Next, JobStep

\* The artifacts that the last pruning of a model has left.
Left(m) == Unpinned(m) \ (Pending \cup released \cup Condemned(m))

\* Where no more of them are left, the model stays bounded.
LEMMA StaysBounded ==
    ASSUME IInv, NEW m \in Model, TypeOK', Left(m)' \subseteq Left(m)
    PROVE  Cardinality(Left(m))' <= Keep
<1> DEFINE before == Left(m)
           after == Left(m)'
<1>1. IsFiniteSet(before)
    BY FinitelyMany, FS_Difference DEF IInv, Left
<1>2. Cardinality(after) <= Cardinality(before) /\ IsFiniteSet(after)
    BY <1>1, FS_Subset
<1>3. Cardinality(after) \in Nat /\ Cardinality(before) \in Nat
    BY <1>1, <1>2, FS_CardinalityType
<1>4. Cardinality(before) <= Keep
    BY DEF IInv, StoreBounded, Left
<1> QED
    BY <1>2, <1>3, <1>4, KeepAssumption

\* Every step keeps each model bounded: what joins the unpinned, or is no longer to be
\* unlinked, is released, pending or condemned, and a listing condemns all but Keep.
LEMMA StepBounded == IInv /\ [Next]_vars => StoreBounded'
<1> SUFFICES ASSUME IInv, [Next]_vars,
                    NEW m \in Model
             PROVE  Cardinality(Left(m))' <= Keep
    BY DEF StoreBounded, Left
<1> USE DEF Goto
<1>0. TypeOK /\ TypeOK' /\ AdmitsOnce /\ VictimsAreOld /\ Admitted \subseteq Job
    <2>1. TypeOK /\ TypeOK' /\ AdmitsOnce /\ VictimsAreOld
        BY StepTypeOK DEF IInv
    <2>2. order \in Seq(Job)
        BY <2>1 DEF TypeOK
    <2>3. Admitted \subseteq Job
        BY <2>2 DEF Admitted
    <2> QED
        BY <2>1, <2>3
<1> DEFINE Claim == Cardinality(Left(m))' <= Keep
\* Steps that let nothing be left that was not.
<1>a. ASSUME Unpinned(m)' \subseteq Unpinned(m),
             \A x \in Unpinned(m) : x \in Pending \cup released \cup Condemned(m) =>
                x \notin Unpinned(m)' \/ x \in (Pending \cup released \cup Condemned(m))'
      PROVE  Claim
    <2>1. Left(m)' \subseteq Left(m)
        BY <1>a DEF Left
    <2> QED
        BY <1>0, <2>1, StaysBounded
\* Steps of one call that evict nothing, prune nothing and unpin nothing.
<1>b. ASSUME UNCHANGED <<call, order, held, victims>>, pins \subseteq pins',
             released \subseteq released',
             \A j \in Job : pc[j] = "drop" => pc'[j] = "drop",
             \A j \in Pending : j \in Pending' \/ j \in released'
      PROVE  Claim
    <2>1. Condemned(m) \subseteq Condemned(m)'
        BY <1>b, OrderAlone DEF Condemned
    <2>2. Unpinned(m)' \subseteq Unpinned(m)
        BY <1>b DEF Unpinned, Of
    <2> QED
        BY <1>a, <1>b, <2>1, <2>2
<1>1. ASSUME NEW j \in Job,
             Saved(j) \/ FindHeld(j) \/ FindNothing(j) \/ DiscardRaw(j) \/ PinHeld(j)
      PROVE  Claim
    <2>1. /\ UNCHANGED <<call, order, held, victims, released>> /\ pins \subseteq pins'
          /\ pc[j] \in BeforeAdmit
          /\ \A i \in Job \ {j} : pc'[i] = pc[i]
        BY <1>0, <1>1 DEF Saved, FindHeld, FindNothing, DiscardRaw, PinHeld, BeforeAdmit, TypeOK
    <2>2. j \notin Pending /\ pc[j] # "drop"
        BY <2>1 DEF BeforeAdmit, Pending
    <2> QED
        BY <1>b, <2>1, <2>2 DEF Pending
<1>2. ASSUME NEW j \in Job, Refuse(j) \/ UnlinkRaw(j) \/ PinNew(j) PROVE Claim
    <2>1. /\ UNCHANGED <<call, order, held, victims>> /\ pins \subseteq pins'
          /\ released \subseteq released' /\ pc[j] # "drop"
          /\ \A i \in Job \ {j} : pc'[i] = pc[i]
          /\ j \in Pending => j \in Pending' \/ j \in released'
        BY <1>0, <1>2 DEF Refuse, UnlinkRaw, PinNew, Pending, TypeOK
    <2> QED
        BY <1>b, <2>1 DEF Pending
\* What is admitted is pending, or released.
<1>3. ASSUME NEW j \in Job, Admit(j) PROVE Claim
    <2>1. /\ Admitted' = Admitted \cup {j} /\ j \notin Admitted
          /\ UNCHANGED <<call, pins, victims>> /\ held' = held \cup {j}
          /\ released \subseteq released'
        BY <1>0, <1>3, AdmitAppends DEF Admit
    <2>2. /\ j \in Pending' \cup released'
          /\ \A i \in Job : i # j => pc'[i] = pc[i]
          /\ pc[j] # "drop"
        BY <1>0, <1>3 DEF Admit, TypeOK, Pending
    <2>3. Condemned(m) \subseteq Condemned(m)' /\ Pending \ {j} \subseteq Pending'
        BY <2>1, <2>2 DEF Condemned, Pending
    <2>4. Unpinned(m)' \subseteq Unpinned(m) \cup {j}
        BY <2>1 DEF Unpinned, Of
    <2>5. Left(m)' \subseteq Left(m)
        BY <2>1, <2>2, <2>3, <2>4 DEF Left
    <2> QED
        BY <1>0, <2>5, StaysBounded
\* A scan condemns all but Keep.
<1>4. ASSUME NEW j \in Job, Scan(j) PROVE Claim
    <2>1. /\ UNCHANGED <<call, order, held, pins>>
          /\ victims' = [victims EXCEPT ![j] = Excess(call[j].model)]
          /\ pc[j] = "scan" /\ pc'[j] \in {"done", "drop"}
          /\ pc'[j] = "done" => Excess(call[j].model) = {}
          /\ \A i \in Job \ {j} : pc'[i] = pc[i]
          /\ released' = {a \in released : call[a].model # call[j].model}
        BY <1>0, <1>4 DEF Scan, TypeOK
    <2>2. Unpinned(m)' = Unpinned(m) /\ Admitted' = Admitted
        BY <2>1, OrderAlone DEF Unpinned, Of
    <2>3. CASE call[j].model = m
        <3>1. Excess(m) \subseteq Condemned(m)'
            <4>1. Excess(m) \subseteq Admitted
                BY <1>0, FinitelyMany DEF Excess
            <4> QED
                BY <1>0, <2>1, <2>2, <2>3, <4>1 DEF Condemned, TypeOK
        <3>2. Left(m)' \subseteq Unpinned(m) \ Excess(m)
            BY <2>2, <3>1 DEF Left
        <3>3. IsFiniteSet(Unpinned(m) \ Excess(m))
            BY <1>0, FinitelyMany, FS_Difference
        <3>4. Cardinality(Left(m)') <= Cardinality(Unpinned(m) \ Excess(m))
            BY <3>2, <3>3, FS_Subset
        <3>5. Cardinality(Unpinned(m) \ Excess(m)) <= Keep
            BY <1>0, Remainder
        <3>6. /\ Cardinality(Left(m)') \in Nat
              /\ Cardinality(Unpinned(m) \ Excess(m)) \in Nat
            BY <3>2, <3>3, FS_Subset, FS_CardinalityType
        <3> QED
            BY <3>4, <3>5, <3>6, KeepAssumption
    <2>4. CASE call[j].model # m
        <3>1. Condemned(m)' = Condemned(m)
            BY <1>0, <2>1, <2>2, <2>4 DEF Condemned, TypeOK
        <3>2. \A x \in Unpinned(m) : call[x].model = m
            BY DEF Unpinned, Of
        <3>3. Pending \ {j} \subseteq Pending' /\ j \notin Unpinned(m)
            BY <2>1, <2>4, <3>2 DEF Pending
        <3> QED
            BY <1>a, <2>1, <2>2, <2>4, <3>1, <3>2, <3>3
    <2> QED
        BY <2>3, <2>4
\* What is unlinked was condemned.
<1>5. ASSUME NEW j \in Job, Drop(j) PROVE Claim
    <2>1. PICK a \in victims[j] : NextVictim(j, a) /\ held' = held \ {a}
        BY <1>5 DEF Drop
    <2>2. /\ UNCHANGED <<call, order, pins, released>>
          /\ victims' = [victims EXCEPT ![j] = @ \ {a}]
          /\ pc[j] = "drop" /\ pc'[j] \in {"done", "drop"}
          /\ pc'[j] = "done" => victims[j] = {a}
          /\ \A i \in Job \ {j} : pc'[i] = pc[i]
        BY <1>0, <1>5, <2>1 DEF Drop, NextVictim, TypeOK
    <2>3. Condemned(m) \ {a} \subseteq Condemned(m)'
        BY <1>0, <2>2, OrderAlone DEF Condemned, TypeOK
    <2>4. Unpinned(m)' = Unpinned(m) \ {a} /\ Pending \subseteq Pending'
        BY <2>1, <2>2 DEF Unpinned, Of, Pending
    <2> QED
        BY <1>a, <2>2, <2>3, <2>4
\* A victim that stays is released.
<1>6. ASSUME NEW j \in Job, DropFails(j) PROVE Claim
    <2>1. PICK a \in victims[j] : NextVictim(j, a) /\ released' = released \cup {a}
        BY <1>6 DEF DropFails
    <2>2. /\ UNCHANGED <<call, order, held, pins>>
          /\ victims' = [victims EXCEPT ![j] = @ \ {a}]
          /\ pc[j] = "drop" /\ pc'[j] \in {"done", "drop"}
          /\ pc'[j] = "done" => victims[j] = {a}
          /\ \A i \in Job \ {j} : pc'[i] = pc[i]
        BY <1>0, <1>6, <2>1 DEF DropFails, NextVictim, TypeOK
    <2>3. Condemned(m) \ {a} \subseteq Condemned(m)'
        BY <1>0, <2>2, OrderAlone DEF Condemned, TypeOK
    <2>4. Unpinned(m)' = Unpinned(m) /\ Pending \subseteq Pending'
        BY <2>2 DEF Unpinned, Of, Pending
    <2> QED
        BY <1>a, <2>1, <2>3, <2>4
\* What a pruning that dies leaves is released.
<1>7. ASSUME Crash PROVE Claim
    <2>1. PICK lost \in SUBSET Job :
             /\ UNCHANGED <<call, order, held, pins, victims>>
             /\ pc' = [j \in Job |-> IF j \in lost THEN "dead" ELSE pc[j]]
             /\ released' = released \cup (Pending \cap lost) \cup
                   UNION {victims[j] : j \in {j \in lost : pc[j] = "drop"}}
        BY <1>7 DEF Crash, ActiveJobs
    <2>2. Condemned(m) \subseteq Condemned(m)' \cup released'
        BY <2>1, OrderAlone DEF Condemned
    <2>3. Pending \subseteq Pending' \cup released' /\ Unpinned(m)' = Unpinned(m)
        BY <2>1 DEF Pending, Unpinned, Of
    <2> QED
        BY <1>a, <2>1, <2>2, <2>3
<1>8. ASSUME NEW a \in Job, OperatorPin(a) PROVE Claim
    BY <1>8, <1>b DEF OperatorPin, Pending
\* What the operator unpins is released.
<1>9. ASSUME NEW a \in Job, OperatorUnpin(a) PROVE Claim
    <2>1. /\ UNCHANGED <<pc, call, order, held, victims>> /\ pins' = pins \ {a}
          /\ released' = released \cup {a}
        BY <1>0, <1>9 DEF OperatorUnpin, TypeOK
    <2>2. Condemned(m)' = Condemned(m) /\ Pending' = Pending
        BY <2>1, OrderAlone DEF Condemned, Pending
    <2>3. Unpinned(m)' \subseteq Unpinned(m) \cup {a}
        BY <2>1 DEF Unpinned, Of
    <2>4. Left(m)' \subseteq Left(m)
        BY <2>1, <2>2, <2>3 DEF Left
    <2> QED
        BY <1>0, <2>4, StaysBounded
<1>10. CASE UNCHANGED vars
    BY <1>10, <1>b DEF vars, Pending
<1> QED
    BY <1>1, <1>2, <1>3, <1>4, <1>5, <1>6, <1>7, <1>8, <1>9, <1>10 DEF Next, JobStep

-----------------------------------------------------------------------------
\* The inductive invariant holds throughout.
LEMMA Invariant == Spec => []IInv
<1>1. Init => IInv
    BY InitIInv
<1>2. IInv /\ [Next]_vars => IInv'
    BY StepTypeOK, StepAdmitsOnce, StepVictims, StepEvicted, StepBounded DEF IInv
<1> QED
    BY <1>1, <1>2, PTL DEF Spec

\* Every reachable state is well typed: a marker, for one, is only ever put
\* beside an artifact that was admitted (cli.py's admit_capture, capture.py).
THEOREM TypeCorrect == Spec => []TypeOK
<1>1. IInv => TypeOK
    BY DEF IInv
<1> QED
    BY <1>1, Invariant, PTL

\* No pruning, alone or beside others, evicts an artifact that Keep younger ones
\* of its model have not displaced (prune_model_artifacts).
THEOREM NothingRecentIsEvicted == Spec => []EvictedWereOld
<1>1. IInv => EvictedWereOld
    BY DEF IInv
<1> QED
    BY <1>1, Invariant, PTL

\* However captures, seeds, prewarms, prunings and crashes overlap, a model holds no more
\* than Keep unpinned artifacts besides those still to be pruned or unlinked and those that
\* joined, or were left, since its last pruning listed the store (admit_capture,
\* prune_model_artifacts).
THEOREM StoreStaysBounded == Spec => []StoreBounded
<1>1. IInv => StoreBounded
    BY DEF IInv
<1> QED
    BY <1>1, Invariant, PTL

-----------------------------------------------------------------------------
\* As long as no two calls have overlapped: what a call found is still there,
\* what it did not find is still missing, what it admitted is still held, and
\* what its pruning is about to unlink has not been pinned since.
OneAtATime ==
    /\ \A i, j \in ActiveJobs : i = j
    /\ pins \subseteq held
    /\ \A j \in ActiveJobs :
        /\ pc[j] \in {"discard", "pinHeld"} => found[j] \in Covering(call[j])
        /\ pc[j] = "admit" /\ call[j].kind # "prewarm" => Covering(call[j]) = {}
        /\ pc[j] \in {"unlinkRaw", "pinNew"} => j \in held
        /\ pc[j] = "drop" => victims[j] \cap pins = {}

SerialInv ==
    /\ IInv
    /\ IsFiniteSet(ActiveJobs)
    /\ serial \in BOOLEAN
    /\ serial => OneAtATime /\ OnePerPrefix

\* No step makes more than one call active, so that they can be counted.
LEMMA FewActive ==
    ASSUME TypeOK, IsFiniteSet(ActiveJobs), [Next]_vars
    PROVE  /\ IsFiniteSet(ActiveJobs')
           /\ ~(Cardinality(ActiveJobs') > 1) => \A i, j \in ActiveJobs' : i = j
<1> USE DEF Goto
<1>1. \E j : ActiveJobs' \subseteq ActiveJobs \cup {j}
    <2>1. ASSUME NEW j \in Job, JobStep(j) PROVE ActiveJobs' \subseteq ActiveJobs \cup {j}
        <3>1. \E label : pc' = [pc EXCEPT ![j] = label]
            BY <2>1 DEF JobStep, Saved, FindHeld, FindNothing, DiscardRaw, PinHeld,
                        Admit, Refuse, UnlinkRaw, PinNew, Scan, Drop, DropFails, NextVictim
        <3> QED
            BY <3>1 DEF ActiveJobs, TypeOK
    <2>2. ASSUME pc' = pc \/ Crash PROVE ActiveJobs' \subseteq ActiveJobs
        BY <2>2 DEF Crash, ActiveJobs, Active
    <2>3. (\E j \in Job : JobStep(j)) \/ Crash \/ pc' = pc
        BY DEF Next, OperatorPin, OperatorUnpin, vars
    <2> QED
        BY <2>1, <2>2, <2>3
<1>2. PICK j : ActiveJobs' \subseteq ActiveJobs \cup {j}
    BY <1>1
<1>3. IsFiniteSet(ActiveJobs \cup {j})
    BY FS_AddElement
<1>4. IsFiniteSet(ActiveJobs')
    BY <1>2, <1>3, FS_Subset
<1>5. ASSUME ~(Cardinality(ActiveJobs') > 1), NEW i \in ActiveJobs', NEW k \in ActiveJobs', i # k
      PROVE  FALSE
    <2>1. {i, k} \subseteq ActiveJobs'
        OBVIOUS
    <2>2. Cardinality({i, k}) <= Cardinality(ActiveJobs')
        BY <1>4, <2>1, FS_Subset
    <2>3. Cardinality({i, k}) = 2
        <3>1. IsFiniteSet({i}) /\ Cardinality({i}) = 1
            BY FS_Singleton
        <3>2. Cardinality({i} \cup {k}) = Cardinality({i}) + 1
            BY <1>5, <3>1, FS_AddElement
        <3>3. {i} \cup {k} = {i, k}
            OBVIOUS
        <3> QED
            BY <3>1, <3>2, <3>3
    <2>4. Cardinality(ActiveJobs') \in Nat
        BY <1>4, FS_CardinalityType
    <2> QED
        BY <1>5, <2>2, <2>3, <2>4
<1> QED
    BY <1>4, <1>5

\* A step after which still no two calls have overlapped keeps what holds then.
LEMMA StepAlone ==
    ASSUME IInv, TypeOK', OneAtATime, [Next]_vars, ~Overlap,
           \A i, j \in ActiveJobs' : i = j
    PROVE  OneAtATime'
<1> USE DEF Goto
<1>0. TypeOK /\ AdmitsOnce
    BY DEF IInv
<1> DEFINE Fine(j) ==
        /\ pc[j] \in {"discard", "pinHeld"} => found[j] \in Covering(call[j])
        /\ pc[j] = "admit" /\ call[j].kind # "prewarm" => Covering(call[j]) = {}
        /\ pc[j] \in {"unlinkRaw", "pinNew"} => j \in held
        /\ pc[j] = "drop" => victims[j] \cap pins = {}
<1>a. pins \subseteq held /\ \A j \in Job : pc[j] \in Active => Fine(j)
    BY DEF OneAtATime, ActiveJobs
<1>b. ASSUME pins' \subseteq held', \A j \in Job : pc'[j] \in Active => Fine(j)'
      PROVE  OneAtATime'
    BY <1>b DEF OneAtATime, ActiveJobs
\* After a call's step it is active alone, or none is.
<1>c. ASSUME NEW j \in Job, pc[j] \in Active \cup {"idle"}, pc[j] = "idle" => pc'[j] \in Active,
             \A i \in Job \ {j} : pc'[i] = pc[i],
             pins' \subseteq held', pc'[j] \in Active => Fine(j)'
      PROVE  OneAtATime'
    <2>1. \A i \in Job \ {j} : pc'[i] \notin Active
        BY <1>c DEF OneAtATime, ActiveJobs
    <2> QED
        BY <1>b, <1>c, <2>1
<1>1. ASSUME NEW j \in Job, Saved(j) PROVE OneAtATime'
    <2>1. /\ pc[j] = "idle" /\ pc'[j] = IF call[j].kind = "prewarm" THEN "admit" ELSE "list"
          /\ call' = call /\ pins' = pins /\ held' = held
          /\ \A i \in Job \ {j} : pc'[i] = pc[i]
        BY <1>0, <1>1 DEF Saved, TypeOK
    <2> QED
        BY <1>a, <1>c, <2>1 DEF Active
<1>2. ASSUME NEW j \in Job, FindHeld(j) PROVE OneAtATime'
    <2>1. PICK a \in Covering(call[j]) : found' = [found EXCEPT ![j] = a]
        BY <1>2 DEF FindHeld
    <2>2. /\ pc[j] = "list" /\ pc'[j] = "discard" /\ found'[j] = a
          /\ UNCHANGED <<call, held, pins>>
          /\ \A i \in Job \ {j} : pc'[i] = pc[i]
        BY <1>0, <1>2, <2>1 DEF FindHeld, TypeOK
    <2>3. Fine(j)'
        BY <2>1, <2>2 DEF Covering, Of
    <2> QED
        BY <1>a, <1>c, <2>2, <2>3 DEF Active
<1>3. ASSUME NEW j \in Job, FindNothing(j) PROVE OneAtATime'
    <2>1. /\ pc[j] = "list" /\ pc'[j] = "admit" /\ Covering(call[j]) = {}
          /\ UNCHANGED <<call, held, pins>>
          /\ \A i \in Job \ {j} : pc'[i] = pc[i]
        BY <1>0, <1>3 DEF FindNothing, TypeOK
    <2>2. Fine(j)'
        BY <2>1 DEF Covering, Of
    <2> QED
        BY <1>a, <1>c, <2>1, <2>2 DEF Active
<1>4. ASSUME NEW j \in Job, DiscardRaw(j) PROVE OneAtATime'
    <2>1. /\ pc[j] = "discard" /\ pc'[j] \in {"pinHeld", "done"}
          /\ UNCHANGED <<call, held, pins, found>>
          /\ \A i \in Job \ {j} : pc'[i] = pc[i]
        BY <1>0, <1>4 DEF DiscardRaw, TypeOK
    <2>2. Fine(j)'
        BY <1>a, <2>1 DEF Covering, Of, Active
    <2> QED
        BY <1>a, <1>c, <2>1, <2>2 DEF Active
<1>5. ASSUME NEW j \in Job, PinHeld(j) PROVE OneAtATime'
    <2>1. /\ pc[j] = "pinHeld" /\ pc'[j] = "done" /\ held' = held
          /\ pins' = pins \cup {found[j]}
          /\ \A i \in Job \ {j} : pc'[i] = pc[i]
        BY <1>0, <1>5 DEF PinHeld, TypeOK
    <2>2. found[j] \in held
        BY <1>a, <2>1 DEF Covering, Of, Active
    <2> QED
        BY <1>a, <1>c, <2>1, <2>2 DEF Active
<1>6. ASSUME NEW j \in Job, Admit(j) PROVE OneAtATime'
    <2>1. /\ pc[j] = "admit" /\ pc'[j] \in {"unlinkRaw", "done"}
          /\ held' = held \cup {j} /\ pins' = pins
          /\ \A i \in Job \ {j} : pc'[i] = pc[i]
        BY <1>0, <1>6 DEF Admit, TypeOK
    <2> QED
        BY <1>a, <1>c, <2>1 DEF Active
<1>7. ASSUME NEW j \in Job, Refuse(j) PROVE OneAtATime'
    <2>1. /\ pc[j] \in Active /\ pc'[j] = "refused" /\ UNCHANGED <<held, pins>>
          /\ \A i \in Job \ {j} : pc'[i] = pc[i]
        BY <1>0, <1>7 DEF Refuse, TypeOK, Active
    <2> QED
        BY <1>a, <1>c, <2>1 DEF Active
<1>8. ASSUME NEW j \in Job, UnlinkRaw(j) PROVE OneAtATime'
    <2>1. /\ pc[j] = "unlinkRaw" /\ pc'[j] \in {"pinNew", "scan"} /\ UNCHANGED <<held, pins>>
          /\ \A i \in Job \ {j} : pc'[i] = pc[i]
        BY <1>0, <1>8 DEF UnlinkRaw, TypeOK
    <2> QED
        BY <1>a, <1>c, <2>1 DEF Active
<1>9. ASSUME NEW j \in Job, PinNew(j) PROVE OneAtATime'
    <2>1. /\ pc[j] = "pinNew" /\ pc'[j] = "scan" /\ held' = held /\ pins' = pins \cup {j}
          /\ \A i \in Job \ {j} : pc'[i] = pc[i]
        BY <1>0, <1>9 DEF PinNew, TypeOK
    <2>2. j \in held
        BY <1>a, <2>1 DEF Active
    <2> QED
        BY <1>a, <1>c, <2>1, <2>2 DEF Active
<1>10. ASSUME NEW j \in Job, Scan(j) PROVE OneAtATime'
    <2>1. /\ pc[j] = "scan" /\ pc'[j] \in {"drop", "done"} /\ UNCHANGED <<held, pins>>
          /\ victims'[j] = Excess(call[j].model)
          /\ \A i \in Job \ {j} : pc'[i] = pc[i]
        BY <1>0, <1>10 DEF Scan, TypeOK
    <2>2. victims'[j] \cap pins' = {}
        BY <2>1 DEF Excess, Unpinned
    <2> QED
        BY <1>a, <1>c, <2>1, <2>2 DEF Active
<1>11. ASSUME NEW j \in Job, Drop(j) \/ DropFails(j) PROVE OneAtATime'
    <2>1. PICK a \in victims[j] : NextVictim(j, a) /\ held \ {a} \subseteq held'
        BY <1>11 DEF Drop, DropFails
    <2>2. /\ pc[j] = "drop" /\ pc'[j] \in {"drop", "done"} /\ pins' = pins
          /\ victims'[j] \subseteq victims[j]
          /\ \A i \in Job \ {j} : pc'[i] = pc[i]
        BY <1>0, <1>11, <2>1 DEF Drop, DropFails, NextVictim, TypeOK
    <2>3. a \notin pins /\ victims'[j] \cap pins' = {}
        BY <1>a, <2>1, <2>2 DEF Active
    <2> QED
        BY <1>a, <1>c, <2>1, <2>2, <2>3 DEF Active
<1>12. ASSUME Crash PROVE OneAtATime'
    <2>1. /\ UNCHANGED <<call, held, pins, found, victims>>
          /\ \A j \in Job : pc'[j] \in {pc[j], "dead"}
        BY <1>0, <1>12 DEF Crash, TypeOK
    <2>2. \A j \in Job : pc'[j] \in Active => pc[j] = pc'[j]
        BY <2>1 DEF Active
    <2>3. \A j \in Job : pc'[j] \in Active => Fine(j)'
        BY <1>a, <2>1, <2>2 DEF Covering, Of
    <2> QED
        BY <1>a, <1>b, <2>1, <2>3
\* A pin or an unpin command runs while no call does.
<1>13. ASSUME NEW a \in Job, OperatorPin(a) \/ OperatorUnpin(a) PROVE OneAtATime'
    <2>1. pc' = pc /\ held' = held /\ pins' # pins /\ pins' \subseteq held
        BY <1>a, <1>13 DEF OperatorPin, OperatorUnpin
    <2>2. ActiveJobs = {}
        BY <2>1 DEF Overlap
    <2> QED
        BY <1>b, <2>1, <2>2 DEF ActiveJobs
<1>14. CASE UNCHANGED vars
    BY <1>14 DEF vars, OneAtATime, ActiveJobs, Covering, Of
<1> QED
    BY <1>1, <1>2, <1>3, <1>4, <1>5, <1>6, <1>7, <1>8, <1>9, <1>10, <1>11,
       <1>12, <1>13, <1>14 DEF Next, JobStep

\* Such a step does not make a second artifact of one prefix either: what it
\* admits covers a prefix that none covered when the call looked, nor since.
LEMMA StepOnePerPrefix ==
    ASSUME IInv, OneAtATime, serial, OnePerPrefix, [Next]_vars
    PROVE  OnePerPrefix'
<1> USE DEF Goto
<1>0. TypeOK /\ AdmitsOnce
    BY DEF IInv
<1>1. ASSUME NEW j \in Job, Admit(j) PROVE OnePerPrefix'
    <2>1. /\ pc[j] = "admit" /\ held' = held \cup {j} /\ call' = call
          /\ j \in ActiveJobs
        BY <1>1 DEF Admit, ActiveJobs, Active
    <2>2. call[j].kind # "prewarm" => Covering(call[j]) = {}
        BY <2>1 DEF OneAtATime
    <2> QED
        BY <2>1, <2>2 DEF OnePerPrefix, Covering, Of
<1>2. ASSUME held' \subseteq held, call' = call PROVE OnePerPrefix'
    BY <1>2 DEF OnePerPrefix
<1>3. ASSUME NEW j \in Job, Saved(j) \/ FindHeld(j) \/ FindNothing(j) \/ DiscardRaw(j)
                            \/ PinHeld(j) \/ Refuse(j) \/ UnlinkRaw(j) \/ PinNew(j)
                            \/ Scan(j) \/ Drop(j) \/ DropFails(j)
                            \/ OperatorPin(j) \/ OperatorUnpin(j)
      PROVE  OnePerPrefix'
    BY <1>2, <1>3 DEF Saved, FindHeld, FindNothing, DiscardRaw, PinHeld, Refuse, UnlinkRaw,
                      PinNew, Scan, Drop, DropFails, OperatorPin, OperatorUnpin
<1>4. CASE Crash
    BY <1>2, <1>4 DEF Crash
<1>5. CASE UNCHANGED vars
    BY <1>2, <1>5 DEF vars
<1> QED
    BY <1>1, <1>3, <1>4, <1>5 DEF Next, JobStep

\* The invariant of the specification with its history.
LEMMA SerialInvariant == SerialSpec => []SerialInv
<1>1. SerialInit => SerialInv
    <2> SUFFICES ASSUME SerialInit PROVE SerialInv
        OBVIOUS
    <2>1. IInv /\ ActiveJobs = {} /\ pins = {} /\ held = {} /\ serial = TRUE
        BY InitIInv DEF SerialInit, Init, ActiveJobs, Active
    <2> QED
        BY <2>1, FS_EmptySet DEF SerialInv, OneAtATime, OnePerPrefix
<1>2. SerialInv /\ [SerialNext]_<<vars, serial>> => SerialInv'
    <2> SUFFICES ASSUME SerialInv, [SerialNext]_<<vars, serial>> PROVE SerialInv'
        OBVIOUS
    <2>1. [Next]_vars
        BY DEF SerialNext
    <2>2. IInv'
        BY <2>1, StepTypeOK, StepAdmitsOnce, StepVictims, StepEvicted, StepBounded
        DEF SerialInv, IInv
    <2>3. TypeOK /\ TypeOK' /\ IInv /\ IsFiniteSet(ActiveJobs)
        BY <2>2 DEF SerialInv, IInv
    <2>4. /\ IsFiniteSet(ActiveJobs')
          /\ ~(Cardinality(ActiveJobs') > 1) => \A i, j \in ActiveJobs' : i = j
        BY <2>1, <2>3, FewActive
    <2>5. CASE SerialNext
        <3>1. serial' = (serial /\ ~Overlap) /\ serial \in BOOLEAN
            BY <2>5 DEF SerialNext, SerialInv
        <3>2. ASSUME serial' PROVE OneAtATime' /\ OnePerPrefix'
            <4>1. serial /\ ~Overlap
                BY <3>1, <3>2
            <4>2. OneAtATime /\ OnePerPrefix
                BY <4>1 DEF SerialInv
            <4>3. \A i, j \in ActiveJobs' : i = j
                BY <2>4, <4>1 DEF Overlap
            <4>4. OneAtATime'
                BY <2>1, <2>3, <4>1, <4>2, <4>3, StepAlone
            <4> QED
                BY <2>1, <2>3, <4>1, <4>2, <4>4, StepOnePerPrefix
        <3>3. serial' \in BOOLEAN
            BY <3>1
        <3> QED
            BY <2>2, <2>4, <3>2, <3>3 DEF SerialInv
    <2>6. CASE UNCHANGED <<vars, serial>>
        BY <2>2, <2>4, <2>6
        DEF vars, SerialInv, OneAtATime, OnePerPrefix, ActiveJobs, Covering, Of
    <2> QED
        BY <2>5, <2>6
<1> QED
    BY <1>1, <1>2, PTL DEF SerialSpec

\* For calls made one after the other, whatever earlier ones failed or died
\* between their steps, an artifact that is marked is held (pin_artifact,
\* prune_model_artifacts).
THEOREM PinnedStaysHeld == SerialSpec => []PinnedIsHeld
<1>1. SerialInv => PinnedIsHeld
    BY DEF SerialInv, OneAtATime, PinnedIsHeld
<1> QED
    BY <1>1, SerialInvariant, PTL

\* They never leave two held artifacts of one prefix for one model
\* (admit_capture's "already held").
THEOREM HeldOnce == SerialSpec => []OnePerPrefix
<1>1. SerialInv => OnePerPrefix
    BY DEF SerialInv, OnePerPrefix
<1> QED
    BY <1>1, SerialInvariant, PTL

\* They remove a saved state only when a held artifact covers its prefix on its
\* model, or when its admission was refused (admit_capture, the capture loop).
THEOREM OnlyHeldIsDiscarded == SerialSpec => DiscardedWasHeld
<1> DEFINE Covered(j) == \E a \in held : /\ call[a].model = call[j].model
                                         /\ call[a].prefix = call[j].prefix
<1>1. SerialInv /\ [SerialNext]_<<vars, serial>> =>
          [serial' => \A j \in raw \ raw' :
              \/ pc'[j] = "refused"
              \/ \E a \in held : /\ call[a].model = call[j].model
                                 /\ call[a].prefix = call[j].prefix]_<<vars, serial>>
    <2> SUFFICES ASSUME SerialInv, SerialNext, serial', NEW i \in raw \ raw'
                 PROVE  pc'[i] = "refused" \/ Covered(i)
        OBVIOUS
    <2> USE DEF Goto
    <2>0. TypeOK /\ OneAtATime /\ Next
        BY DEF SerialInv, IInv, SerialNext
    <2>1. ASSUME NEW j \in Job, DiscardRaw(j) PROVE Covered(i)
        <3>1. i = j /\ j \in ActiveJobs /\ found[j] \in Covering(call[j])
            BY <2>0, <2>1 DEF DiscardRaw, ActiveJobs, Active, OneAtATime
        <3> QED
            BY <3>1 DEF Covering, Of
    <2>2. ASSUME NEW j \in Job, Refuse(j) PROVE pc'[i] = "refused"
        <3>1. i = j
            BY <2>2 DEF Refuse
        <3> QED
            BY <2>0, <2>2, <3>1 DEF Refuse, TypeOK
    <2>3. ASSUME NEW j \in Job, UnlinkRaw(j) PROVE Covered(i)
        <3>1. i = j /\ j \in ActiveJobs /\ j \in held
            BY <2>0, <2>3 DEF UnlinkRaw, ActiveJobs, Active, OneAtATime
        <3> QED
            BY <3>1
    <2>4. \/ \E j \in Job : DiscardRaw(j) \/ Refuse(j) \/ UnlinkRaw(j)
          \/ raw \subseteq raw'
        BY <2>0 DEF Next, JobStep, Saved, FindHeld, FindNothing, PinHeld, Admit, PinNew,
                    Scan, Drop, DropFails, OperatorPin, OperatorUnpin, Crash
    <2> QED
        BY <2>1, <2>2, <2>3, <2>4
<1> QED
    BY <1>1, SerialInvariant, PTL DEF SerialSpec, DiscardedWasHeld

===============================================================================
