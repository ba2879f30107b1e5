-------------------------- MODULE RestorePathProofs --------------------------
(***************************************************************************)
(* What holds of RestorePath for every number of clients, slots, artifacts *)
(* and live turns, whatever the server answers and whoever hangs up; of    *)
(* the sidecar, whose handlers run it, for every number of requests; and   *)
(* of the capture thread, which runs it too, for every number of restarts. *)
(***************************************************************************)
EXTENDS Sidecar, CaptureLoop, SequenceTheorems, TLAPS

\* What a client waits for at each place.
Awaited == [restoring |-> "restore", probing |-> "probe", clearing |-> "erase",
            repeating |-> "pristine", erasing |-> "erase"]

\* A parked task t of slot s that still has a client is what its client waits for,
\* on its client's slot and for its client's artifact.
IsAwaited(s, t) ==
    /\ t.op \in {"probe", "prefill"} => t.art \in Artifact
    /\ t.by # NoOne => /\ reply[t.by] = "waiting"
                       /\ pc[t.by] \in Waiting
                       /\ s = target[t.by]
                       /\ t.op = Awaited[pc[t.by]]
                       /\ t.op # "erase" => t.art = art[t.by]

TasksAreAwaited ==
    \A s \in Slot : \A i \in DOMAIN queue[s] : IsAwaited(s, queue[s][i])

\* A client has one task parked at most.
OneTaskEach ==
    \A s \in Slot : \A i, k \in DOMAIN queue[s] :
        queue[s][i].by = queue[s][k].by /\ queue[s][i].by # NoOne => i = k

\* A client that waits for nothing has no answer outstanding.
NoStrayReply == \A c \in Client : pc[c] \notin Waiting => reply[c] = "none"

\* A client owns no slot but its own, and that only from the answer to its
\* restore on.
OwnsItsSlot ==
    \A s \in Slot, c \in Client : owner[s] = c =>
        /\ s = target[c]
        /\ pc[c] \notin {"idle", "resolve", "restore"}
        /\ pc[c] = "restoring" => reply[c] # "waiting"

\* What the slot holds that client c owns, at each place in restore().
Accounted(c) ==
    LET a == art[c]
        s == target[c]
        loadedAs(x) == content[s] = x
        reusable == quality[a] = "good"
        reported == quality[a] # "other"
    IN
    /\ pc[c] = "restoring" /\ reply[c] = "done" => loadedAs(Restored(a)) /\ reported
    /\ pc[c] = "verify" => loadedAs(Restored(a)) /\ reported
    /\ pc[c] = "probing" /\ reply[c] = "waiting" => loadedAs(Restored(a)) /\ reported
    /\ pc[c] = "probing" /\ reply[c] = "covered" => loadedAs(Probed(a)) /\ reusable
    /\ pc[c] = "settle" => loadedAs(Probed(a)) /\ reusable
    /\ pc[c] = "clearing" => reusable
    /\ pc[c] = "repeating" => reusable
    /\ pc[c] = "repeating" /\ reply[c] \in {"done", "mismatch"} => loadedAs(Restored(a))
    /\ pc[c] = "erasing" /\ reply[c] = "done" => loadedAs(Empty)
    /\ pc[c] = "ok" => /\ reusable
                       /\ loadedAs(Restored(a)) \/ (gone[c] /\ loadedAs(Probed(a)))
    /\ pc[c] = "refused" => loadedAs(Empty)

OwnedIsAccounted == \A c \in Client : owner[target[c]] = c => Accounted(c)

IInv ==
    /\ TypeOK
    /\ TasksAreAwaited
    /\ OneTaskEach
    /\ NoStrayReply
    /\ OwnsItsSlot
    /\ OwnedIsAccounted

-----------------------------------------------------------------------------
\* The initial state satisfies the inductive invariant.
LEMMA InitIInv == Init => IInv
<1> SUFFICES ASSUME Init PROVE IInv
    OBVIOUS
<1> USE DEF Init, ServerInit, PathInit
<1>1. TypeOK
    BY SizeAssumption, NoOneAssumption
       DEF TypeOK, ServerTypeOK, Content, Empty, Reply, Task
<1>2. TasksAreAwaited /\ OneTaskEach /\ NoStrayReply
    BY DEF TasksAreAwaited, OneTaskEach, NoStrayReply
<1>3. OwnsItsSlot /\ OwnedIsAccounted
    BY NoOneAssumption DEF OwnsItsSlot, OwnedIsAccounted
<1> QED
    BY <1>1, <1>2, <1>3 DEF IInv

-----------------------------------------------------------------------------
\* The contents a restore, a probe and a conversation leave are contents.
LEMMA ContentTypes ==
    /\ Empty \in Content /\ Cut \in Content
    /\ \A a \in Artifact : Restored(a) \in Content /\ Probed(a) \in Content /\ Live(a) \in Content
BY SizeAssumption DEF Content, Empty, Cut, Restored, Probed, Live

\* What running a task leaves and answers.
LEMMA OutcomeTypes ==
    ASSUME ServerTypeOK, NEW s \in Slot, NEW t \in Task,
           t.op \in {"probe", "prefill"} => t.art \in Artifact,
           NEW o \in Outcomes(s, t) \cup {Outcome(content[s], "error")}
    PROVE  o.content \in Content /\ o.reply \in Reply \ {"none", "waiting"}
<1>0. content[s] \in Content /\ held \subseteq Artifact
    BY DEF ServerTypeOK
<1> USE ContentTypes DEF Outcome, Reply
<1>1. CASE o = Outcome(content[s], "error")
    BY <1>0, <1>1
<1>2. CASE o \in Outcomes(s, t) /\ t.op \in {"restore", "pristine"}
    BY <1>0, <1>2 DEF Outcomes
<1>3. CASE o \in Outcomes(s, t) /\ t.op = "erase"
    BY <1>0, <1>3 DEF Outcomes
<1>4. CASE o \in Outcomes(s, t) /\ t.op = "save"
    BY <1>0, <1>4 DEF Outcomes
<1>5. CASE o \in Outcomes(s, t) /\ t.op = "prefill"
    BY <1>0, <1>5 DEF Outcomes
<1>6. CASE o \in Outcomes(s, t) /\ t.op = "probe"
    BY <1>0, <1>6 DEF Outcomes, Findings
<1> QED
    BY <1>1, <1>2, <1>3, <1>4, <1>5, <1>6 DEF Task

-----------------------------------------------------------------------------
\* A client whose request has been answered has no task parked.
LEMMA NothingParked ==
    ASSUME TasksAreAwaited, NEW c \in Client, reply[c] # "waiting"
    PROVE  \A s \in Slot : \A i \in DOMAIN queue[s] : queue[s][i].by # c
BY NoOneAssumption DEF TasksAreAwaited, IsAwaited

\* The i-th task of a slot, if client c posts one more for slot s.
LEMMA QueueAfterPost ==
    ASSUME ServerTypeOK, NEW c \in Client, NEW s \in Slot, NEW t \in Task, NEW u \in Slot
    PROVE  LET q == [queue EXCEPT ![s] = Append(@, t)] IN
           /\ q[u] \in Seq(Task)
           /\ DOMAIN queue[u] = 1..Len(queue[u]) /\ Len(queue[u]) \in Nat
           /\ \A i \in DOMAIN queue[u] : i \in DOMAIN q[u] /\ q[u][i] = queue[u][i]
           /\ u # s => q[u] = queue[u]
           /\ u = s => /\ DOMAIN q[u] = 1..(Len(queue[u]) + 1)
                       /\ q[u][Len(queue[u]) + 1] = t
<1>1. queue[u] \in Seq(Task) /\ queue[s] \in Seq(Task)
    BY DEF ServerTypeOK
<1>2. CASE u = s
    <2>1. [queue EXCEPT ![s] = Append(@, t)][u] = Append(queue[u], t)
        BY <1>2 DEF ServerTypeOK
    <2>2. /\ Append(queue[u], t) \in Seq(Task)
          /\ DOMAIN queue[u] = 1..Len(queue[u]) /\ Len(queue[u]) \in Nat
          /\ DOMAIN Append(queue[u], t) = 1..(Len(queue[u]) + 1)
          /\ \A i \in 1..Len(queue[u]) : Append(queue[u], t)[i] = queue[u][i]
          /\ Append(queue[u], t)[Len(queue[u]) + 1] = t
        BY <1>1
    <2> QED
        BY <1>2, <2>1, <2>2
<1>3. CASE u # s
    <2>1. [queue EXCEPT ![s] = Append(@, t)][u] = queue[u]
        BY <1>3 DEF ServerTypeOK
    <2>2. DOMAIN queue[u] = 1..Len(queue[u]) /\ Len(queue[u]) \in Nat
        BY <1>1
    <2> QED
        BY <1>1, <1>3, <2>1, <2>2
<1> QED
    BY <1>2, <1>3

\* A client that posts its next request keeps the invariant, if what it owns is
\* what the request assumes.
LEMMA PostKeeps ==
    ASSUME IInv, NEW c \in Client, NEW label \in Waiting,
           ThenPost(c, Awaited[label], label),
           reply[c] # "waiting",
           pc[c] \notin {"idle", "resolve"},
           label = "restoring" <=> pc[c] = "restore",
           owner[target[c]] = c =>
               /\ label = "probing" => /\ content[target[c]] = Restored(art[c])
                                       /\ quality[art[c]] # "other"
               /\ label \in {"clearing", "repeating"} => quality[art[c]] = "good"
    PROVE  IInv'
<1> DEFINE op == Awaited[label]
           t == [op |-> op, art |-> IF op = "erase" THEN NoOne ELSE art[c], by |-> c]
<1>0. /\ TypeOK /\ ServerTypeOK /\ TasksAreAwaited /\ OneTaskEach
      /\ NoStrayReply /\ OwnsItsSlot /\ OwnedIsAccounted
    BY DEF IInv, TypeOK
<1>1. /\ queue' = [queue EXCEPT ![target[c]] = Append(@, t)]
      /\ loaded' = TRUE
      /\ reply' = [reply EXCEPT ![c] = "waiting"]
      /\ pc' = [pc EXCEPT ![c] = label]
      /\ UNCHANGED <<content, busy, quality, held, saved, turns, unloads, owner,
                     target, art, gone>>
    BY DEF ThenPost, Post, Touch, Goto, Stay
<1>2. target[c] \in Slot /\ art[c] \in Artifact /\ t \in Task
    BY <1>0 DEF TypeOK, Task, Waiting, Awaited
<1>3. /\ reply' \in [Client -> Reply] /\ reply'[c] = "waiting"
      /\ pc'[c] = label
      /\ \A d \in Client \ {c} : reply'[d] = reply[d] /\ pc'[d] = pc[d]
      /\ pc' \in [Client -> {"idle"} \cup Active \cup Ended]
    BY <1>0, <1>1 DEF TypeOK, ServerTypeOK, Reply, Active
<1>4. queue' \in [Slot -> Seq(Task)]
    BY <1>0, <1>1, <1>2, AppendProperties DEF ServerTypeOK
<1>5. TypeOK'
    BY <1>0, <1>1, <1>3, <1>4 DEF TypeOK, ServerTypeOK
<1>6. ASSUME NEW u \in Slot
      PROVE  /\ queue[u] \in Seq(Task) /\ DOMAIN queue[u] = 1..Len(queue[u])
             /\ Len(queue[u]) \in Nat
             /\ \A k \in DOMAIN queue[u] : /\ queue'[u][k] = queue[u][k]
                                           /\ queue[u][k].by \in (Client \ {c}) \cup {NoOne}
             /\ u # target[c] => queue'[u] = queue[u]
             /\ u = target[c] => /\ DOMAIN queue'[u] = 1..(Len(queue[u]) + 1)
                                 /\ queue'[u][Len(queue[u]) + 1] = t
    <2>1. queue[u] \in Seq(Task)
        BY <1>0 DEF ServerTypeOK
    <2>2. \A k \in DOMAIN queue[u] : queue[u][k] \in Task
        BY <2>1
    <2>3. \A k \in DOMAIN queue[u] : queue[u][k].by # c
        BY <1>0, NothingParked
    <2> QED
        BY <1>0, <1>1, <1>2, <2>1, <2>2, <2>3, QueueAfterPost DEF Task
<1>7. TasksAreAwaited'
    <2> SUFFICES ASSUME NEW u \in Slot, NEW i \in DOMAIN queue'[u]
                 PROVE  IsAwaited(u, queue[u][i])'
        BY DEF TasksAreAwaited
    <2>1. CASE i \in DOMAIN queue[u]
        <3>1. queue'[u][i] = queue[u][i] /\ queue[u][i].by \in (Client \ {c}) \cup {NoOne}
            BY <1>6, <2>1
        <3>2. IsAwaited(u, queue[u][i])
            BY <1>0, <2>1 DEF TasksAreAwaited
        <3> QED
            BY <1>1, <1>3, <3>1, <3>2 DEF IsAwaited
    <2>2. CASE u = target[c] /\ queue'[u][i] = t
        <3>1. /\ t.by = c /\ t.op = Awaited[label] /\ t.op # "prefill"
              /\ t.op # "erase" => t.art = art[c]
            BY DEF Awaited, Waiting
        <3>2. queue'[u][i].by = c /\ target' = target /\ art' = art /\ c # NoOne
            BY <1>1, <2>2, NoOneAssumption
        <3> HIDE DEF t, op
        <3> QED
            BY <1>2, <1>3, <2>2, <3>1, <3>2 DEF IsAwaited
    <2> QED
        BY <1>6, <2>1, <2>2
<1>8. OneTaskEach'
    <2> SUFFICES ASSUME NEW u \in Slot, NEW i \in DOMAIN queue'[u], NEW k \in DOMAIN queue'[u],
                        queue'[u][i].by = queue'[u][k].by, queue'[u][i].by # NoOne
                 PROVE  i = k
        BY DEF OneTaskEach
    <2>1. CASE i \in DOMAIN queue[u] /\ k \in DOMAIN queue[u]
        BY <1>0, <1>6, <2>1 DEF OneTaskEach
    <2>2. CASE u = target[c] /\ i \notin DOMAIN queue[u]
        BY <1>6, <2>2
    <2>3. CASE u = target[c] /\ k \notin DOMAIN queue[u]
        BY <1>6, <2>3
    <2> QED
        BY <1>6, <2>1, <2>2, <2>3
<1>9. NoStrayReply'
    BY <1>0, <1>3 DEF NoStrayReply
<1>10. OwnsItsSlot'
    BY <1>0, <1>1, <1>3 DEF OwnsItsSlot, Waiting
<1>11. OwnedIsAccounted'
    <2> SUFFICES ASSUME NEW d \in Client, owner[target[d]] = d PROVE Accounted(d)'
        BY <1>1 DEF OwnedIsAccounted
    <2>1. CASE d = c
        <3>1. label # "restoring"
            BY <1>0, <2>1 DEF OwnsItsSlot, TypeOK
        <3> QED
            BY <1>1, <1>3, <2>1, <3>1 DEF Accounted, Waiting
    <2>2. CASE d # c
        <3>1. reply'[d] = reply[d] /\ pc'[d] = pc[d] /\ Accounted(d)
            BY <1>0, <1>3, <2>2 DEF OwnedIsAccounted
        <3> QED
            BY <1>1, <3>1 DEF Accounted, Restored, Probed, Empty
    <2> QED
        BY <2>1, <2>2
<1> QED
    BY <1>5, <1>7, <1>8, <1>9, <1>10, <1>11 DEF IInv

\* A client that returns, or goes on to decide, keeps the invariant, if what it owns
\* is what it returns with.
LEMMA ReturnKeeps ==
    ASSUME IInv, NEW c \in Client, NEW ending \in {"verify", "settle"} \cup Ended,
           Return(c, ending),
           reply[c] # "waiting",
           pc[c] \notin {"idle", "resolve", "restore"},
           owner[target[c]] = c => Accounted(c)'
    PROVE  IInv'
<1>0. /\ TypeOK /\ ServerTypeOK /\ TasksAreAwaited /\ OneTaskEach
      /\ NoStrayReply /\ OwnsItsSlot /\ OwnedIsAccounted
    BY DEF IInv, TypeOK
<1>1. /\ reply' = [reply EXCEPT ![c] = "none"]
      /\ pc' = [pc EXCEPT ![c] = ending]
      /\ UNCHANGED <<loaded, content, busy, queue, quality, held, saved, turns, unloads,
                     owner, target, art, gone>>
    BY DEF Return, Goto, Stay
<1>2. /\ reply' \in [Client -> Reply] /\ reply'[c] = "none"
      /\ pc'[c] = ending
      /\ \A d \in Client \ {c} : reply'[d] = reply[d] /\ pc'[d] = pc[d]
      /\ pc' \in [Client -> {"idle"} \cup Active \cup Ended]
    BY <1>0, <1>1 DEF TypeOK, ServerTypeOK, Reply, Active
<1>3. TypeOK'
    BY <1>0, <1>1, <1>2 DEF TypeOK, ServerTypeOK
<1>4. TasksAreAwaited'
    <2>1. \A s \in Slot : \A i \in DOMAIN queue[s] :
             queue[s][i].by \in (Client \ {c}) \cup {NoOne}
        <3>1. \A s \in Slot : \A i \in DOMAIN queue[s] : queue[s][i] \in Task
            BY <1>0 DEF ServerTypeOK
        <3> QED
            BY <1>0, <3>1, NothingParked DEF Task
    <2> QED
        BY <1>0, <1>1, <1>2, <2>1 DEF TasksAreAwaited, IsAwaited
<1>5. NoStrayReply'
    BY <1>0, <1>2 DEF NoStrayReply
<1>6. OwnsItsSlot'
    BY <1>0, <1>1, <1>2 DEF OwnsItsSlot, Ended
<1>7. OwnedIsAccounted'
    <2> SUFFICES ASSUME NEW d \in Client, owner[target[d]] = d, d # c PROVE Accounted(d)'
        BY <1>1 DEF OwnedIsAccounted
    <2>1. reply'[d] = reply[d] /\ pc'[d] = pc[d] /\ Accounted(d)
        BY <1>0, <1>2 DEF OwnedIsAccounted
    <2> QED
        BY <1>1, <2>1 DEF Accounted, Restored, Probed, Empty
<1> QED
    BY <1>0, <1>1, <1>3, <1>4, <1>5, <1>6, <1>7 DEF IInv, OneTaskEach

\* Running a task keeps the invariant: only its own client is answered, and only
\* its own client may own the slot afterwards.
LEMMA RunTaskKeeps ==
    ASSUME IInv, NEW s \in Slot, RunTask(s), UNCHANGED pathVars
    PROVE  IInv'
<1> DEFINE t == Head(queue[s])
<1>0. /\ TypeOK /\ ServerTypeOK /\ TasksAreAwaited /\ OneTaskEach
      /\ NoStrayReply /\ OwnsItsSlot /\ OwnedIsAccounted
    BY DEF IInv, TypeOK
<1>1. /\ queue[s] # <<>>
      /\ queue' = [queue EXCEPT ![s] = Tail(@)]
      /\ UNCHANGED <<loaded, busy, quality, held, turns, unloads, pc, target, art, gone>>
    BY DEF RunTask, pathVars
<1>2. /\ queue[s] \in Seq(Task) /\ Len(queue[s]) \in Nat \ {0}
      /\ t \in Task /\ t = queue[s][1] /\ 1 \in DOMAIN queue[s]
      /\ Tail(queue[s]) \in Seq(Task)
      /\ DOMAIN queue[s] = 1..Len(queue[s])
      /\ DOMAIN Tail(queue[s]) = 1..(Len(queue[s]) - 1)
      /\ \A i \in DOMAIN Tail(queue[s]) : Tail(queue[s])[i] = queue[s][i + 1]
    <2>1. queue[s] \in Seq(Task) /\ queue[s] # <<>>
        BY <1>0, <1>1 DEF ServerTypeOK
    <2> QED
        BY <2>1
<1>3. IsAwaited(s, t)
    BY <1>0, <1>2 DEF TasksAreAwaited
<1>4. PICK o \in Outcomes(s, t) \cup {Outcome(content[s], "error")} :
         /\ content' = [content EXCEPT ![s] = o.content]
         /\ reply' = [c \in Client |-> IF c = t.by THEN o.reply ELSE reply[c]]
         /\ saved' = [c \in Client |->
                IF t.op = "save" /\ c = t.by /\ o.reply = "done" THEN o.content
                                                               ELSE saved[c]]
    BY DEF RunTask
<1>5. owner' = [owner EXCEPT ![s] =
            CASE t.op = "save" -> @
              [] t.op = "restore" -> t.by
              [] t.op = "prefill" -> NoOne
              [] OTHER -> IF @ = t.by THEN @ ELSE NoOne]
    BY DEF RunTask
<1>6. o.content \in Content /\ o.reply \in Reply \ {"none", "waiting"}
    BY <1>0, <1>2, <1>3, <1>4, OutcomeTypes DEF IsAwaited
<1>7. /\ \A u \in Slot \ {s} : /\ queue'[u] = queue[u] /\ content'[u] = content[u]
                               /\ owner'[u] = owner[u]
      /\ queue'[s] = Tail(queue[s]) /\ content'[s] = o.content
      /\ t.op = "save" => owner'[s] = owner[s]
      /\ t.op = "restore" => owner'[s] = t.by
      /\ t.op = "prefill" => owner'[s] = NoOne
      /\ t.op \in {"probe", "erase", "pristine"} =>
            owner'[s] = IF owner[s] = t.by THEN owner[s] ELSE NoOne
    BY <1>0, <1>1, <1>4, <1>5 DEF ServerTypeOK
<1>8. t.op \in {"restore", "probe", "erase", "pristine", "save", "prefill"}
      /\ t.by \in Client \cup {NoOne}
    BY <1>2 DEF Task
<1> HIDE DEF t
<1>9. TypeOK'
    <2>1. content' \in [Slot -> Content] /\ reply' \in [Client -> Reply]
          /\ saved' \in [Client -> Content]
        BY <1>0, <1>4, <1>6 DEF ServerTypeOK
    <2>2. queue' \in [Slot -> Seq(Task)]
        BY <1>0, <1>1, <1>2 DEF ServerTypeOK
    <2>3. owner' \in [Slot -> Client \cup {NoOne}]
        BY <1>0, <1>5, <1>8 DEF ServerTypeOK
    <2> QED
        BY <1>0, <1>1, <2>1, <2>2, <2>3 DEF TypeOK, ServerTypeOK
<1>10. \A i \in DOMAIN queue'[s] : /\ i \in Nat \ {0}
                                   /\ i + 1 \in DOMAIN queue[s]
                                   /\ queue'[s][i] = queue[s][i + 1]
    <2> DEFINE n == Len(queue[s])
    <2>1. DOMAIN queue'[s] = 1..(n - 1) /\ DOMAIN queue[s] = 1..n /\ n \in Nat \ {0}
        BY <1>2, <1>7
    <2>2. ASSUME NEW i \in 1..(n - 1) PROVE queue'[s][i] = queue[s][i + 1]
        BY <1>2, <1>7, <2>2
    <2> HIDE DEF n
    <2>3. \A i \in 1..(n - 1) : i \in Nat \ {0} /\ i + 1 \in 1..n
        BY <2>1
    <2> QED
        BY <2>1, <2>2, <2>3
<1>11. TasksAreAwaited'
    <2> SUFFICES ASSUME NEW u \in Slot, NEW i \in DOMAIN queue'[u]
                 PROVE  IsAwaited(u, queue[u][i])'
        BY DEF TasksAreAwaited
    <2>1. PICK k \in DOMAIN queue[u] : /\ queue'[u][i] = queue[u][k]
                                       /\ u = s => k # 1
        <3>1. CASE u = s
            <4>1. i \in Nat \ {0} /\ i + 1 \in DOMAIN queue[s] /\ queue'[s][i] = queue[s][i + 1]
                BY <1>10, <3>1
            <4>2. i + 1 # 1
                BY <4>1
            <4> QED
                BY <3>1, <4>1, <4>2
        <3>2. CASE u # s
            BY <1>7, <3>2
        <3> QED
            BY <3>1, <3>2
    <2>2. IsAwaited(u, queue[u][k])
        BY <1>0 DEF TasksAreAwaited
    <2>3. queue[u][k].by # NoOne => queue[u][k].by # t.by
        <3>1. CASE u # s
            BY <1>3, <2>2, <3>1 DEF IsAwaited
        <3>2. CASE u = s
            BY <1>0, <1>2, <2>1, <3>2 DEF OneTaskEach
        <3> QED
            BY <3>1, <3>2
    <2>4. queue[u][k].by \in Client \cup {NoOne}
        <3>1. queue[u][k] \in Task
            BY <1>0 DEF ServerTypeOK
        <3> QED
            BY <3>1 DEF Task
    <2> QED
        BY <1>1, <1>4, <2>1, <2>2, <2>3, <2>4 DEF IsAwaited
<1>12. OneTaskEach'
    <2> SUFFICES ASSUME NEW u \in Slot, NEW i \in DOMAIN queue'[u], NEW k \in DOMAIN queue'[u],
                        queue'[u][i].by = queue'[u][k].by, queue'[u][i].by # NoOne
                 PROVE  i = k
        BY DEF OneTaskEach
    <2>1. CASE u = s
        <3>1. /\ i \in Nat /\ k \in Nat
              /\ i + 1 \in DOMAIN queue[s] /\ queue'[s][i] = queue[s][i + 1]
              /\ k + 1 \in DOMAIN queue[s] /\ queue'[s][k] = queue[s][k + 1]
            BY <1>10, <2>1
        <3>2. i + 1 = k + 1
            BY <1>0, <2>1, <3>1 DEF OneTaskEach
        <3> QED
            BY <3>1, <3>2
    <2>2. CASE u # s
        BY <1>0, <1>7, <2>2 DEF OneTaskEach
    <2> QED
        BY <2>1, <2>2
<1>13. NoStrayReply'
    BY <1>0, <1>1, <1>3, <1>4, NoOneAssumption DEF NoStrayReply, IsAwaited
<1>14. OwnsItsSlot'
    <2> SUFFICES ASSUME NEW u \in Slot, NEW d \in Client, owner'[u] = d
                 PROVE  /\ u = target[d]
                        /\ pc[d] \notin {"idle", "resolve", "restore"}
                        /\ pc[d] = "restoring" => reply'[d] # "waiting"
        BY <1>1 DEF OwnsItsSlot
    <2>0. reply'[d] = IF d = t.by THEN o.reply ELSE reply[d]
        BY <1>4
    <2>1. CASE owner[u] = d
        BY <1>0, <1>6, <2>0, <2>1 DEF OwnsItsSlot
    <2>2. CASE owner[u] # d
        <3>1. u = s /\ t.op = "restore" /\ t.by = d
            BY <1>7, <1>8, <2>2, NoOneAssumption
        <3>2. d # NoOne
            BY NoOneAssumption
        <3> QED
            BY <1>3, <1>6, <2>0, <3>1, <3>2 DEF IsAwaited, Awaited, Waiting
    <2> QED
        BY <2>1, <2>2
<1>15. OwnedIsAccounted'
    <2> SUFFICES ASSUME NEW d \in Client, owner'[target[d]] = d PROVE Accounted(d)'
        BY <1>1 DEF OwnedIsAccounted
    <2>0. /\ target[d] \in Slot /\ d # NoOne /\ art[d] \in Artifact
          /\ reply'[d] = IF d = t.by THEN o.reply ELSE reply[d]
        BY <1>0, <1>4, NoOneAssumption DEF TypeOK
    <2>1. CASE d # t.by
        <3>1. owner[target[d]] = d /\ content'[target[d]] = content[target[d]]
            <4>1. CASE target[d] # s
                BY <1>7, <2>0, <4>1
            <4>2. CASE target[d] = s
                <5>1. t.op = "save"
                    BY <1>7, <1>8, <2>0, <2>1, <4>2
                <5>2. o.content = content[s]
                    BY <1>4, <5>1 DEF Outcomes, Outcome
                <5> QED
                    BY <1>7, <4>2, <5>1, <5>2
            <4> QED
                BY <4>1, <4>2
        <3>2. Accounted(d)
            BY <1>0, <3>1 DEF OwnedIsAccounted
        <3> QED
            BY <1>1, <2>0, <2>1, <3>1, <3>2 DEF Accounted, Restored, Probed, Empty
    <2>2. CASE d = t.by
        <3>1. /\ s = target[d] /\ reply[d] = "waiting" /\ pc[d] \in Waiting
              /\ t.op = Awaited[pc[d]] /\ (t.op # "erase" => t.art = art[d])
              /\ reply'[d] = o.reply /\ content'[target[d]] = o.content
            BY <1>3, <1>7, <2>0, <2>2 DEF IsAwaited
        <3>2. CASE pc[d] = "restoring"
            <4>1. t.op = "restore" /\ t.art = art[d]
                BY <3>1, <3>2 DEF Awaited
            <4>2. o.reply = "done" => o.content = Restored(art[d]) /\ quality[art[d]] # "other"
                BY <1>4, <4>1 DEF Outcomes, Outcome
            <4> QED
                BY <1>1, <3>1, <3>2, <4>2 DEF Accounted, Restored, Probed, Empty
        <3>3. CASE pc[d] = "probing"
            <4>1. t.op = "probe" /\ t.art = art[d]
                BY <3>1, <3>3 DEF Awaited
            <4>2. owner[target[d]] = d
                BY <1>7, <2>0, <3>1, <4>1
            <4>3. content[s] = Restored(art[d]) /\ quality[art[d]] # "other"
                BY <1>0, <3>1, <3>3, <4>2 DEF OwnedIsAccounted, Accounted
            <4>4. o.reply = "covered" => o.content = Probed(art[d]) /\ quality[art[d]] = "good"
                <5>1. Outcomes(s, t) = {Outcome(Probed(art[d]), r) : r \in Findings(content[s], art[d])}
                    BY <4>1 DEF Outcomes
                <5>2. Findings(content[s], art[d])
                        = {IF quality[art[d]] = "good" THEN "covered" ELSE "short"}
                    BY <4>3 DEF Findings, Restored, Probed
                <5> QED
                    BY <1>4, <5>1, <5>2 DEF Outcome
            <4> QED
                BY <1>1, <1>6, <3>1, <3>3, <4>4 DEF Accounted, Restored, Probed, Empty
        <3>4. CASE pc[d] \in {"clearing", "erasing"}
            <4>1. t.op = "erase"
                BY <3>1, <3>4 DEF Awaited
            <4>2. owner[target[d]] = d
                BY <1>7, <2>0, <3>1, <4>1
            <4>3. pc[d] = "clearing" => quality[art[d]] = "good"
                BY <1>0, <4>2 DEF OwnedIsAccounted, Accounted
            <4>4. o.reply = "done" => o.content = Empty
                BY <1>4, <4>1 DEF Outcomes, Outcome
            <4> QED
                BY <1>1, <3>1, <3>4, <4>3, <4>4 DEF Accounted, Restored, Probed, Empty
        <3>5. CASE pc[d] = "repeating"
            <4>1. t.op = "pristine" /\ t.art = art[d]
                BY <3>1, <3>5 DEF Awaited
            <4>2. owner[target[d]] = d
                BY <1>7, <2>0, <3>1, <4>1
            <4>3. quality[art[d]] = "good"
                BY <1>0, <3>5, <4>2 DEF OwnedIsAccounted, Accounted
            <4>4. o.reply \in {"done", "mismatch"} => o.content = Restored(art[d])
                BY <1>4, <4>1 DEF Outcomes, Outcome
            <4> QED
                BY <1>1, <3>1, <3>5, <4>3, <4>4 DEF Accounted, Restored, Probed, Empty
        <3> QED
            BY <3>1, <3>2, <3>3, <3>4, <3>5 DEF Waiting
    <2> QED
        BY <2>1, <2>2
<1> QED
    BY <1>9, <1>11, <1>12, <1>13, <1>14, <1>15 DEF IInv

\* A client that stops waiting keeps the invariant: its task stays, for nobody.
LEMMA TimeOutKeeps ==
    ASSUME IInv, NEW c \in Client, TimeOut(c)
    PROVE  IInv'
<1>0. /\ TypeOK /\ ServerTypeOK /\ TasksAreAwaited /\ OneTaskEach
      /\ NoStrayReply /\ OwnsItsSlot /\ OwnedIsAccounted
    BY DEF IInv, TypeOK
<1>1. /\ reply[c] = "waiting" /\ reply' = [reply EXCEPT ![c] = "error"]
      /\ queue' = [s \in Slot |-> [i \in DOMAIN queue[s] |->
            IF queue[s][i].by = c THEN [queue[s][i] EXCEPT !.by = NoOne]
                                  ELSE queue[s][i]]]
      /\ UNCHANGED <<loaded, content, busy, quality, held, saved, turns, unloads,
                     owner, pc, target, art, gone>>
    BY DEF TimeOut, Abandon, pathVars
<1>2. /\ reply' \in [Client -> Reply] /\ reply'[c] = "error"
      /\ \A d \in Client \ {c} : reply'[d] = reply[d]
    BY <1>0, <1>1 DEF ServerTypeOK, Reply
<1>3. ASSUME NEW u \in Slot
      PROVE  /\ DOMAIN queue'[u] = DOMAIN queue[u]
             /\ \A i \in DOMAIN queue[u] :
                  /\ queue[u][i] \in Task /\ queue'[u][i] \in Task
                  /\ queue'[u][i].op = queue[u][i].op /\ queue'[u][i].art = queue[u][i].art
                  /\ queue'[u][i].by = IF queue[u][i].by = c THEN NoOne ELSE queue[u][i].by
             /\ queue'[u] \in Seq(Task)
    <2>1. queue[u] \in Seq(Task)
        BY <1>0 DEF ServerTypeOK
    <2>2. /\ DOMAIN queue[u] = 1..Len(queue[u]) /\ Len(queue[u]) \in Nat
          /\ \A i \in DOMAIN queue[u] : queue[u][i] \in Task
        BY <2>1
    <2>3. queue'[u] = [i \in DOMAIN queue[u] |->
                          IF queue[u][i].by = c THEN [queue[u][i] EXCEPT !.by = NoOne]
                                                ELSE queue[u][i]]
        BY <1>1
    <2>4. ASSUME NEW i \in DOMAIN queue[u]
          PROVE  /\ queue'[u][i] \in Task
                 /\ queue'[u][i].op = queue[u][i].op /\ queue'[u][i].art = queue[u][i].art
                 /\ queue'[u][i].by = IF queue[u][i].by = c THEN NoOne ELSE queue[u][i].by
        BY <2>2, <2>3, <2>4 DEF Task
    <2>5. queue'[u] \in [1..Len(queue[u]) -> Task]
        BY <2>2, <2>3, <2>4
    <2>6. queue'[u] \in Seq(Task)
        BY <2>2, <2>5, IsASeq
    <2> QED
        BY <2>2, <2>3, <2>4, <2>6
<1>4. TypeOK'
    <2>1. queue' \in [Slot -> Seq(Task)]
        BY <1>1, <1>3
    <2> QED
        BY <1>0, <1>1, <1>2, <2>1 DEF TypeOK, ServerTypeOK
<1>5. TasksAreAwaited'
    <2> SUFFICES ASSUME NEW u \in Slot, NEW i \in DOMAIN queue'[u]
                 PROVE  IsAwaited(u, queue[u][i])'
        BY DEF TasksAreAwaited
    <2>1. i \in DOMAIN queue[u] /\ IsAwaited(u, queue[u][i])
        BY <1>0, <1>3 DEF TasksAreAwaited
    <2>2. queue[u][i].by \in Client \cup {NoOne}
        BY <1>3, <2>1 DEF Task
    <2>3. /\ queue'[u][i].op = queue[u][i].op /\ queue'[u][i].art = queue[u][i].art
          /\ queue'[u][i].by # NoOne => /\ queue'[u][i].by = queue[u][i].by
                                        /\ queue'[u][i].by \in Client \ {c}
        BY <1>3, <2>1, <2>2
    <2>4. target' = target /\ art' = art /\ pc' = pc
        BY <1>1
    <2> QED
        BY <1>2, <2>1, <2>3, <2>4 DEF IsAwaited
<1>6. OneTaskEach'
    BY <1>0, <1>3 DEF OneTaskEach
<1>7. NoStrayReply'
    BY <1>0, <1>1, <1>2 DEF NoStrayReply
<1>8. OwnsItsSlot'
    BY <1>0, <1>1, <1>2 DEF OwnsItsSlot
<1>9. OwnedIsAccounted'
    <2> SUFFICES ASSUME NEW d \in Client, owner[target[d]] = d PROVE Accounted(d)'
        BY <1>1 DEF OwnedIsAccounted
    <2>1. Accounted(d)
        BY <1>0 DEF OwnedIsAccounted
    <2>2. d = c => pc[d] \in Waiting
        BY <1>0, <1>1 DEF NoStrayReply
    <2> QED
        BY <1>1, <1>2, <2>1, <2>2 DEF Accounted, Restored, Probed, Empty, Waiting
<1> QED
    BY <1>4, <1>5, <1>6, <1>7, <1>8, <1>9 DEF IInv

\* A live turn that takes a slot takes it from its owner.
LEMMA TurnStartsKeeps ==
    ASSUME IInv, NEW s \in Slot, TurnStarts(s), UNCHANGED pathVars
    PROVE  IInv'
<1>0. /\ TypeOK /\ ServerTypeOK /\ TasksAreAwaited /\ OneTaskEach
      /\ NoStrayReply /\ OwnsItsSlot /\ OwnedIsAccounted
    BY DEF IInv, TypeOK
<1>1. /\ owner' = [owner EXCEPT ![s] = NoOne] /\ busy' = [busy EXCEPT ![s] = TRUE]
      /\ turns < MaxTurns /\ turns' = turns + 1
      /\ \E v \in Conversation : content' = [content EXCEPT ![s] = Live(v)]
      /\ UNCHANGED <<loaded, queue, reply, quality, held, saved, unloads,
                     pc, target, art, gone>>
    BY DEF TurnStarts, pathVars
<1>2. /\ owner' \in [Slot -> Client \cup {NoOne}] /\ content' \in [Slot -> Content]
      /\ owner'[s] = NoOne
      /\ \A u \in Slot \ {s} : owner'[u] = owner[u] /\ content'[u] = content[u]
    BY <1>0, <1>1, ContentTypes, SizeAssumption DEF ServerTypeOK
<1>3. TypeOK'
    BY <1>0, <1>1, <1>2, SizeAssumption DEF TypeOK, ServerTypeOK
<1>4. TasksAreAwaited' /\ OneTaskEach' /\ NoStrayReply'
    BY <1>0, <1>1 DEF TasksAreAwaited, IsAwaited, OneTaskEach, NoStrayReply
<1>5. \A u \in Slot, d \in Client : owner'[u] = d => u # s /\ owner[u] = d
    BY <1>2, NoOneAssumption
<1>6. OwnsItsSlot'
    BY <1>0, <1>1, <1>5 DEF OwnsItsSlot
<1>7. OwnedIsAccounted'
    <2> SUFFICES ASSUME NEW d \in Client, owner'[target[d]] = d PROVE Accounted(d)'
        BY <1>1 DEF OwnedIsAccounted
    <2>1. target[d] \in Slot \ {s} /\ Accounted(d)
        BY <1>0, <1>5 DEF OwnedIsAccounted, TypeOK
    <2> QED
        BY <1>1, <1>2, <2>1 DEF Accounted, Restored, Probed, Empty
<1> QED
    BY <1>3, <1>4, <1>6, <1>7 DEF IInv

\* Unloading the model answers everybody, empties every queue and ends every
\* ownership.
LEMMA UnloadKeeps ==
    ASSUME IInv, Unload, UNCHANGED pathVars
    PROVE  IInv'
<1>0. /\ TypeOK /\ ServerTypeOK /\ TasksAreAwaited /\ OneTaskEach
      /\ NoStrayReply /\ OwnsItsSlot /\ OwnedIsAccounted
    BY DEF IInv, TypeOK
<1>1. /\ owner' = [s \in Slot |-> NoOne] /\ queue' = [s \in Slot |-> <<>>]
      /\ content' = [s \in Slot |-> Empty] /\ loaded' = FALSE
      /\ unloads < MaxUnloads /\ unloads' = unloads + 1
      /\ reply' = [c \in Client |-> IF reply[c] = "waiting" THEN "error" ELSE reply[c]]
      /\ UNCHANGED <<busy, quality, held, saved, turns, pc, target, art, gone>>
    BY DEF Unload, pathVars
<1>2. TypeOK'
    <2>1. /\ content' \in [Slot -> Content] /\ queue' \in [Slot -> Seq(Task)]
          /\ owner' \in [Slot -> Client \cup {NoOne}]
        BY <1>1, ContentTypes
    <2>2. reply' \in [Client -> Reply]
        BY <1>0, <1>1 DEF ServerTypeOK, Reply
    <2>3. unloads' \in 0..MaxUnloads
        BY <1>0, <1>1, SizeAssumption DEF ServerTypeOK
    <2> QED
        BY <1>0, <1>1, <2>1, <2>2, <2>3 DEF TypeOK, ServerTypeOK
<1>3. TasksAreAwaited' /\ OneTaskEach' /\ NoStrayReply'
    BY <1>0, <1>1 DEF TasksAreAwaited, OneTaskEach, NoStrayReply
<1>4. OwnsItsSlot' /\ OwnedIsAccounted'
    BY <1>0, <1>1, NoOneAssumption DEF TypeOK, OwnsItsSlot, OwnedIsAccounted
<1> QED
    BY <1>2, <1>3, <1>4 DEF IInv

\* A step that changes no slot, no queue, no answer and no place in restore().
LEMMA AsideKeeps ==
    ASSUME IInv, TypeOK',
           \A c \in Client : gone[c] => gone'[c],
           UNCHANGED <<content, queue, reply, quality, owner, pc, target, art>>
    PROVE  IInv'
<1>0. /\ TypeOK /\ ServerTypeOK /\ TasksAreAwaited /\ OneTaskEach
      /\ NoStrayReply /\ OwnsItsSlot /\ OwnedIsAccounted
    BY DEF IInv, TypeOK
<1>1. TasksAreAwaited' /\ OneTaskEach' /\ NoStrayReply' /\ OwnsItsSlot'
    BY <1>0 DEF TasksAreAwaited, IsAwaited, OneTaskEach, NoStrayReply, OwnsItsSlot
<1>2. OwnedIsAccounted'
    BY <1>0 DEF OwnedIsAccounted, Accounted, Restored, Probed, Empty
<1> QED
    BY <1>0, <1>1, <1>2 DEF IInv

\* A client that has not posted its restore goes on without a request to a slot.
LEMMA BeforeRestoreKeeps ==
    ASSUME IInv, NEW c \in Client, pc[c] \in {"idle", "resolve"}, TypeOK',
           \E label \in {"resolve", "restore", "refused", "raised"} : Goto(c, label),
           \A d \in Client \ {c} :
              target'[d] = target[d] /\ art'[d] = art[d] /\ gone'[d] = gone[d],
           UNCHANGED <<content, queue, reply, quality, owner>>
    PROVE  IInv'
<1>0. /\ TypeOK /\ ServerTypeOK /\ TasksAreAwaited /\ OneTaskEach
      /\ NoStrayReply /\ OwnsItsSlot /\ OwnedIsAccounted
    BY DEF IInv, TypeOK
<1>1. PICK label \in {"resolve", "restore", "refused", "raised"} :
         pc' = [pc EXCEPT ![c] = label]
    BY DEF Goto
<1>2. pc'[c] = label /\ \A d \in Client \ {c} : pc'[d] = pc[d]
    BY <1>0, <1>1 DEF TypeOK
<1>3. reply[c] = "none" /\ \A s \in Slot : owner[s] # c
    BY <1>0 DEF NoStrayReply, OwnsItsSlot, Waiting
<1>4. TasksAreAwaited'
    <2> SUFFICES ASSUME NEW u \in Slot, NEW i \in DOMAIN queue[u]
                 PROVE  IsAwaited(u, queue[u][i])'
        BY DEF TasksAreAwaited
    <2>1. IsAwaited(u, queue[u][i]) /\ queue[u][i].by # c
        BY <1>0, <1>3, NothingParked DEF TasksAreAwaited
    <2>2. queue[u][i] \in Task
        BY <1>0 DEF ServerTypeOK
    <2>3. queue[u][i].by \in (Client \ {c}) \cup {NoOne}
        BY <2>1, <2>2 DEF Task
    <2> QED
        BY <1>2, <2>1, <2>3 DEF IsAwaited
<1>5. OneTaskEach' /\ NoStrayReply'
    BY <1>0, <1>2, <1>3 DEF OneTaskEach, NoStrayReply
<1>6. OwnsItsSlot'
    BY <1>0, <1>2, <1>3 DEF OwnsItsSlot
<1>7. OwnedIsAccounted'
    <2> SUFFICES ASSUME NEW d \in Client, owner[target'[d]] = d PROVE Accounted(d)'
        BY DEF OwnedIsAccounted
    <2>1. target'[d] \in Slot
        BY DEF TypeOK
    <2>2. d # c
        BY <1>3, <2>1
    <2>3. Accounted(d) /\ pc'[d] = pc[d] /\ target'[d] = target[d]
          /\ art'[d] = art[d] /\ gone'[d] = gone[d]
        BY <1>0, <1>2, <2>2 DEF OwnedIsAccounted
    <2> QED
        BY <2>3 DEF Accounted, Restored, Probed, Empty
<1> QED
    BY <1>4, <1>5, <1>6, <1>7 DEF IInv

\* Each step of restore() keeps the invariant.
LEMMA PathStepKeeps ==
    ASSUME IInv, NEW c \in Client, PathStep(c)
    PROVE  IInv'
<1>0. /\ TypeOK /\ ServerTypeOK /\ NoStrayReply
      /\ owner[target[c]] = c => Accounted(c)
      /\ pc[c] \notin Waiting => reply[c] = "none"
    BY DEF IInv, TypeOK, OwnedIsAccounted, NoStrayReply
<1>1. CASE Resolve(c) \/ RefuseIdentity(c)
    <2>1. /\ pc[c] = "resolve" /\ loaded' = TRUE
          /\ \E label \in {"restore", "refused", "raised"} : Goto(c, label)
          /\ UNCHANGED <<content, busy, queue, reply, quality, held, saved, turns,
                         unloads, owner, target, art, gone>>
        BY <1>1 DEF Resolve, RefuseIdentity, Touch, Stay
    <2>2. pc' \in [Client -> {"idle"} \cup Active \cup Ended]
        BY <1>0, <2>1 DEF TypeOK, Goto, Active, Ended
    <2>3. TypeOK'
        BY <1>0, <2>1, <2>2 DEF TypeOK, ServerTypeOK
    <2> QED
        BY <2>1, <2>3, BeforeRestoreKeeps
<1>2. CASE PostRestore(c)
    <2>1. /\ pc[c] = "restore" /\ reply[c] # "waiting"
          /\ ThenPost(c, Awaited["restoring"], "restoring")
        BY <1>0, <1>2 DEF PostRestore, Answered, Awaited, Waiting
    <2> QED
        BY <2>1, PostKeeps DEF Waiting
<1>3. CASE RestoreMatches(c)
    <2>1. pc[c] = "restoring" /\ reply[c] # "waiting" /\ Return(c, "verify")
        BY <1>0, <1>3 DEF RestoreMatches, Answered, Waiting
    <2>2. owner[target[c]] = c => Accounted(c)'
        BY <1>0, <1>3, <2>1 DEF RestoreMatches, Answered, Return, Goto, Stay, Accounted, TypeOK,
                                Restored, Probed, Empty
    <2> QED
        BY <2>1, <2>2, ReturnKeeps DEF Ended
<1>4. CASE RestoreDiffers(c)
    <2>1. /\ pc[c] = "restoring" /\ reply[c] # "waiting"
          /\ ThenPost(c, Awaited["erasing"], "erasing")
        BY <1>0, <1>4 DEF RestoreDiffers, Answered, Awaited, Waiting
    <2> QED
        BY <2>1, PostKeeps DEF Waiting
<1>5. CASE RestoreRaises(c)
    <2>1. pc[c] = "restoring" /\ reply[c] # "waiting" /\ Return(c, "raised")
        BY <1>0, <1>5 DEF RestoreRaises, Answered, Waiting
    <2>2. owner[target[c]] = c => Accounted(c)'
        BY <1>0, <1>5, <2>1 DEF RestoreRaises, Answered, Return, Goto, Stay, Accounted, TypeOK,
                                Restored, Probed, Empty
    <2> QED
        BY <2>1, <2>2, ReturnKeeps DEF Ended
<1>6. CASE StopBeforeProbe(c)
    <2>1. pc[c] = "verify" /\ reply[c] # "waiting" /\ Return(c, "abandoned")
        BY <1>0, <1>6 DEF StopBeforeProbe, Answered, Waiting
    <2>2. owner[target[c]] = c => Accounted(c)'
        BY <1>0, <1>6, <2>1 DEF StopBeforeProbe, Answered, Return, Goto, Stay, Accounted, TypeOK,
                                Restored, Probed, Empty
    <2> QED
        BY <2>1, <2>2, ReturnKeeps DEF Ended
<1>7. CASE PostProbe(c)
    <2>1. /\ pc[c] = "verify" /\ reply[c] # "waiting"
          /\ ThenPost(c, Awaited["probing"], "probing")
        BY <1>0, <1>7 DEF PostProbe, Answered, Awaited, Waiting
    <2>2. owner[target[c]] = c => content[target[c]] = Restored(art[c]) /\ quality[art[c]] # "other"
        BY <1>0, <2>1 DEF Accounted
    <2> QED
        BY <2>1, <2>2, PostKeeps DEF Waiting
<1>8. CASE ProbeCovers(c)
    <2>1. pc[c] = "probing" /\ reply[c] # "waiting" /\ Return(c, "settle")
        BY <1>0, <1>8 DEF ProbeCovers, Answered, Waiting
    <2>2. owner[target[c]] = c => Accounted(c)'
        BY <1>0, <1>8, <2>1 DEF ProbeCovers, Answered, Return, Goto, Stay, Accounted, TypeOK,
                                Restored, Probed, Empty
    <2> QED
        BY <2>1, <2>2, ReturnKeeps DEF Ended
<1>9. CASE ProbeFails(c)
    <2>1. /\ pc[c] = "probing" /\ reply[c] # "waiting"
          /\ ThenPost(c, Awaited["erasing"], "erasing")
        BY <1>0, <1>9 DEF ProbeFails, Answered, Awaited, Waiting
    <2> QED
        BY <2>1, PostKeeps DEF Waiting
<1>10. CASE ProbeRaises(c)
    <2>1. pc[c] = "probing" /\ reply[c] # "waiting" /\ Return(c, "raised")
        BY <1>0, <1>10 DEF ProbeRaises, Answered, Waiting
    <2>2. owner[target[c]] = c => Accounted(c)'
        BY <1>0, <1>10, <2>1 DEF ProbeRaises, Answered, Return, Goto, Stay, Accounted, TypeOK,
                                Restored, Probed, Empty
    <2> QED
        BY <2>1, <2>2, ReturnKeeps DEF Ended
<1>11. CASE SkipPristine(c)
    <2>1. pc[c] = "settle" /\ reply[c] # "waiting" /\ Return(c, "ok")
        BY <1>0, <1>11 DEF SkipPristine, Answered, Waiting
    <2>2. owner[target[c]] = c => Accounted(c)'
        BY <1>0, <1>11, <2>1 DEF SkipPristine, Answered, Return, Goto, Stay, Accounted, TypeOK,
                                Restored, Probed, Empty
    <2> QED
        BY <2>1, <2>2, ReturnKeeps DEF Ended
<1>12. CASE PostClear(c)
    <2>1. /\ pc[c] = "settle" /\ reply[c] # "waiting"
          /\ ThenPost(c, Awaited["clearing"], "clearing")
        BY <1>0, <1>12 DEF PostClear, Answered, Awaited, Waiting
    <2>2. owner[target[c]] = c => quality[art[c]] = "good"
        BY <1>0, <2>1 DEF Accounted
    <2> QED
        BY <2>1, <2>2, PostKeeps DEF Waiting
<1>13. CASE PostPristine(c)
    <2>1. /\ pc[c] = "clearing" /\ reply[c] # "waiting"
          /\ ThenPost(c, Awaited["repeating"], "repeating")
        BY <1>0, <1>13 DEF PostPristine, Answered, Awaited, Waiting
    <2>2. owner[target[c]] = c => quality[art[c]] = "good"
        BY <1>0, <2>1 DEF Accounted
    <2> QED
        BY <2>1, <2>2, PostKeeps DEF Waiting
<1>14. CASE PristineDone(c)
    <2>1. pc[c] = "repeating" /\ reply[c] # "waiting" /\ Return(c, "ok")
        BY <1>0, <1>14 DEF PristineDone, Answered, Waiting
    <2>2. owner[target[c]] = c => Accounted(c)'
        BY <1>0, <1>14, <2>1 DEF PristineDone, Answered, Return, Goto, Stay, Accounted, TypeOK,
                                Restored, Probed, Empty
    <2> QED
        BY <2>1, <2>2, ReturnKeeps DEF Ended
<1>15. CASE PristineFails(c)
    <2>1. /\ pc[c] \in {"clearing", "repeating"} /\ reply[c] # "waiting"
          /\ ThenPost(c, Awaited["erasing"], "erasing")
        BY <1>0, <1>15 DEF PristineFails, Answered, Awaited, Waiting
    <2> QED
        BY <2>1, PostKeeps DEF Waiting
<1>16. CASE Erased(c)
    <2>1. pc[c] = "erasing" /\ reply[c] # "waiting" /\ Return(c, "refused")
        BY <1>0, <1>16 DEF Erased, Answered, Waiting
    <2>2. owner[target[c]] = c => Accounted(c)'
        BY <1>0, <1>16, <2>1 DEF Erased, Answered, Return, Goto, Stay, Accounted, TypeOK,
                                Restored, Probed, Empty
    <2> QED
        BY <2>1, <2>2, ReturnKeeps DEF Ended
<1>17. CASE EraseFails(c)
    <2>1. pc[c] = "erasing" /\ reply[c] # "waiting" /\ Return(c, "unclean")
        BY <1>0, <1>17 DEF EraseFails, Answered, Waiting
    <2>2. owner[target[c]] = c => Accounted(c)'
        BY <1>0, <1>17, <2>1 DEF EraseFails, Answered, Return, Goto, Stay, Accounted, TypeOK,
                                Restored, Probed, Empty
    <2> QED
        BY <2>1, <2>2, ReturnKeeps DEF Ended
<1> QED
    BY <1>1, <1>2, <1>3, <1>4, <1>5, <1>6, <1>7, <1>8, <1>9, <1>10, <1>11, <1>12, <1>13, <1>14, <1>15, <1>16, <1>17 DEF PathStep

\* Every step keeps the invariant.
LEMMA StepIInv == IInv /\ [Next]_vars => IInv'
<1> SUFFICES ASSUME IInv, [Next]_vars PROVE IInv'
    OBVIOUS
<1>0. TypeOK /\ ServerTypeOK
    BY DEF IInv, TypeOK
<1>1. ASSUME NEW c \in Client, PathStep(c) PROVE IInv'
    BY <1>1, PathStepKeeps
<1>2. ASSUME NEW c \in Client, TimeOut(c) PROVE IInv'
    BY <1>2, TimeOutKeeps
<1>3. ASSUME NEW c \in Client, HangUp(c) PROVE IInv'
    <2>1. gone' = [gone EXCEPT ![c] = TRUE] /\ UNCHANGED <<serverVars, pc, target, art>>
        BY <1>3 DEF HangUp
    <2>2. TypeOK' /\ \A d \in Client : gone[d] => gone'[d]
        BY <1>0, <2>1 DEF TypeOK, ServerTypeOK, serverVars
    <2> QED
        BY <2>1, <2>2, AsideKeeps DEF serverVars
<1>4. ASSUME NEW c \in Client, NEW s \in Slot, NEW a \in Artifact, Call(c, s, a)
      PROVE  IInv'
    <2>1. /\ pc[c] = "idle" /\ Goto(c, "resolve") /\ pc' = [pc EXCEPT ![c] = "resolve"]
          /\ target' = [target EXCEPT ![c] = s] /\ art' = [art EXCEPT ![c] = a]
          /\ gone' = [gone EXCEPT ![c] = FALSE] /\ UNCHANGED serverVars
        BY <1>4 DEF Call, Goto
    <2>2. TypeOK'
        BY <1>0, <2>1 DEF TypeOK, ServerTypeOK, serverVars, Active
    <2>3. \A d \in Client \ {c} :
             target'[d] = target[d] /\ art'[d] = art[d] /\ gone'[d] = gone[d]
        BY <1>0, <2>1 DEF TypeOK
    <2> QED
        BY <2>1, <2>2, <2>3, BeforeRestoreKeeps DEF serverVars
<1>5. ASSUME NEW s \in Slot, RunTask(s) \/ TurnStarts(s), UNCHANGED pathVars PROVE IInv'
    BY <1>5, RunTaskKeeps, TurnStartsKeeps
<1>6. ASSUME NEW s \in Slot, TurnEnds(s), UNCHANGED pathVars PROVE IInv'
    <2>1. TypeOK'
        BY <1>0, <1>6 DEF TurnEnds, TypeOK, ServerTypeOK, pathVars
    <2> QED
        BY <1>6, <2>1, AsideKeeps DEF TurnEnds, pathVars
<1>7. CASE Unload /\ UNCHANGED pathVars
    BY <1>7, UnloadKeeps
<1>8. CASE (Load \/ Evict) /\ UNCHANGED pathVars
    <2>1. TypeOK'
        BY <1>0, <1>8 DEF Load, Evict, TypeOK, ServerTypeOK, pathVars
    <2> QED
        BY <1>8, <2>1, AsideKeeps DEF Load, Evict, pathVars
<1>9. CASE UNCHANGED vars
    <2>1. TypeOK'
        BY <1>0, <1>9 DEF TypeOK, ServerTypeOK, vars, pathVars, serverVars
    <2> QED
        BY <1>9, <2>1, AsideKeeps DEF vars, pathVars, serverVars
<1> QED
    BY <1>1, <1>2, <1>3, <1>4, <1>5, <1>6, <1>7, <1>8, <1>9 DEF Next, ServerStep

\* The inductive invariant holds in every state.
THEOREM Inductive == Spec => []IInv
BY InitIInv, StepIInv, PTL DEF Spec

-----------------------------------------------------------------------------
\* Every variable of the restore path and of the server keeps its type.
THEOREM TypeCorrect == Spec => []TypeOK
<1>1. IInv => TypeOK
    BY DEF IInv
<1> QED
    BY <1>1, Inductive, PTL

\* AdmittedPath.restore() answers ok only for a state the runtime reuses, and while
\* nobody else wrote the slot that state, and nothing more unless its caller hung
\* up, is what the slot holds.
THEOREM OkMeansVerified == Spec => []OkIsVerified
<1>1. IInv => OkIsVerified
    BY DEF IInv, OwnedIsAccounted, Accounted, OkIsVerified
<1> QED
    BY <1>1, Inductive, PTL

\* A restore that AdmittedPath.restore() refuses has left the slot empty, while
\* nobody else wrote it.
THEOREM RefusedMeansErased == Spec => []RefusedIsErased
<1>1. IInv => RefusedIsErased
    BY DEF IInv, OwnedIsAccounted, Accounted, RefusedIsErased
<1> QED
    BY <1>1, Inductive, PTL

-----------------------------------------------------------------------------
(* The entries of _seeds *)

\* The two variables the life of an entry is about have their types.
Typed ==
    /\ hpc \in [Client -> {"idle", "gate", "render", "scan", "yield", "wait", "slots",
                           "ensure", "check", "restoring", "seedSlots", "claim",
                           "register", "post", "prefilling", "reread", "save",
                           "saving", "admit"}]
    /\ seeds \in Client \cup {NoOne}

EInv == Typed /\ SeedEntryIsLive

\* Initially nobody is seeding.
LEMMA InitEInv == SidecarInit => EInv
BY DEF SidecarInit, EInv, Typed, SeedEntryIsLive

\* A handler that goes nowhere near its prefill leaves every entry as it is.
LEMMA ElsewhereKeeps ==
    ASSUME EInv, NEW c \in Client, seeds' = seeds,
           hpc[c] \notin {"post", "prefilling"},
           NEW to \in {"idle", "gate", "render", "scan", "yield", "wait", "slots",
                       "ensure", "check", "restoring", "seedSlots", "claim",
                       "register", "post", "prefilling", "reread", "save",
                       "saving", "admit"},
           hpc' = [hpc EXCEPT ![c] = to]
    PROVE  EInv'
BY NoOneAssumption DEF EInv, Typed, SeedEntryIsLive

\* Each step of a handler keeps the entry of _seeds alive, or removes it.
LEMMA HandlerKeeps ==
    ASSUME EInv, NEW c \in Client, HandlerStep(c)
    PROVE  EInv'
<1>1. CASE Gate(c) \/ GateRefuses(c) \/ Render(c) \/ AskFails(c)
    BY <1>1, ElsewhereKeeps
       DEF Gate, GateRefuses, Render, AskFails, Before, Answer, Only, shared
<1>2. CASE Scan(c)
    BY <1>2, ElsewhereKeeps DEF Scan, Only, shared
<1>3. CASE NothingToYield(c) \/ MakeYield(c) \/ SeedLeft(c) \/ SeedStays(c)
    BY <1>3, ElsewhereKeeps
       DEF NothingToYield, MakeYield, SeedLeft, SeedStays, Before, Answer, Only, shared
<1>4. CASE AnswerAlready(c) \/ AllBusy(c) \/ ChooseSlot(c) \/ Fall(c) \/ Ensure(c)
    BY <1>4, ElsewhereKeeps
       DEF AnswerAlready, AllBusy, ChooseSlot, Fall, Ensure, Before, Answer, Only, shared
<1>5. CASE StartRestore(c) \/ RecordRestore(c) \/ Refused(c)
    BY <1>5, ElsewhereKeeps DEF StartRestore, RecordRestore, Refused, Before, shared
<1>6. CASE ChooseSeedSlot(c) \/ SeedRuns(c) \/ NoSeedRuns(c)
    BY <1>6, ElsewhereKeeps
       DEF ChooseSeedSlot, SeedRuns, NoSeedRuns, Before, Answer, Only, shared
<1>7. CASE Register(c)
    BY <1>7 DEF Register, Before, EInv, Typed, SeedEntryIsLive
<1>8. CASE PostPrefill(c)
    BY <1>8, NoOneAssumption
       DEF PostPrefill, Before, Only, shared, EInv, Typed, SeedEntryIsLive
<1>9. CASE PrefillDone(c) \/ PrefillFails(c)
    BY <1>9 DEF PrefillDone, PrefillFails, Before, EInv, Typed, SeedEntryIsLive
<1>10. CASE SlotHolds(c) \/ SlotLacks(c) \/ PostSeedSave(c) \/ SeedSaved(c)
            \/ SeedSaveFails(c)
    BY <1>10, ElsewhereKeeps
       DEF SlotHolds, SlotLacks, PostSeedSave, SeedSaved, SeedSaveFails, Before, Answer,
           Only, shared
<1>11. CASE SeedAdmit(c) \/ SeedAdmitFails(c)
    BY <1>11, ElsewhereKeeps
       DEF SeedAdmit, SeedAdmitFails, Before, Answer, Only, shared
<1>12. CASE UNCHANGED handlerVars
    BY <1>12 DEF handlerVars, shared, EInv, Typed, SeedEntryIsLive
<1> QED
    BY <1>1, <1>2, <1>3, <1>4, <1>5, <1>6, <1>7, <1>8, <1>9, <1>10, <1>11, <1>12
       DEF HandlerStep

\* Every step keeps it.
LEMMA StepEInv == EInv /\ [SidecarNext]_sidecarVars => EInv'
<1> SUFFICES ASSUME EInv, [SidecarNext]_sidecarVars PROVE EInv'
    OBVIOUS
<1>1. ASSUME NEW c \in Client, Arrive(c) \/ WaitFails(c) PROVE EInv'
    BY <1>1, ElsewhereKeeps DEF Arrive, WaitFails, Before, Answer, Only, shared
<1>2. ASSUME NEW c \in Client, HandlerStep(c) PROVE EInv'
    BY <1>2, HandlerKeeps
<1>3. ASSUME NEW c \in Client, CallerLeaves(c) PROVE EInv'
    BY <1>3 DEF CallerLeaves, handlerVars, shared, EInv, Typed, SeedEntryIsLive
<1>4. ASSUME NEW a \in Artifact, Expire(a) PROVE EInv'
    BY <1>4 DEF Expire, EInv, Typed, SeedEntryIsLive
<1>5. CASE UNCHANGED handlerVars
    BY <1>5 DEF handlerVars, shared, EInv, Typed, SeedEntryIsLive
<1> QED
    BY <1>1, <1>2, <1>3, <1>4, <1>5 DEF SidecarNext, sidecarVars

\* However many seeds are asked for at once, and whichever entry each of them removes,
\* an entry of _seeds is that of a seed which is about to prefill or is prefilling
\* (SidecarServer.seed): none is left behind to refuse every later seed.
THEOREM EntriesAreLive == SidecarSpec => []SeedEntryIsLive
<1>1. EInv => SeedEntryIsLive
    BY DEF EInv
<1> QED
    BY <1>1, InitEInv, StepEInv, PTL DEF SidecarSpec

-----------------------------------------------------------------------------
(* The types *)

\* A parked probe or prefill is for an artifact.
Named == \A s \in Slot : \A i \in DOMAIN queue[s] :
    queue[s][i].op \in {"probe", "prefill"} => queue[s][i].art \in Artifact

ServerOK == ServerTypeOK /\ Named

TInv == SidecarTypeOK /\ Named

Labels == {"idle", "gate", "render", "scan", "yield", "wait", "slots", "ensure", "check",
           "restoring", "seedSlots", "claim", "register", "post", "prefilling", "reread",
           "save", "saving", "admit"}

\* A request for a slot joins its queue.
LEMMA PostTypes ==
    ASSUME ServerOK, NEW c \in Client, NEW s \in Slot, NEW a \in Artifact \cup {NoOne},
           NEW op \in {"restore", "probe", "erase", "pristine", "save", "prefill"},
           op \in {"probe", "prefill"} => a \in Artifact,
           Post(c, s, op, a)
    PROVE  ServerOK'
<1> DEFINE t == [op |-> op, art |-> a, by |-> c]
<1>1. t \in Task /\ (t.op \in {"probe", "prefill"} => t.art \in Artifact)
    BY DEF Task
<1>2. queue' = [queue EXCEPT ![s] = Append(@, t)]
    BY DEF Post
<1> HIDE DEF t
<1>3. ASSUME NEW u \in Slot
      PROVE  /\ queue'[u] \in Seq(Task)
             /\ \A i \in DOMAIN queue'[u] :
                    queue'[u][i].op \in {"probe", "prefill"} => queue'[u][i].art \in Artifact
    <2>1. /\ queue'[u] \in Seq(Task)
          /\ DOMAIN queue[u] = 1..Len(queue[u]) /\ Len(queue[u]) \in Nat
          /\ \A i \in DOMAIN queue[u] : i \in DOMAIN queue'[u] /\ queue'[u][i] = queue[u][i]
          /\ u # s => queue'[u] = queue[u]
          /\ u = s => /\ DOMAIN queue'[u] = 1..(Len(queue[u]) + 1)
                      /\ queue'[u][Len(queue[u]) + 1] = t
        BY <1>1, <1>2, QueueAfterPost DEF ServerOK
    <2>2. \A i \in DOMAIN queue'[u] : i \in DOMAIN queue[u] \/ queue'[u][i] = t
        BY <2>1
    <2> QED
        BY <1>1, <2>1, <2>2 DEF ServerOK, Named
<1>4. queue' \in [Slot -> Seq(Task)]
    BY <1>2, <1>3 DEF ServerOK, ServerTypeOK
<1> QED
    BY <1>3, <1>4 DEF Post, Touch, ServerOK, ServerTypeOK, Named, Reply

\* A slot runs its next task.
LEMMA RunTaskTypes == ASSUME ServerOK, NEW s \in Slot, RunTask(s) PROVE ServerOK'
<1> DEFINE t == Head(queue[s])
<1>1. queue[s] \in Seq(Task) /\ queue[s] # <<>>
    BY DEF ServerOK, ServerTypeOK, RunTask
<1>2. /\ t \in Task /\ t = queue[s][1] /\ 1 \in DOMAIN queue[s]
      /\ Tail(queue[s]) \in Seq(Task)
      /\ DOMAIN Tail(queue[s]) = 1..(Len(queue[s]) - 1)
      /\ DOMAIN queue[s] = 1..Len(queue[s]) /\ Len(queue[s]) \in Nat
      /\ \A i \in DOMAIN Tail(queue[s]) : Tail(queue[s])[i] = queue[s][i + 1]
    BY <1>1
<1>3. t.op \in {"probe", "prefill"} => t.art \in Artifact
    BY <1>2 DEF ServerOK, Named
<1>4. PICK o \in Outcomes(s, t) \cup {Outcome(content[s], "error")} :
         /\ content' = [content EXCEPT ![s] = o.content]
         /\ reply' = [c \in Client |-> IF c = t.by THEN o.reply ELSE reply[c]]
         /\ saved' = [c \in Client |->
                IF t.op = "save" /\ c = t.by /\ o.reply = "done" THEN o.content
                                                               ELSE saved[c]]
    BY DEF RunTask
<1>5. o.content \in Content /\ o.reply \in Reply
    BY <1>2, <1>3, OutcomeTypes DEF ServerOK
<1>6. queue' = [queue EXCEPT ![s] = Tail(queue[s])]
    BY DEF RunTask
<1>7. Named'
    <2> SUFFICES ASSUME NEW u \in Slot, NEW i \in DOMAIN queue'[u],
                        queue'[u][i].op \in {"probe", "prefill"}
                 PROVE  queue'[u][i].art \in Artifact
        BY DEF Named
    <2>1. CASE u = s
        <3>1. queue'[u] = Tail(queue[s])
            BY <1>6, <2>1 DEF ServerOK, ServerTypeOK
        <3>2. i + 1 \in DOMAIN queue[s]
            BY <1>2, <3>1
        <3> QED
            BY <1>2, <3>1, <3>2 DEF ServerOK, Named
    <2>2. CASE u # s
        BY <1>6, <2>2 DEF ServerOK, ServerTypeOK, Named
    <2> QED
        BY <2>1, <2>2
<1>8. owner' \in [Slot -> Client \cup {NoOne}]
    <2>1. t.by \in Client \cup {NoOne}
        BY <1>2 DEF Task
    <2>2. owner' = [owner EXCEPT ![s] =
            CASE t.op = "save" -> @
              [] t.op = "restore" -> t.by
              [] t.op = "prefill" -> NoOne
              [] OTHER -> IF @ = t.by THEN @ ELSE NoOne]
        BY DEF RunTask
    <2>3. owner \in [Slot -> Client \cup {NoOne}]
        BY DEF ServerOK, ServerTypeOK
    <2> HIDE DEF t
    <2> QED
        BY <2>1, <2>2, <2>3
<1>9. /\ queue' \in [Slot -> Seq(Task)] /\ content' \in [Slot -> Content]
      /\ reply' \in [Client -> Reply] /\ saved' \in [Client -> Content]
    <2> HIDE DEF t
    <2> QED
        BY <1>2, <1>4, <1>5, <1>6 DEF ServerOK, ServerTypeOK
<1> QED
    BY <1>7, <1>8, <1>9 DEF RunTask, ServerOK, ServerTypeOK

\* A client stops waiting.
LEMMA AbandonTypes == ASSUME ServerOK, NEW c \in Client, Abandon(c) PROVE ServerOK'
<1>1. queue' = [s \in Slot |-> [i \in DOMAIN queue[s] |->
            IF queue[s][i].by = c THEN [queue[s][i] EXCEPT !.by = NoOne]
                                  ELSE queue[s][i]]]
    BY DEF Abandon
<1>2. ASSUME NEW u \in Slot
      PROVE  /\ queue'[u] \in Seq(Task) /\ DOMAIN queue'[u] = DOMAIN queue[u]
             /\ \A i \in DOMAIN queue[u] : /\ queue'[u][i].op = queue[u][i].op
                                           /\ queue'[u][i].art = queue[u][i].art
    <2>1. queue[u] \in Seq(Task)
        BY DEF ServerOK, ServerTypeOK
    <2>2. /\ DOMAIN queue[u] = 1..Len(queue[u]) /\ Len(queue[u]) \in Nat
          /\ \A i \in DOMAIN queue[u] : queue[u][i] \in Task
        BY <2>1
    <2>3. queue'[u] = [i \in DOMAIN queue[u] |->
                          IF queue[u][i].by = c THEN [queue[u][i] EXCEPT !.by = NoOne]
                                                ELSE queue[u][i]]
        BY <1>1
    <2>4. ASSUME NEW i \in DOMAIN queue[u]
          PROVE  /\ queue'[u][i] \in Task
                 /\ queue'[u][i].op = queue[u][i].op /\ queue'[u][i].art = queue[u][i].art
        BY <2>2, <2>3, <2>4 DEF Task
    <2>5. queue'[u] \in [1..Len(queue[u]) -> Task]
        BY <2>2, <2>3, <2>4
    <2> QED
        BY <2>2, <2>3, <2>4, <2>5, IsASeq
<1>3. queue' \in [Slot -> Seq(Task)] /\ Named'
    BY <1>1, <1>2 DEF ServerOK, Named
<1> QED
    BY <1>3 DEF Abandon, ServerOK, ServerTypeOK, Reply

\* What the server does of itself, or for others.
LEMMA ServerTypes == ASSUME ServerOK, ServerStep PROVE ServerOK'
<1>1. ASSUME NEW s \in Slot, RunTask(s) PROVE ServerOK'
    BY <1>1, RunTaskTypes
<1>2. ASSUME NEW s \in Slot, TurnStarts(s) PROVE ServerOK'
    BY <1>2, ContentTypes, SizeAssumption
       DEF TurnStarts, ServerOK, ServerTypeOK, Named
<1>3. ASSUME NEW s \in Slot, TurnEnds(s) PROVE ServerOK'
    BY <1>3 DEF TurnEnds, ServerOK, ServerTypeOK, Named
<1>4. CASE Unload
    <2>1. Named'
        BY <1>4 DEF Unload, Named
    <2>2. queue' \in [Slot -> Seq(Task)] /\ content' \in [Slot -> Content]
        BY <1>4, ContentTypes DEF Unload
    <2>3. unloads' \in 0..MaxUnloads /\ reply' \in [Client -> Reply]
        BY <1>4, SizeAssumption DEF Unload, ServerOK, ServerTypeOK, Reply
    <2>4. owner' \in [Slot -> Client \cup {NoOne}] /\ loaded' \in BOOLEAN
        BY <1>4 DEF Unload
    <2> QED
        BY <1>4, <2>1, <2>2, <2>3, <2>4 DEF Unload, ServerOK, ServerTypeOK
<1>5. CASE Load \/ Evict
    BY <1>5 DEF Load, Evict, ServerOK, ServerTypeOK, Named
<1> QED
    BY <1>1, <1>2, <1>3, <1>4, <1>5 DEF ServerStep

\* The order of use has each slot once.
Ordered(q) ==
    /\ q \in Seq(Slot)
    /\ \A i, k \in DOMAIN q : q[i] = q[k] => i = k

\* Moving a slot to the end leaves it there, once.
LEMMA MoveKeepsOrder ==
    ASSUME Ordered(lastUsed), NEW s \in Slot
    PROVE  Ordered(MoveToEnd(s))
<1> DEFINE n == Len(lastUsed)
           before == SubSeq(lastUsed, 1, Rank(s) - 1)
           after == SubSeq(lastUsed, Rank(s) + 1, n)
<1>1. /\ lastUsed \in Seq(Slot) /\ n \in Nat /\ DOMAIN lastUsed = 1..n
      /\ \A i \in 1..n : lastUsed[i] \in Slot
      /\ \A i, k \in 1..n : lastUsed[i] = lastUsed[k] => i = k
    BY DEF Ordered
<1>2. CASE \A i \in 1..n : lastUsed[i] # s
    <2>1. Rank(s) = 0
        BY <1>1, <1>2 DEF Rank
    <2>2. before = <<>> /\ after = lastUsed
        <3>1. before \in Seq(Slot) /\ Len(before) = 0
            BY <1>1, <2>1, SubSeqProperties
        <3>2. /\ after \in Seq(Slot) /\ Len(after) = n
              /\ \A i \in 1..n : after[i] = lastUsed[i]
            BY <1>1, <2>1, SubSeqProperties
        <3> HIDE DEF before, after
        <3>3. before = <<>>
            BY <3>1, EmptySeq
        <3>4. after = lastUsed
            BY <1>1, <3>2, SeqEqual
        <3> QED
            BY <3>3, <3>4
    <2>3. MoveToEnd(s) = Append(lastUsed, s)
        <3>1. <<>> \o lastUsed = lastUsed
            BY <1>1, ConcatEmptySeq
        <3> QED
            BY <2>2, <3>1 DEF MoveToEnd
    <2>4. /\ Append(lastUsed, s) \in Seq(Slot) /\ DOMAIN Append(lastUsed, s) = 1..(n + 1)
          /\ \A i \in 1..n : Append(lastUsed, s)[i] = lastUsed[i]
          /\ Append(lastUsed, s)[n + 1] = s
        BY <1>1
    <2> QED
        BY <1>1, <1>2, <2>3, <2>4 DEF Ordered
<1>3. CASE \E i \in 1..n : lastUsed[i] = s
    <2> DEFINE r == Rank(s)
               q == MoveToEnd(s)
    <2>1. r \in 1..n /\ lastUsed[r] = s
        BY <1>1, <1>3 DEF Rank
    <2> HIDE DEF r
    <2>2. /\ before \in Seq(Slot) /\ Len(before) = r - 1
          /\ \A i \in 1..(r - 1) : before[i] = lastUsed[i]
        BY <1>1, <2>1, SubSeqProperties DEF r
    <2>3. /\ after \in Seq(Slot) /\ Len(after) = n - r
          /\ \A i \in 1..(n - r) : after[i] = lastUsed[r + i]
        BY <1>1, <2>1, SubSeqProperties DEF r
    <2> HIDE DEF before, after, n
    <2>4. /\ before \o after \in Seq(Slot) /\ Len(before \o after) = n - 1
          /\ \A i \in 1..(r - 1) : (before \o after)[i] = lastUsed[i]
          /\ \A i \in r..(n - 1) : (before \o after)[i] = lastUsed[i + 1]
        <3>1. /\ before \o after \in Seq(Slot)
              /\ Len(before \o after) = Len(before) + Len(after)
              /\ \A i \in 1..(Len(before) + Len(after)) : (before \o after)[i] =
                      IF i <= Len(before) THEN before[i] ELSE after[i - Len(before)]
            BY <2>2, <2>3, ConcatProperties
        <3>2. Len(before) + Len(after) = n - 1 /\ r \in Nat /\ 1 <= r /\ r <= n
            BY <1>1, <2>1, <2>2, <2>3
        <3>3. \A i \in 1..(r - 1) : (before \o after)[i] = before[i]
            BY <1>1, <2>2, <3>1, <3>2
        <3>4. ASSUME NEW i \in r..(n - 1) PROVE (before \o after)[i] = lastUsed[i + 1]
            <4>1. (before \o after)[i] = after[i - (r - 1)]
                BY <1>1, <2>2, <3>1, <3>2
            <4>2. i - (r - 1) \in 1..(n - r) /\ r + (i - (r - 1)) = i + 1
                BY <1>1, <3>2
            <4> QED
                BY <2>3, <4>1, <4>2
        <3> QED
            BY <2>2, <3>1, <3>2, <3>3, <3>4
    <2>5. q = Append(before \o after, s)
        BY DEF MoveToEnd, before, after, n
    <2>6. /\ q \in Seq(Slot) /\ DOMAIN q = 1..n
          /\ \A i \in 1..(n - 1) : q[i] = (before \o after)[i]
          /\ q[n] = s
        BY <1>1, <2>1, <2>4, <2>5, AppendProperties
    <2> HIDE DEF q
    <2>7. \A i \in 1..n : q[i] = lastUsed[IF i < r THEN i ELSE IF i < n THEN i + 1 ELSE r]
        <3> SUFFICES ASSUME NEW i \in 1..n
                     PROVE  q[i] = lastUsed[IF i < r THEN i ELSE IF i < n THEN i + 1 ELSE r]
            OBVIOUS
        <3>1. CASE i < r
            <4>1. i \in 1..(n - 1) /\ i \in 1..(r - 1)
                BY <1>1, <2>1, <3>1
            <4>2. q[i] = lastUsed[i]
                BY <2>4, <2>6, <4>1
            <4> QED
                BY <3>1, <4>2
        <3>2. CASE i >= r /\ i < n
            <4>1. i \in 1..(n - 1) /\ i \in r..(n - 1) /\ ~(i < r)
                BY <1>1, <2>1, <3>2
            <4>2. q[i] = lastUsed[i + 1]
                BY <2>4, <2>6, <4>1
            <4> QED
                BY <3>2, <4>1, <4>2
        <3>3. CASE i = n
            BY <1>1, <2>1, <2>6, <3>3
        <3> QED
            BY <1>1, <2>1, <3>1, <3>2, <3>3
    <2>8. \A i, k \in 1..n : q[i] = q[k] => i = k
        <3> SUFFICES ASSUME NEW i \in 1..n, NEW k \in 1..n, q[i] = q[k] PROVE i = k
            OBVIOUS
        <3> DEFINE at(j) == IF j < r THEN j ELSE IF j < n THEN j + 1 ELSE r
        <3>1. at(i) \in 1..n /\ at(k) \in 1..n
            BY <1>1, <2>1
        <3>2. lastUsed[at(i)] = lastUsed[at(k)]
            BY <2>7
        <3>3. at(i) = at(k)
            <4> HIDE DEF at
            <4> QED
                BY <1>1, <3>1, <3>2
        <3> QED
            BY <1>1, <2>1, <3>3
    <2> QED
        BY <2>6, <2>8 DEF Ordered, q
<1> QED
    BY <1>1, <1>2, <1>3

\* What the handlers keep, apart from where they are.
SharedOK ==
    /\ target \in [Client -> Slot]
    /\ seeds \in Client \cup {NoOne}
    /\ yielded \in SUBSET Client
    /\ Ordered(lastUsed)

\* Which call each is in, and whether a call of restore() is pending.
PlacesOK ==
    /\ hpc \in [Client -> Labels]
    /\ pc \in [Client -> {"idle"} \cup Active \cup Ended]
    /\ \A c \in Client : hpc[c] = "restoring" <=> pc[c] # "idle"

RestOK ==
    /\ art \in [Client -> Artifact]
    /\ gone \in [Client -> BOOLEAN]
    /\ route \in [Client -> {"restore", "seed"}]
    /\ calls \in [Client -> 0..MaxCalls]
    /\ recent \in [Artifact -> Slot \cup {NoSlot}]

\* The parts are the whole.
LEMMA Parts == TInv <=> ServerOK /\ SharedOK /\ PlacesOK /\ RestOK
BY DEF TInv, SidecarTypeOK, TypeOK, ServerOK, SharedOK, PlacesOK, RestOK, Ordered, Labels

\* And so they are after a step.
LEMMA PartsAfter == TInv' <=> (ServerOK /\ SharedOK /\ PlacesOK /\ RestOK)'
BY DEF TInv, SidecarTypeOK, TypeOK, ServerOK, SharedOK, PlacesOK, RestOK, Ordered, Labels

\* A request that names no slot.
LEMMA AskTypes == ASSUME ServerOK, Ask PROVE ServerOK'
BY DEF Ask, Touch, ServerOK, ServerTypeOK, Named

\* An answer is taken.
LEMMA HeardTypes ==
    ASSUME ServerOK, NEW c \in Client, NEW r \in {"done", "error"}, Heard(c, r)
    PROVE  ServerOK'
BY DEF Heard, ServerOK, ServerTypeOK, Named, Reply

\* A handler that is not in restore() goes on elsewhere.
LEMMA HandlerMoves ==
    ASSUME TInv, ServerOK', SharedOK', NEW c \in Client, hpc[c] # "restoring",
           NEW to \in Labels \ {"restoring"}, hpc' = [hpc EXCEPT ![c] = to],
           UNCHANGED <<pc, art, gone, route, calls, recent>>
    PROVE  TInv'
<1>1. PlacesOK' /\ RestOK'
    BY Parts DEF PlacesOK, RestOK
<1> QED
    BY <1>1, PartsAfter

\* It goes on, and only that.
LEMMA OnlyMoves ==
    ASSUME TInv, ServerOK', Only, NEW c \in Client, hpc[c] # "restoring",
           NEW to \in Labels \ {"restoring"}, hpc' = [hpc EXCEPT ![c] = to]
    PROVE  TInv'
<1>1. SharedOK'
    BY Parts DEF SharedOK, Only, shared, pathVars, Ordered
<1> QED
    BY <1>1, HandlerMoves DEF Only, pathVars, shared

\* A step that leaves the server alone leaves its types.
LEMMA ServerSame == ASSUME ServerOK, UNCHANGED serverVars PROVE ServerOK'
BY DEF serverVars, ServerOK, ServerTypeOK, Named

\* Steps of restore-for-prompt and seed that only read, and go on.
LEMMA ReadTypes ==
    ASSUME TInv, NEW c \in Client,
           \/ Gate(c) \/ GateRefuses(c) \/ Render(c) \/ AskFails(c) \/ Scan(c)
           \/ NothingToYield(c) \/ SeedLeft(c) \/ SeedStays(c) \/ WaitFails(c)
           \/ AnswerAlready(c) \/ AllBusy(c) \/ Fall(c) \/ Ensure(c)
           \/ SeedRuns(c) \/ NoSeedRuns(c) \/ SlotHolds(c) \/ SlotLacks(c)
           \/ SeedAdmitFails(c)
    PROVE  TInv'
<1>1. ServerOK'
    <2>1. Ask \/ UNCHANGED serverVars
        BY DEF Gate, GateRefuses, Render, AskFails, Scan, NothingToYield, SeedLeft, SeedStays,
               WaitFails, AnswerAlready, AllBusy, Fall, Ensure, SeedRuns, NoSeedRuns,
               SlotHolds, SlotLacks, SeedAdmitFails
    <2> QED
        BY <2>1, Parts, AskTypes, ServerSame
<1>2. /\ hpc[c] # "restoring" /\ Only
      /\ \E to \in Labels \ {"restoring"} : hpc' = [hpc EXCEPT ![c] = to]
    BY DEF Gate, GateRefuses, Render, AskFails, Scan, NothingToYield, SeedLeft, SeedStays,
           WaitFails, AnswerAlready, AllBusy, Fall, Ensure, SeedRuns, NoSeedRuns,
           SlotHolds, SlotLacks, SeedAdmitFails, Before, Answer, Labels
<1> QED
    BY <1>1, <1>2, OnlyMoves

\* Steps that choose a slot, or say who is seeding.
LEMMA ChooseTypes ==
    ASSUME TInv, NEW c \in Client,
           ChooseSlot(c) \/ ChooseSeedSlot(c) \/ Register(c) \/ MakeYield(c)
    PROVE  TInv'
<1>0. ServerOK /\ SharedOK
    BY Parts
<1>1. CASE ChooseSlot(c) \/ ChooseSeedSlot(c)
    <2>1. PICK s \in Slot : target' = [target EXCEPT ![c] = s]
        BY <1>1 DEF ChooseSlot, ChooseSeedSlot, ToRestore, ToSeed, IdleSlots, EmptySlots
    <2>2. SharedOK'
        BY <1>0, <1>1, <2>1 DEF ChooseSlot, ChooseSeedSlot, SharedOK, shared, Ordered
    <2>3. ServerOK'
        BY <1>0, <1>1, AskTypes DEF ChooseSlot, ChooseSeedSlot
    <2>4. /\ hpc[c] # "restoring" /\ UNCHANGED <<pc, art, gone, route, calls, recent>>
          /\ \E to \in Labels \ {"restoring"} : hpc' = [hpc EXCEPT ![c] = to]
        BY <1>1 DEF ChooseSlot, ChooseSeedSlot, Before, Labels, shared
    <2> QED
        BY <2>2, <2>3, <2>4, HandlerMoves
<1>2. CASE Register(c)
    <2>1. SharedOK' /\ ServerOK'
        BY <1>0, <1>2, ServerSame DEF Register, vars, pathVars, SharedOK, Ordered
    <2>2. /\ hpc[c] # "restoring" /\ UNCHANGED <<pc, art, gone, route, calls, recent>>
          /\ \E to \in Labels \ {"restoring"} : hpc' = [hpc EXCEPT ![c] = to]
        BY <1>2 DEF Register, Before, Labels, vars, pathVars
    <2> QED
        BY <2>1, <2>2, HandlerMoves
<1>3. CASE MakeYield(c)
    <2>1. seeds \in Client
        BY <1>0, <1>3 DEF MakeYield, SharedOK
    <2>2. SharedOK'
        BY <1>0, <1>3, <2>1 DEF MakeYield, SharedOK, Ordered
    <2>3. ServerOK'
        BY <1>0, <1>3, <2>1, AbandonTypes, ServerSame DEF MakeYield
    <2>4. /\ hpc[c] # "restoring" /\ UNCHANGED <<pc, art, gone, route, calls, recent>>
          /\ \E to \in Labels \ {"restoring"} : hpc' = [hpc EXCEPT ![c] = to]
        BY <1>3 DEF MakeYield, Before, Labels
    <2> QED
        BY <2>2, <2>3, <2>4, HandlerMoves
<1> QED
    BY <1>1, <1>2, <1>3

\* Steps of a seed that speak to the server.
LEMMA SeedTypes ==
    ASSUME TInv, NEW c \in Client,
           \/ PostPrefill(c) \/ PrefillDone(c) \/ PrefillFails(c)
           \/ PostSeedSave(c) \/ SeedSaved(c) \/ SeedSaveFails(c) \/ SeedAdmit(c)
    PROVE  TInv'
<1>0. ServerOK /\ SharedOK /\ target[c] \in Slot /\ art[c] \in Artifact
    BY Parts DEF SharedOK, RestOK
<1>1. CASE PostPrefill(c) \/ PostSeedSave(c)
    <2>1. ServerOK'
        BY <1>0, <1>1, PostTypes DEF PostPrefill, PostSeedSave
    <2>2. /\ hpc[c] # "restoring" /\ Only
          /\ \E to \in Labels \ {"restoring"} : hpc' = [hpc EXCEPT ![c] = to]
        BY <1>1 DEF PostPrefill, PostSeedSave, Before, Labels
    <2> QED
        BY <2>1, <2>2, OnlyMoves
<1>2. CASE SeedSaved(c) \/ SeedSaveFails(c)
    <2>1. ServerOK'
        BY <1>0, <1>2, HeardTypes DEF SeedSaved, SeedSaveFails
    <2>2. /\ hpc[c] # "restoring" /\ Only
          /\ \E to \in Labels \ {"restoring"} : hpc' = [hpc EXCEPT ![c] = to]
        BY <1>2 DEF SeedSaved, SeedSaveFails, Before, Labels
    <2> QED
        BY <2>1, <2>2, OnlyMoves
<1>3. CASE PrefillDone(c) \/ PrefillFails(c)
    <2>1. ServerOK'
        BY <1>0, <1>3, HeardTypes DEF PrefillDone, PrefillFails
    <2>2. SharedOK'
        BY <1>0, <1>3 DEF PrefillDone, PrefillFails, SharedOK, Ordered, pathVars
    <2>3. /\ hpc[c] # "restoring" /\ UNCHANGED <<pc, art, gone, route, calls, recent>>
          /\ \E to \in Labels \ {"restoring"} : hpc' = [hpc EXCEPT ![c] = to]
        BY <1>3 DEF PrefillDone, PrefillFails, Before, Labels, pathVars
    <2> QED
        BY <2>1, <2>2, <2>3, HandlerMoves
<1>4. CASE SeedAdmit(c)
    <2>1. saved[c].of \in Artifact \cup {NoOne}
        BY <1>0 DEF ServerOK, ServerTypeOK, Content
    <2>2. ServerOK'
        BY <1>0, <1>4, <2>1 DEF SeedAdmit, Touch, ServerOK, ServerTypeOK, Named
    <2>3. SharedOK'
        <3>1. Ordered(MoveToEnd(target[c]))
            BY <1>0, MoveKeepsOrder DEF SharedOK
        <3> QED
            BY <1>0, <1>4, <3>1 DEF SeedAdmit, pathVars, SharedOK, Ordered
    <2>4. /\ hpc[c] # "restoring" /\ UNCHANGED <<pc, art, gone, route, calls, recent>>
          /\ \E to \in Labels \ {"restoring"} : hpc' = [hpc EXCEPT ![c] = to]
        BY <1>4 DEF SeedAdmit, Before, Labels, pathVars
    <2> QED
        BY <2>2, <2>3, <2>4, HandlerMoves
<1> QED
    BY <1>1, <1>2, <1>3, <1>4

\* restore() is called, and what it returned is noted.
LEMMA RestoreTypes ==
    ASSUME TInv, NEW c \in Client, StartRestore(c) \/ RecordRestore(c) \/ Refused(c)
    PROVE  TInv'
<1>0. ServerOK /\ SharedOK /\ PlacesOK /\ RestOK
    BY Parts
<1>1. CASE StartRestore(c)
    <2>1. ServerOK'
        BY <1>0, <1>1, AskTypes DEF StartRestore
    <2>2. SharedOK' /\ RestOK'
        BY <1>0, <1>1 DEF StartRestore, SharedOK, RestOK, shared, Ordered
    <2>3. PlacesOK'
        BY <1>0, <1>1 DEF StartRestore, PlacesOK, Before, Goto, Labels, Active
    <2> QED
        BY <2>1, <2>2, <2>3, PartsAfter
<1>2. CASE RecordRestore(c)
    <2>1. ServerOK'
        BY <1>0, <1>2, ServerSame DEF RecordRestore, serverVars
    <2>2. Ordered(MoveToEnd(target[c])) /\ target[c] \in Slot
        BY <1>0, MoveKeepsOrder DEF SharedOK
    <2>3. SharedOK' /\ RestOK'
        BY <1>0, <1>2, <2>2 DEF RecordRestore, SharedOK, RestOK, Ordered
    <2>4. PlacesOK'
        BY <1>0, <1>2 DEF RecordRestore, PlacesOK, Before, Goto, Labels
    <2> QED
        BY <2>1, <2>3, <2>4, PartsAfter
<1>3. CASE Refused(c)
    <2>1. ServerOK'
        BY <1>0, <1>3, ServerSame DEF Refused
    <2>2. SharedOK' /\ RestOK'
        BY <1>0, <1>3 DEF Refused, SharedOK, RestOK, shared, Ordered
    <2>3. PlacesOK'
        BY <1>0, <1>3 DEF Refused, PlacesOK, Before, Goto, Labels
    <2> QED
        BY <2>1, <2>2, <2>3, PartsAfter
<1> QED
    BY <1>1, <1>2, <1>3

\* A step inside restore() stays inside it, or ends it.
LEMMA PathTypes ==
    ASSUME TInv, NEW c \in Client, PathStep(c), UNCHANGED handlerVars
    PROVE  TInv'
<1>0. /\ ServerOK /\ SharedOK /\ PlacesOK /\ RestOK
      /\ target[c] \in Slot /\ art[c] \in Artifact
    BY Parts DEF SharedOK, RestOK
<1>1. ASSUME Stay, pc[c] # "idle", NEW to \in Active \cup Ended, Goto(c, to), ServerOK'
      PROVE  TInv'
    <2>1. SharedOK' /\ RestOK'
        BY <1>0, <1>1 DEF Stay, handlerVars, shared, SharedOK, RestOK, Ordered
    <2>2. to # "idle"
        BY DEF Active, Waiting, Ended
    <2>3. PlacesOK'
        BY <1>0, <1>1, <2>2 DEF Goto, handlerVars, PlacesOK
    <2> QED
        BY <1>1, <2>1, <2>3, PartsAfter
<1>2. ASSUME pc[c] # "idle", NEW ending \in Active \cup Ended, Return(c, ending)
      PROVE  TInv'
    <2>1. ServerOK'
        BY <1>0, <1>2 DEF Return, ServerOK, ServerTypeOK, Named, Reply
    <2> QED
        BY <1>1, <1>2, <2>1 DEF Return
<1>3. ASSUME pc[c] # "idle", NEW op \in {"restore", "probe", "erase", "pristine"},
             NEW label \in Active, ThenPost(c, op, label)
      PROVE  TInv'
    <2>1. ServerOK'
        BY <1>0, <1>3, PostTypes DEF ThenPost
    <2> QED
        BY <1>1, <1>3, <2>1 DEF ThenPost
<1>4. CASE Resolve(c)
    <2>1. ServerOK' /\ "restore" \in Active /\ pc[c] # "idle"
        BY <1>0, <1>4 DEF Resolve, Touch, ServerOK, ServerTypeOK, Named, Active
    <2> QED
        BY <1>1, <1>4, <2>1 DEF Resolve
<1>5. CASE RefuseIdentity(c)
    <2>1. ServerOK' /\ pc[c] # "idle"
        BY <1>0, <1>5 DEF RefuseIdentity, Touch, ServerOK, ServerTypeOK, Named
    <2>2. PICK ending \in {"refused", "raised"} : Goto(c, ending)
        BY <1>5 DEF RefuseIdentity
    <2>3. ending \in Active \cup Ended
        BY DEF Ended
    <2> QED
        BY <1>1, <1>5, <2>1, <2>2, <2>3 DEF RefuseIdentity
<1>6. CASE \/ PostRestore(c) \/ RestoreDiffers(c) \/ PostProbe(c) \/ ProbeFails(c)
           \/ PostClear(c) \/ PostPristine(c) \/ PristineFails(c)
    BY <1>3, <1>6 DEF PostRestore, RestoreDiffers, PostProbe, ProbeFails, PostClear,
                      PostPristine, PristineFails, Answered, Active, Waiting
<1>7. CASE \/ RestoreMatches(c) \/ RestoreRaises(c) \/ StopBeforeProbe(c)
           \/ ProbeCovers(c) \/ ProbeRaises(c) \/ SkipPristine(c) \/ PristineDone(c)
           \/ Erased(c) \/ EraseFails(c)
    BY <1>2, <1>7 DEF RestoreMatches, RestoreRaises, StopBeforeProbe, ProbeCovers,
                      ProbeRaises, SkipPristine, PristineDone, Erased, EraseFails,
                      Answered, Active, Waiting, Ended
<1> QED
    BY <1>4, <1>5, <1>6, <1>7 DEF PathStep

\* Steps that no handler takes in its place.
LEMMA AsideTypes ==
    ASSUME TInv, ServerOK', UNCHANGED handlerVars, UNCHANGED <<pc, target, art>>,
           gone' \in [Client -> BOOLEAN]
    PROVE  TInv'
<1>1. (SharedOK /\ PlacesOK /\ RestOK)'
    BY Parts DEF SharedOK, PlacesOK, RestOK, handlerVars, shared, Ordered
<1> QED
    BY <1>1, PartsAfter

\* At first nobody has asked.
LEMMA InitTInv == SidecarInit => TInv
<1> SUFFICES ASSUME SidecarInit PROVE TInv
    OBVIOUS
<1>1. ServerOK
    BY SizeAssumption, NoOneAssumption
       DEF SidecarInit, ServerInit, ServerOK, ServerTypeOK, Named, Content, Empty, Reply, Task
<1>2. SharedOK /\ PlacesOK /\ RestOK
    <2>1. Ordered(<<>>)
        BY DEF Ordered
    <2> QED
        BY <2>1, SidecarAssumption
           DEF SidecarInit, PathInit, SharedOK, PlacesOK, RestOK, Labels
<1> QED
    BY <1>1, <1>2, Parts

\* Every step keeps the types.
LEMMA StepTInv == TInv /\ [SidecarNext]_sidecarVars => TInv'
<1> SUFFICES ASSUME TInv, [SidecarNext]_sidecarVars PROVE TInv'
    OBVIOUS
<1>0. ServerOK /\ SharedOK /\ PlacesOK /\ RestOK
    BY Parts
<1>1. ASSUME NEW c \in Client, Arrive(c) PROVE TInv'
    <2>1. ServerOK' /\ SharedOK'
        BY <1>0, <1>1, ServerSame DEF Arrive, SharedOK, shared, Ordered
    <2>2. PlacesOK'
        BY <1>0, <1>1 DEF Arrive, Before, PlacesOK, Labels
    <2>3. RestOK'
        BY <1>0, <1>1, SidecarAssumption DEF Arrive, RestOK, shared
    <2> QED
        BY <2>1, <2>2, <2>3, PartsAfter
<1>2. ASSUME NEW c \in Client, CallerLeaves(c) PROVE TInv'
    <2>1. ServerOK' /\ gone' \in [Client -> BOOLEAN]
        BY <1>0, <1>2, ServerSame DEF CallerLeaves, RestOK
    <2> QED
        BY <1>2, <2>1, AsideTypes DEF CallerLeaves
<1>3. ASSUME NEW c \in Client, HandlerStep(c) \/ WaitFails(c) PROVE TInv'
    <2>1. ASSUME TimeOut(c), UNCHANGED handlerVars PROVE TInv'
        BY <1>0, <2>1, AbandonTypes, AsideTypes DEF TimeOut, pathVars, RestOK
    <2> QED
        BY <1>3, <2>1, ReadTypes, ChooseTypes, SeedTypes, RestoreTypes, PathTypes
           DEF HandlerStep
<1>4. ASSUME NEW a \in Artifact, Expire(a) PROVE TInv'
    <2>1. ServerOK' /\ SharedOK' /\ PlacesOK' /\ RestOK'
        BY <1>0, <1>4, ServerSame
           DEF Expire, vars, pathVars, SharedOK, PlacesOK, RestOK, Ordered
    <2> QED
        BY <2>1, PartsAfter
<1>5. ASSUME ServerStep, UNCHANGED <<pathVars, handlerVars>> PROVE TInv'
    BY <1>0, <1>5, ServerTypes, AsideTypes DEF pathVars, RestOK
<1>6. CASE UNCHANGED sidecarVars
    BY <1>0, <1>6, ServerSame, AsideTypes DEF sidecarVars, vars, pathVars, RestOK
<1> QED
    BY <1>1, <1>2, <1>3, <1>4, <1>5, <1>6 DEF SidecarNext

\* Every variable has its type in every reachable state of the sidecar and its server:
\* a call of restore() is pending exactly while its handler waits, and no slot has two
\* places in the order of use that the next choice goes by (_slot_last_used).
THEOREM SidecarTypes == SidecarSpec => []SidecarTypeOK
<1>1. TInv => SidecarTypeOK
    BY DEF TInv
<1> QED
    BY <1>1, InitTInv, StepTInv, PTL DEF SidecarSpec

-----------------------------------------------------------------------------
(* The capture thread, one of the clients of restore(). *)

\* The places where the tick's reading of the slots is in use.
HasRead == {"fresh", "restoring", "choose", "capture", "saving", "admit"}

\* A task of the thread is the one it waits for.
IsOwnTask(s, t) ==
    t.by = Loop =>
        /\ reply[Loop] = "waiting"
        /\ \/ lpc = "saving" /\ t.op = "save"
           \/ /\ lpc = "restoring" /\ s = target[Loop] /\ t.op # "save"
              /\ t.op \in {"restore", "pristine"} => t.art = art[Loop]
              /\ t.op = "restore" => pc[Loop] = "restoring"

TasksAreOwn ==
    \A s \in Slot : \A i \in DOMAIN queue[s] :
        /\ queue[s][i].op \in {"probe", "prefill"} => queue[s][i].art \in Artifact
        /\ IsOwnTask(s, queue[s][i])

OneTaskParked ==
    \A s, u \in Slot : \A i \in DOMAIN queue[s], k \in DOMAIN queue[u] :
        queue[s][i].by = Loop /\ queue[u][k].by = Loop => s = u /\ i = k

\* The thread waits only in its save and in restore().
WaitsInPlace ==
    reply[Loop] = "waiting" =>
        lpc = "saving" \/ (lpc = "restoring" /\ pc[Loop] \in Waiting)

\* Slot s holds a prefix that the thread itself restored.
HoldsOwn(s) == owner[s] = Loop /\ content[s].kind = "prefix"

PrefixesHaveTokens == \A s \in Slot : content[s].kind = "prefix" => content[s].n > 0

\* The places in restore() from the answer to the restore on.
Answers == {"verify", "probing", "settle", "clearing", "repeating", "ok"}

\* restore() is called for a slot read as empty, whose account is open; from the
\* answer to the restore on, a prefix there is the one asked for.
RestoresIntoVacant ==
    lpc = "restoring" =>
        LET s == target[Loop] IN
        /\ snap[s].n = 0 /\ s \notin mine
        /\ \/ pc[Loop] \in Answers
           \/ pc[Loop] = "restoring" /\ reply[Loop] = "done"
           => (HoldsOwn(s) => content[s] = Restored(art[Loop]))

\* The reading is still true of a slot that is the thread's own, unless the thread
\* has restored into it since, which it does into empty ones only.
ReadingHolds ==
    lpc \in HasRead =>
        \A s \in Slot : owner[s] = Loop /\ (lpc = "fresh" \/ snap[s].n > 0) => content[s] = snap[s]

\* What it restored is accounted for, and not among the candidates.
OwnIsSeen == \A s \in mine : HoldsOwn(s) => content[s].n \in seen

OwnIsNoCandidate ==
    lpc \in {"capture", "saving", "admit"} => \A s \in todo \cap mine : ~HoldsOwn(s)

History == /\ PrefixesHaveTokens /\ RestoresIntoVacant /\ ReadingHolds
           /\ OwnIsSeen /\ OwnIsNoCandidate

LInv == LoopTypeOK /\ TasksAreOwn /\ OneTaskParked /\ WaitsInPlace /\ History

-----------------------------------------------------------------------------
\* The initial state satisfies the inductive invariant.
LEMMA InitLInv == LoopInit => LInv
<1> SUFFICES ASSUME LoopInit PROVE LInv
    OBVIOUS
<1> USE DEF LoopInit, ServerInit, PathInit
<1>0. Empty \in Content
    BY DEF Empty, Content
<1>1. LoopTypeOK
    BY <1>0, SizeAssumption, NoOneAssumption, LoopAssumption
       DEF LoopTypeOK, TypeOK, ServerTypeOK, Reply, Task
<1>2. TasksAreOwn /\ OneTaskParked /\ WaitsInPlace
    BY LoopAssumption DEF TasksAreOwn, OneTaskParked, WaitsInPlace
<1>3. History
    BY LoopAssumption, NoOneAssumption
       DEF History, PrefixesHaveTokens, RestoresIntoVacant, ReadingHolds, OwnIsSeen,
           OwnIsNoCandidate, HoldsOwn, HasRead, Empty
<1> QED
    BY <1>1, <1>2, <1>3 DEF LInv

\* A step that leaves the thread's variables alone, takes its slots only from it and
\* changes nothing in those it keeps.
LEMMA HistoryKeeps ==
    ASSUME History, LoopTypeOK, UNCHANGED loopOnly,
           \A s \in Slot : owner'[s] = Loop => owner[s] = Loop /\ content'[s] = content[s],
           PrefixesHaveTokens',
           lpc = "restoring" =>
               /\ target' = target /\ art' = art
               /\ pc'[Loop] \in Answers
                     => \/ pc[Loop] \in Answers
                        \/ pc[Loop] = "restoring" /\ reply[Loop] = "done"
               /\ pc'[Loop] = "restoring" /\ reply'[Loop] = "done"
                     => pc[Loop] = "restoring" /\ reply[Loop] = "done"
    PROVE  History'
<1>0. target[Loop] \in Slot /\ mine \subseteq Slot /\ todo \subseteq Slot
    BY LoopAssumption DEF LoopTypeOK, TypeOK
<1>1. UNCHANGED <<lpc, snap, mine, seen, todo>>
    BY DEF loopOnly, memory, reading
<1>2. \A s \in Slot : HoldsOwn(s)' => HoldsOwn(s) /\ content'[s] = content[s]
    BY DEF HoldsOwn
<1>3. RestoresIntoVacant'
    BY <1>0, <1>1, <1>2 DEF History, RestoresIntoVacant, Restored
<1>4. ReadingHolds' /\ OwnIsSeen' /\ OwnIsNoCandidate'
    BY <1>0, <1>1, <1>2 DEF History, ReadingHolds, OwnIsSeen, OwnIsNoCandidate
<1> QED
    BY <1>3, <1>4 DEF History

-----------------------------------------------------------------------------
(* The server *)

\* What a task may leave: a prefix only if it is a restore, or was there before; and
\* a restore that is reported done leaves its artifact.
LEMMA OutcomeFacts ==
    ASSUME ServerTypeOK, NEW s \in Slot, NEW t \in Task,
           t.op \in {"probe", "prefill"} => t.art \in Artifact,
           NEW o \in Outcomes(s, t) \cup {Outcome(content[s], "error")}
    PROVE  /\ o.content \in Content /\ o.reply \in Reply \ {"none", "waiting"}
           /\ t.op = "save" => o.content = content[s]
           /\ o.content.kind = "prefix" =>
                \/ o.content = content[s] /\ (o.reply = "error" \/ t.op = "save")
                \/ /\ t.op \in {"restore", "pristine"} /\ t.art \in Artifact
                   /\ o.content = Restored(t.art)
<1>0. content[s] \in Content /\ held \subseteq Artifact
    BY DEF ServerTypeOK
<1> USE ContentTypes DEF Outcome, Reply
<1>1. CASE o = Outcome(content[s], "error")
    BY <1>0, <1>1
<1>2. CASE o \in Outcomes(s, t) /\ t.op \in {"restore", "pristine"}
    BY <1>0, <1>2 DEF Outcomes, Empty
<1>3. CASE o \in Outcomes(s, t) /\ t.op = "erase"
    BY <1>0, <1>3 DEF Outcomes, Empty
<1>4. CASE o \in Outcomes(s, t) /\ t.op = "save"
    BY <1>0, <1>4 DEF Outcomes
<1>5. CASE o \in Outcomes(s, t) /\ t.op = "prefill"
    BY <1>0, <1>5 DEF Outcomes, Live, Cut
<1>6. CASE o \in Outcomes(s, t) /\ t.op = "probe"
    BY <1>0, <1>6 DEF Outcomes, Findings, Probed
<1> QED
    BY <1>1, <1>2, <1>3, <1>4, <1>5, <1>6 DEF Task

\* A task that a slot runs: the rest of the queues, and what it leaves.
LEMMA RunTaskFacts ==
    ASSUME LInv, NEW s \in Slot, RunTask(s)
    PROVE  \E t \in Task, o \in [content : Content, reply : Reply \ {"none", "waiting"}] :
        /\ t = queue[s][1] /\ 1 \in DOMAIN queue[s]
        /\ o \in Outcomes(s, t) \cup {Outcome(content[s], "error")}
        /\ ServerTypeOK'
        /\ reply'[Loop] = IF t.by = Loop THEN o.reply ELSE reply[Loop]
        /\ content'[s] = o.content
        /\ t.op = "save" => owner'[s] = owner[s]
        /\ t.op # "save" => (owner'[s] = Loop => t.by = Loop)
        /\ t.op # "save" /\ t.op # "restore" => (owner'[s] = Loop => owner[s] = Loop)
        /\ \A u \in Slot \ {s} : /\ queue'[u] = queue[u] /\ content'[u] = content[u]
                                 /\ owner'[u] = owner[u]
        /\ \A i \in DOMAIN queue'[s] : /\ i \in Nat \ {0} /\ i + 1 \in DOMAIN queue[s]
                                       /\ queue'[s][i] = queue[s][i + 1]
<1> DEFINE t == Head(queue[s])
<1>0. ServerTypeOK /\ TasksAreOwn /\ Loop \in Client /\ Loop # NoOne
    BY LoopAssumption, NoOneAssumption DEF LInv, LoopTypeOK, TypeOK
<1>1. /\ queue[s] # <<>>
      /\ queue' = [queue EXCEPT ![s] = Tail(@)]
      /\ UNCHANGED <<loaded, busy, quality, held, turns, unloads>>
    BY DEF RunTask
<1>2. /\ queue[s] \in Seq(Task) /\ Len(queue[s]) \in Nat \ {0}
      /\ t \in Task /\ t = queue[s][1] /\ 1 \in DOMAIN queue[s]
      /\ Tail(queue[s]) \in Seq(Task)
      /\ DOMAIN queue[s] = 1..Len(queue[s])
      /\ DOMAIN Tail(queue[s]) = 1..(Len(queue[s]) - 1)
      /\ \A i \in DOMAIN Tail(queue[s]) : Tail(queue[s])[i] = queue[s][i + 1]
    <2>1. queue[s] \in Seq(Task) /\ queue[s] # <<>>
        BY <1>0, <1>1 DEF ServerTypeOK
    <2> QED
        BY <2>1
<1>3. t.op \in {"probe", "prefill"} => t.art \in Artifact
    BY <1>0, <1>2 DEF TasksAreOwn
<1>4. PICK o \in Outcomes(s, t) \cup {Outcome(content[s], "error")} :
         /\ content' = [content EXCEPT ![s] = o.content]
         /\ reply' = [c \in Client |-> IF c = t.by THEN o.reply ELSE reply[c]]
         /\ saved' = [c \in Client |->
                IF t.op = "save" /\ c = t.by /\ o.reply = "done" THEN o.content
                                                               ELSE saved[c]]
    BY DEF RunTask
<1>5. owner' = [owner EXCEPT ![s] =
            CASE t.op = "save" -> @
              [] t.op = "restore" -> t.by
              [] t.op = "prefill" -> NoOne
              [] OTHER -> IF @ = t.by THEN @ ELSE NoOne]
    BY DEF RunTask
<1>6. o.content \in Content /\ o.reply \in Reply \ {"none", "waiting"}
    BY <1>0, <1>2, <1>3, <1>4, OutcomeFacts
<1>7. /\ \A u \in Slot \ {s} : /\ queue'[u] = queue[u] /\ content'[u] = content[u]
                               /\ owner'[u] = owner[u]
      /\ queue'[s] = Tail(queue[s]) /\ content'[s] = o.content
      /\ t.op = "save" => owner'[s] = owner[s]
      /\ t.op = "restore" => owner'[s] = t.by
      /\ t.op = "prefill" => owner'[s] = NoOne
      /\ t.op \in {"probe", "erase", "pristine"} =>
            owner'[s] = IF owner[s] = t.by THEN owner[s] ELSE NoOne
    BY <1>0, <1>1, <1>4, <1>5 DEF ServerTypeOK
<1>8. t.op \in {"restore", "probe", "erase", "pristine", "save", "prefill"}
      /\ t.by \in Client \cup {NoOne}
    BY <1>2 DEF Task
<1>9. o \in [content : Content, reply : Reply \ {"none", "waiting"}]
    <2>1. o = [content |-> o.content, reply |-> o.reply]
        BY <1>4, <1>8 DEF Outcomes, Outcome
    <2> QED
        BY <1>6, <2>1
<1> HIDE DEF t
<1>10. ServerTypeOK'
    <2>1. content' \in [Slot -> Content] /\ reply' \in [Client -> Reply]
          /\ saved' \in [Client -> Content]
        BY <1>0, <1>4, <1>6 DEF ServerTypeOK
    <2>2. queue' \in [Slot -> Seq(Task)]
        BY <1>0, <1>1, <1>2 DEF ServerTypeOK
    <2>3. owner' \in [Slot -> Client \cup {NoOne}]
        BY <1>0, <1>5, <1>8 DEF ServerTypeOK
    <2> QED
        BY <1>0, <1>1, <2>1, <2>2, <2>3 DEF ServerTypeOK
<1>11. \A i \in DOMAIN queue'[s] : /\ i \in Nat \ {0}
                                   /\ i + 1 \in DOMAIN queue[s]
                                   /\ queue'[s][i] = queue[s][i + 1]
    <2> DEFINE n == Len(queue[s])
    <2>1. DOMAIN queue'[s] = 1..(n - 1) /\ DOMAIN queue[s] = 1..n /\ n \in Nat \ {0}
        BY <1>2, <1>7
    <2>2. ASSUME NEW i \in 1..(n - 1) PROVE queue'[s][i] = queue[s][i + 1]
        BY <1>2, <1>7, <2>2
    <2> HIDE DEF n
    <2>3. \A i \in 1..(n - 1) : i \in Nat \ {0} /\ i + 1 \in 1..n
        BY <2>1
    <2> QED
        BY <2>1, <2>2, <2>3
<1>12. /\ reply'[Loop] = IF t.by = Loop THEN o.reply ELSE reply[Loop]
       /\ t.op # "save" => (owner'[s] = Loop => t.by = Loop)
       /\ t.op # "save" /\ t.op # "restore" => (owner'[s] = Loop => owner[s] = Loop)
    BY <1>0, <1>4, <1>7, <1>8
<1> QED
    BY <1>2, <1>4, <1>7, <1>9, <1>10, <1>11, <1>12

\* Running a task, the thread's own or another's, keeps the invariant.
LEMMA LoopRunTaskKeeps ==
    ASSUME LInv, NEW s \in Slot, RunTask(s), UNCHANGED <<pathVars, loopOnly>>
    PROVE  LInv'
<1>0. /\ LoopTypeOK /\ TypeOK /\ ServerTypeOK /\ TasksAreOwn /\ OneTaskParked
      /\ WaitsInPlace /\ History /\ Loop \in Client /\ Loop # NoOne
    BY LoopAssumption, NoOneAssumption DEF LInv, LoopTypeOK, TypeOK
<1>1. UNCHANGED <<pc, target, art, gone, lpc, snap, sbusy, todo, cand, seen, warmed, refusedFor,
                  captured, mine, restarts>>
    BY DEF pathVars, loopOnly, memory, reading
<1>2. PICK t \in Task, o \in [content : Content, reply : Reply \ {"none", "waiting"}] :
        /\ t = queue[s][1] /\ 1 \in DOMAIN queue[s]
        /\ o \in Outcomes(s, t) \cup {Outcome(content[s], "error")}
        /\ ServerTypeOK'
        /\ reply'[Loop] = IF t.by = Loop THEN o.reply ELSE reply[Loop]
        /\ content'[s] = o.content
        /\ t.op = "save" => owner'[s] = owner[s]
        /\ t.op # "save" => (owner'[s] = Loop => t.by = Loop)
        /\ t.op # "save" /\ t.op # "restore" => (owner'[s] = Loop => owner[s] = Loop)
        /\ \A u \in Slot \ {s} : /\ queue'[u] = queue[u] /\ content'[u] = content[u]
                                 /\ owner'[u] = owner[u]
        /\ \A i \in DOMAIN queue'[s] : /\ i \in Nat \ {0} /\ i + 1 \in DOMAIN queue[s]
                                       /\ queue'[s][i] = queue[s][i + 1]
    BY RunTaskFacts
<1>3. LoopTypeOK'
    BY <1>0, <1>1, <1>2 DEF LoopTypeOK, TypeOK
<1>4. IsOwnTask(s, t) /\ (t.op \in {"probe", "prefill"} => t.art \in Artifact)
    BY <1>0, <1>2 DEF TasksAreOwn
<1>5. ASSUME NEW u \in Slot, NEW i \in DOMAIN queue'[u]
      PROVE  \E k \in DOMAIN queue[u] : /\ queue'[u][i] = queue[u][k]
                                        /\ u = s => k # 1 /\ k = i + 1 /\ i \in Nat
                                        /\ u # s => k = i
    <2>1. CASE u = s
        <3>1. i \in Nat \ {0} /\ i + 1 \in DOMAIN queue[s] /\ queue'[s][i] = queue[s][i + 1]
            BY <1>2, <2>1
        <3>2. i + 1 # 1
            BY <3>1
        <3> QED
            BY <2>1, <3>1, <3>2
    <2>2. CASE u # s
        BY <1>2, <2>2
    <2> QED
        BY <2>1, <2>2
<1>6. TasksAreOwn'
    <2> SUFFICES ASSUME NEW u \in Slot, NEW i \in DOMAIN queue'[u]
                 PROVE  /\ queue'[u][i].op \in {"probe", "prefill"} => queue'[u][i].art \in Artifact
                        /\ IsOwnTask(u, queue[u][i])'
        BY DEF TasksAreOwn
    <2>1. PICK k \in DOMAIN queue[u] : queue'[u][i] = queue[u][k] /\ (u = s => k # 1)
        BY <1>5
    <2>2. /\ queue[u][k].op \in {"probe", "prefill"} => queue[u][k].art \in Artifact
          /\ IsOwnTask(u, queue[u][k])
        BY <1>0 DEF TasksAreOwn
    <2>3. queue[u][k].by = Loop => t.by # Loop
        BY <1>0, <1>2, <2>1 DEF OneTaskParked
    <2>4. queue[u][k].by = Loop => reply'[Loop] = reply[Loop]
        BY <1>2, <2>3
    <2> QED
        BY <1>1, <2>1, <2>2, <2>4 DEF IsOwnTask
<1>7. OneTaskParked'
    <2> SUFFICES ASSUME NEW u \in Slot, NEW v \in Slot,
                        NEW i \in DOMAIN queue'[u], NEW k \in DOMAIN queue'[v],
                        queue'[u][i].by = Loop, queue'[v][k].by = Loop
                 PROVE  u = v /\ i = k
        BY DEF OneTaskParked
    <2>1. PICK x \in DOMAIN queue[u] : /\ queue'[u][i] = queue[u][x]
                                       /\ u = s => x = i + 1 /\ i \in Nat
                                       /\ u # s => x = i
        BY <1>5
    <2>2. PICK y \in DOMAIN queue[v] : /\ queue'[v][k] = queue[v][y]
                                       /\ v = s => y = k + 1 /\ k \in Nat
                                       /\ v # s => y = k
        BY <1>5
    <2>3. u = v /\ x = y
        BY <1>0, <2>1, <2>2 DEF OneTaskParked
    <2> QED
        BY <2>1, <2>2, <2>3
<1>8. WaitsInPlace'
    BY <1>0, <1>1, <1>2 DEF WaitsInPlace
<1>9. /\ t.op = "save" => o.content = content[s]
      /\ o.content.kind = "prefix" =>
            \/ o.content = content[s] /\ (o.reply = "error" \/ t.op = "save")
            \/ /\ t.op \in {"restore", "pristine"} /\ t.art \in Artifact
               /\ o.content = Restored(t.art)
    BY <1>0, <1>2, <1>4, OutcomeFacts
<1>10. PrefixesHaveTokens'
    <2>1. \A a \in Artifact : Restored(a).n > 0
        BY SizeAssumption DEF Restored
    <2> QED
        BY <1>0, <1>2, <1>9, <2>1 DEF History, PrefixesHaveTokens
<1>11. CASE t.by = Loop => t.op = "save"
    <2>1. \A u \in Slot : owner'[u] = Loop => owner[u] = Loop /\ content'[u] = content[u]
        BY <1>2, <1>9, <1>11
    <2>2. lpc = "restoring" => t.by # Loop
        BY <1>4, <1>11 DEF IsOwnTask
    <2>3. lpc = "restoring" => reply'[Loop] = reply[Loop]
        BY <1>2, <2>2
    <2> QED
        BY <1>0, <1>1, <1>3, <1>6, <1>7, <1>8, <1>10, <2>1, <2>3, HistoryKeeps DEF LInv
<1>12. CASE t.by = Loop /\ t.op # "save"
    <2>1. /\ lpc = "restoring" /\ s = target[Loop]
          /\ t.op \in {"restore", "pristine"} => t.art = art[Loop]
          /\ t.op = "restore" => pc[Loop] = "restoring"
        BY <1>4, <1>12 DEF IsOwnTask
    <2>2. snap[s].n = 0 /\ s \notin mine
        BY <1>0, <2>1 DEF History, RestoresIntoVacant
    <2>3. HoldsOwn(s)' =>
            \/ /\ o.content = content[s] /\ o.reply = "error"
               /\ t.op = "restore" \/ HoldsOwn(s)
            \/ content'[s] = Restored(art[Loop])
        BY <1>2, <1>9, <1>12, <2>1 DEF HoldsOwn
    <2>4. RestoresIntoVacant'
        BY <1>0, <1>1, <1>2, <1>12, <2>1, <2>2, <2>3
           DEF History, RestoresIntoVacant, Restored, Answers
    <2>5. ReadingHolds' /\ OwnIsSeen' /\ OwnIsNoCandidate'
        <3>1. mine \subseteq Slot
            BY <1>0 DEF LoopTypeOK
        <3> QED
            BY <1>0, <1>1, <1>2, <2>1, <2>2, <3>1
               DEF History, ReadingHolds, OwnIsSeen, OwnIsNoCandidate, HoldsOwn
    <2> QED
        BY <1>3, <1>6, <1>7, <1>8, <1>10, <2>4, <2>5 DEF LInv, History
<1> QED
    BY <1>11, <1>12

\* So does a step that answers nobody and leaves the queues alone, and takes a slot
\* from whoever owns it if it changes it.
LEMMA AroundKeeps ==
    ASSUME LInv, TypeOK', UNCHANGED <<queue, reply, pc, target, art, loopOnly>>,
           \A s \in Slot : owner'[s] = Loop => owner[s] = Loop /\ content'[s] = content[s],
           \A s \in Slot : content'[s] = content[s] \/ content'[s].kind # "prefix"
    PROVE  LInv'
<1>0. LoopTypeOK /\ TasksAreOwn /\ OneTaskParked /\ WaitsInPlace /\ History
    BY DEF LInv
<1>1. UNCHANGED <<lpc, snap, sbusy, todo, cand, seen, warmed, refusedFor, captured, mine, restarts>>
    BY DEF loopOnly, memory, reading
<1>2. LoopTypeOK'
    BY <1>0, <1>1 DEF LoopTypeOK
<1>3. TasksAreOwn' /\ OneTaskParked' /\ WaitsInPlace'
    BY <1>0, <1>1 DEF TasksAreOwn, IsOwnTask, OneTaskParked, WaitsInPlace
<1>4. PrefixesHaveTokens'
    BY <1>0 DEF History, PrefixesHaveTokens
<1> QED
    BY <1>0, <1>2, <1>3, <1>4, HistoryKeeps DEF LInv

\* Every step of the server keeps the invariant.
LEMMA ServerKeeps ==
    ASSUME LInv, ServerStep, UNCHANGED <<pathVars, loopOnly>>
    PROVE  LInv'
<1>0. /\ LoopTypeOK /\ TypeOK /\ ServerTypeOK /\ TasksAreOwn /\ OneTaskParked
      /\ WaitsInPlace /\ History /\ Loop \in Client /\ Loop # NoOne
      /\ UNCHANGED <<pc, target, art, gone>>
    BY LoopAssumption, NoOneAssumption DEF LInv, LoopTypeOK, TypeOK, pathVars
<1>1. ASSUME NEW s \in Slot, TurnStarts(s) PROVE LInv'
    <2>1. PICK v \in Conversation : content' = [content EXCEPT ![s] = Live(v)]
        BY <1>1 DEF TurnStarts
    <2>2. /\ content' \in [Slot -> Content] /\ Live(v).kind # "prefix"
          /\ content'[s] = Live(v) /\ \A u \in Slot \ {s} : content'[u] = content[u]
        BY <1>0, <2>1, ContentTypes, SizeAssumption DEF ServerTypeOK, Live
    <2>3. /\ owner' \in [Slot -> Client \cup {NoOne}] /\ owner'[s] = NoOne
          /\ \A u \in Slot \ {s} : owner'[u] = owner[u]
        BY <1>0, <1>1 DEF TurnStarts, ServerTypeOK
    <2>4. TypeOK'
        BY <1>0, <1>1, <2>2, <2>3, SizeAssumption DEF TurnStarts, TypeOK, ServerTypeOK
    <2> QED
        BY <1>0, <1>1, <2>2, <2>3, <2>4, AroundKeeps DEF TurnStarts
<1>2. ASSUME NEW s \in Slot, TurnEnds(s) PROVE LInv'
    <2>1. TypeOK'
        BY <1>0, <1>2 DEF TurnEnds, TypeOK, ServerTypeOK
    <2> QED
        BY <1>0, <1>2, <2>1, AroundKeeps DEF TurnEnds
<1>3. CASE Load \/ Evict
    <2>1. TypeOK'
        BY <1>0, <1>3 DEF Load, Evict, TypeOK, ServerTypeOK
    <2> QED
        BY <1>0, <1>3, <2>1, AroundKeeps DEF Load, Evict
<1>4. CASE Unload
    <2>1. /\ owner' = [s \in Slot |-> NoOne] /\ queue' = [s \in Slot |-> <<>>]
          /\ content' = [s \in Slot |-> Empty] /\ unloads < MaxUnloads /\ unloads' = unloads + 1
          /\ reply' = [c \in Client |-> IF reply[c] = "waiting" THEN "error" ELSE reply[c]]
          /\ loaded' = FALSE /\ UNCHANGED <<busy, quality, held, saved, turns>>
        BY <1>4 DEF Unload
    <2>2. /\ content' \in [Slot -> Content] /\ queue' \in [Slot -> Seq(Task)]
          /\ owner' \in [Slot -> Client \cup {NoOne}] /\ reply' \in [Client -> Reply]
          /\ unloads' \in 0..MaxUnloads
        BY <1>0, <2>1, ContentTypes, SizeAssumption DEF ServerTypeOK, Reply
    <2>3. LoopTypeOK'
        BY <1>0, <2>1, <2>2
           DEF LoopTypeOK, TypeOK, ServerTypeOK, loopOnly, memory, reading
    <2>4. TasksAreOwn' /\ OneTaskParked' /\ WaitsInPlace'
        BY <1>0, <2>1 DEF TasksAreOwn, OneTaskParked, WaitsInPlace
    <2>5. PrefixesHaveTokens'
        BY <2>1 DEF PrefixesHaveTokens, Empty
    <2>6. \A s \in Slot : owner'[s] # Loop
        BY <1>0, <2>1
    <2>7. reply'[Loop] = "done" => reply[Loop] = "done"
        BY <1>0, <2>1
    <2> QED
        BY <1>0, <2>3, <2>4, <2>5, <2>6, <2>7, HistoryKeeps DEF LInv
<1> QED
    BY <1>1, <1>2, <1>3, <1>4, LoopRunTaskKeeps DEF ServerStep

-----------------------------------------------------------------------------
(* Requests of the thread *)

\* A thread that waits for nothing has nothing parked.
LEMMA NoneParked ==
    ASSUME TasksAreOwn, reply[Loop] # "waiting"
    PROVE  \A s \in Slot : \A i \in DOMAIN queue[s] : queue[s][i].by # Loop
BY DEF TasksAreOwn, IsOwnTask

\* A request that is posted is the only one of the thread.
LEMMA LoopPosts ==
    ASSUME LInv, NEW s \in Slot, NEW op, NEW a \in Artifact \cup {NoOne},
           op \in {"restore", "probe", "erase", "pristine", "save", "prefill"},
           op \in {"probe", "prefill"} => a \in Artifact,
           reply[Loop] # "waiting", Post(Loop, s, op, a)
    PROVE  /\ ServerTypeOK' /\ reply'[Loop] = "waiting" /\ OneTaskParked'
           /\ \A u \in Slot : \A i \in DOMAIN queue'[u] :
                /\ queue'[u][i].op \in {"probe", "prefill"} => queue'[u][i].art \in Artifact
                /\ queue'[u][i].by = Loop =>
                      u = s /\ queue'[u][i] = [op |-> op, art |-> a, by |-> Loop]
<1> DEFINE t == [op |-> op, art |-> a, by |-> Loop]
<1>0. /\ ServerTypeOK /\ TasksAreOwn /\ OneTaskParked /\ Loop \in Client /\ t \in Task
    BY LoopAssumption DEF LInv, LoopTypeOK, TypeOK, Task
<1>1. /\ queue' = [queue EXCEPT ![s] = Append(@, t)] /\ loaded' = TRUE
      /\ reply' = [reply EXCEPT ![Loop] = "waiting"]
      /\ UNCHANGED <<content, busy, quality, held, saved, turns, unloads, owner>>
    BY DEF Post, Touch
<1>2. reply' \in [Client -> Reply] /\ reply'[Loop] = "waiting"
    BY <1>0, <1>1 DEF ServerTypeOK, Reply
<1>3. ASSUME NEW u \in Slot
      PROVE  /\ queue'[u] \in Seq(Task) /\ Len(queue[u]) \in Nat
             /\ \A i \in DOMAIN queue'[u] :
                   \/ i \in DOMAIN queue[u] /\ queue'[u][i] = queue[u][i]
                   \/ u = s /\ i = Len(queue[u]) + 1 /\ queue'[u][i] = t
    BY <1>0, <1>1, QueueAfterPost
<1>4. queue' \in [Slot -> Seq(Task)]
    BY <1>0, <1>1, <1>3 DEF ServerTypeOK
<1>5. ServerTypeOK'
    BY <1>0, <1>1, <1>2, <1>4 DEF ServerTypeOK
<1>6. ASSUME NEW u \in Slot, NEW i \in DOMAIN queue'[u]
      PROVE  /\ queue'[u][i].op \in {"probe", "prefill"} => queue'[u][i].art \in Artifact
             /\ queue'[u][i].by = Loop =>
                   u = s /\ queue'[u][i] = t /\ i = Len(queue[u]) + 1
    <2>1. CASE i \in DOMAIN queue[u] /\ queue'[u][i] = queue[u][i]
        BY <1>0, <2>1, NoneParked DEF TasksAreOwn
    <2>2. CASE u = s /\ i = Len(queue[u]) + 1 /\ queue'[u][i] = t
        BY <2>2
    <2> QED
        BY <1>3, <2>1, <2>2
<1>7. OneTaskParked'
    BY <1>6 DEF OneTaskParked
<1> QED
    BY <1>2, <1>5, <1>6, <1>7

\* A thread that stops waiting leaves its task to nobody; so does one that restarts.
LEMMA LoopLeaves ==
    ASSUME LInv, NEW r \in Reply \ {"waiting"},
           reply' = [reply EXCEPT ![Loop] = r],
           queue' = [s \in Slot |-> [i \in DOMAIN queue[s] |->
                IF queue[s][i].by = Loop THEN [queue[s][i] EXCEPT !.by = NoOne]
                                         ELSE queue[s][i]]],
           UNCHANGED <<content, busy, quality, held, saved, turns, unloads, loaded>>,
           owner' \in [Slot -> Client \cup {NoOne}]
    PROVE  /\ ServerTypeOK' /\ TasksAreOwn' /\ OneTaskParked' /\ reply'[Loop] = r
<1>0. /\ ServerTypeOK /\ TasksAreOwn /\ Loop \in Client /\ Loop # NoOne
    BY LoopAssumption, NoOneAssumption DEF LInv, LoopTypeOK, TypeOK
<1>1. reply' \in [Client -> Reply] /\ reply'[Loop] = r
    BY <1>0 DEF ServerTypeOK
<1>2. ASSUME NEW u \in Slot
      PROVE  /\ DOMAIN queue'[u] = DOMAIN queue[u]
             /\ \A i \in DOMAIN queue[u] :
                  /\ queue'[u][i].op = queue[u][i].op /\ queue'[u][i].art = queue[u][i].art
                  /\ queue'[u][i].by # Loop
             /\ queue'[u] \in Seq(Task)
    <2>1. queue[u] \in Seq(Task)
        BY <1>0 DEF ServerTypeOK
    <2>2. /\ DOMAIN queue[u] = 1..Len(queue[u]) /\ Len(queue[u]) \in Nat
          /\ \A i \in DOMAIN queue[u] : queue[u][i] \in Task
        BY <2>1
    <2>3. queue'[u] = [i \in DOMAIN queue[u] |->
                          IF queue[u][i].by = Loop THEN [queue[u][i] EXCEPT !.by = NoOne]
                                                   ELSE queue[u][i]]
        OBVIOUS
    <2>4. ASSUME NEW i \in DOMAIN queue[u]
          PROVE  /\ queue'[u][i] \in Task
                 /\ queue'[u][i].op = queue[u][i].op /\ queue'[u][i].art = queue[u][i].art
                 /\ queue'[u][i].by # Loop
        BY <1>0, <2>2, <2>3, <2>4 DEF Task
    <2>5. queue'[u] \in [1..Len(queue[u]) -> Task]
        BY <2>2, <2>3, <2>4
    <2>6. queue'[u] \in Seq(Task)
        BY ONLY <2>2, <2>5, IsASeq
    <2> QED
        BY <2>2, <2>3, <2>4, <2>6
<1>3. ServerTypeOK'
    <2>1. queue' \in [Slot -> Seq(Task)]
        BY <1>2
    <2> QED
        BY <1>0, <1>1, <2>1 DEF ServerTypeOK
<1>4. TasksAreOwn' /\ OneTaskParked'
    BY <1>0, <1>2 DEF TasksAreOwn, IsOwnTask, OneTaskParked
<1> QED
    BY <1>1, <1>3, <1>4

-----------------------------------------------------------------------------
(* restore(), as the thread calls it *)

\* restore() posts its next request.
LEMMA LoopPathPosts ==
    ASSUME LInv, NEW label \in Waiting, ThenPost(Loop, Awaited[label], label),
           UNCHANGED loopOnly, reply[Loop] # "waiting", lpc = "restoring",
           label \in Answers => pc[Loop] \in Answers
    PROVE  LInv'
<1> DEFINE op == Awaited[label]
           a == IF op = "erase" THEN NoOne ELSE art[Loop]
<1>0. /\ LoopTypeOK /\ TypeOK /\ History /\ target[Loop] \in Slot /\ art[Loop] \in Artifact
      /\ Loop \in Client /\ UNCHANGED <<lpc, target, art, gone, content, owner>>
    BY LoopAssumption
       DEF LInv, LoopTypeOK, TypeOK, ThenPost, Post, Stay, loopOnly
<1>1. /\ op \in {"restore", "probe", "erase", "pristine"}
      /\ a \in Artifact \cup {NoOne} /\ (op # "erase" => a = art[Loop])
      /\ op = "restore" => label = "restoring"
    BY <1>0 DEF Awaited, Waiting
<1>2. Post(Loop, target[Loop], op, a)
    BY DEF ThenPost
<1> HIDE DEF op, a
<1>3. /\ ServerTypeOK' /\ reply'[Loop] = "waiting" /\ OneTaskParked'
      /\ \A u \in Slot : \A i \in DOMAIN queue'[u] :
           /\ queue'[u][i].op \in {"probe", "prefill"} => queue'[u][i].art \in Artifact
           /\ queue'[u][i].by = Loop =>
                 u = target[Loop] /\ queue'[u][i] = [op |-> op, art |-> a, by |-> Loop]
    BY <1>0, <1>1, <1>2, LoopPosts
<1>4. pc'[Loop] = label /\ pc' \in [Client -> {"idle"} \cup Active \cup Ended]
    BY <1>0 DEF ThenPost, Goto, TypeOK, Active
<1>5. LoopTypeOK'
    BY <1>0, <1>3, <1>4 DEF LoopTypeOK, TypeOK, loopOnly, memory, reading, Waiting
<1>6. TasksAreOwn'
    BY <1>0, <1>1, <1>3, <1>4 DEF TasksAreOwn, IsOwnTask
<1>7. WaitsInPlace'
    BY <1>0, <1>4 DEF WaitsInPlace
<1>8. PrefixesHaveTokens'
    BY <1>0 DEF History, PrefixesHaveTokens
<1>9. History'
    BY <1>0, <1>3, <1>4, <1>8, HistoryKeeps DEF Answers, Waiting
<1> QED
    BY <1>3, <1>5, <1>6, <1>7, <1>9 DEF LInv

\* restore() goes on, or returns, without a request to a slot.
LEMMA LoopPathGoes ==
    ASSUME LInv, NEW to \in (Active \cup Ended) \ Waiting, pc' = [pc EXCEPT ![Loop] = to],
           UNCHANGED <<content, queue, owner, target, art, loopOnly>>,
           TypeOK', reply'[Loop] # "waiting", lpc = "restoring", reply[Loop] # "waiting",
           to \in Answers => \/ pc[Loop] \in Answers
                             \/ pc[Loop] = "restoring" /\ reply[Loop] = "done"
    PROVE  LInv'
<1>0. /\ LoopTypeOK /\ TasksAreOwn /\ OneTaskParked /\ History /\ Loop \in Client /\ pc'[Loop] = to
    BY LoopAssumption DEF LInv, LoopTypeOK, TypeOK
<1>1. LoopTypeOK'
    BY <1>0 DEF LoopTypeOK, loopOnly, memory, reading, Active, Ended
<1>2. TasksAreOwn' /\ OneTaskParked' /\ WaitsInPlace'
    BY <1>0, NoneParked DEF TasksAreOwn, IsOwnTask, OneTaskParked, WaitsInPlace
<1>3. PrefixesHaveTokens'
    BY <1>0 DEF History, PrefixesHaveTokens
<1>4. to # "restoring"
    BY DEF Waiting
<1> QED
    BY <1>0, <1>1, <1>2, <1>3, <1>4, HistoryKeeps DEF LInv

\* Every step of restore() keeps the invariant.
LEMMA LoopPathKeeps ==
    ASSUME LInv, PathStep(Loop), UNCHANGED loopOnly
    PROVE  LInv'
<1>0. /\ LoopTypeOK /\ TypeOK /\ ServerTypeOK /\ WaitsInPlace /\ Loop \in Client
    BY LoopAssumption DEF LInv, LoopTypeOK, TypeOK
<1>1. pc[Loop] # "idle"
    BY DEF PathStep, Resolve, RefuseIdentity, PostRestore, RestoreMatches, RestoreDiffers,
           RestoreRaises, StopBeforeProbe, PostProbe, ProbeCovers, ProbeFails, ProbeRaises,
           SkipPristine, PostClear, PostPristine, PristineDone, PristineFails, Erased,
           EraseFails, Answered
<1>2. lpc = "restoring"
    BY <1>0, <1>1 DEF LoopTypeOK
<1>3. ASSUME pc[Loop] \notin Waiting PROVE reply[Loop] # "waiting"
    BY <1>0, <1>2, <1>3 DEF WaitsInPlace
<1>4. ASSUME NEW ending \in {"verify", "settle"} \cup Ended, Return(Loop, ending),
             reply[Loop] # "waiting",
             ending \in Answers => \/ pc[Loop] \in Answers
                                   \/ pc[Loop] = "restoring" /\ reply[Loop] = "done"
      PROVE  LInv'
    <2>1. /\ reply' = [reply EXCEPT ![Loop] = "none"] /\ pc' = [pc EXCEPT ![Loop] = ending]
          /\ UNCHANGED <<loaded, content, busy, queue, quality, held, saved, turns, unloads,
                         owner, target, art, gone>>
        BY <1>4 DEF Return, Goto, Stay
    <2>2. ending \in (Active \cup Ended) \ Waiting
        BY DEF Active, Ended, Waiting
    <2>3. TypeOK' /\ reply'[Loop] = "none"
        BY <1>0, <2>1, <2>2 DEF TypeOK, ServerTypeOK, Reply
    <2>4. UNCHANGED <<content, queue, owner, target, art, loopOnly>>
        BY <2>1
    <2> QED
        BY <1>2, <1>4, <2>1, <2>2, <2>3, <2>4, LoopPathGoes
<1>5. CASE Resolve(Loop) \/ RefuseIdentity(Loop)
    <2>1. PICK to \in {"restore", "refused", "raised"} : pc' = [pc EXCEPT ![Loop] = to]
        BY <1>5 DEF Resolve, RefuseIdentity, Goto
    <2>2. /\ loaded' = TRUE /\ pc[Loop] = "resolve"
          /\ UNCHANGED <<content, busy, queue, reply, quality, held, saved, turns, unloads,
                         owner, target, art, gone>>
        BY <1>5 DEF Resolve, RefuseIdentity, Touch, Stay
    <2>3. TypeOK' /\ to \in (Active \cup Ended) \ Waiting /\ to \notin Answers
        BY <1>0, <2>1, <2>2 DEF TypeOK, ServerTypeOK, Active, Ended, Waiting, Answers
    <2>4. reply[Loop] # "waiting"
        BY <1>3, <2>2 DEF Waiting
    <2> QED
        BY <1>2, <2>1, <2>2, <2>3, <2>4, LoopPathGoes
<1>6. CASE PostRestore(Loop)
    <2>1. ThenPost(Loop, Awaited["restoring"], "restoring") /\ pc[Loop] = "restore"
        BY <1>6 DEF PostRestore, Awaited
    <2> QED
        BY <1>2, <1>3, <2>1, LoopPathPosts DEF Waiting, Answers
<1>7. CASE RestoreMatches(Loop)
    BY <1>4, <1>7 DEF RestoreMatches, Answered
<1>8. CASE RestoreDiffers(Loop) \/ ProbeFails(Loop) \/ PristineFails(Loop)
    <2>1. ThenPost(Loop, Awaited["erasing"], "erasing") /\ reply[Loop] # "waiting"
        BY <1>8 DEF RestoreDiffers, ProbeFails, PristineFails, Answered, Awaited
    <2> QED
        BY <1>2, <2>1, LoopPathPosts DEF Waiting, Answers
<1>9. CASE RestoreRaises(Loop) \/ ProbeRaises(Loop)
    <2>1. Return(Loop, "raised") /\ reply[Loop] # "waiting" /\ "raised" \notin Answers
        BY <1>9 DEF RestoreRaises, ProbeRaises, Answered, Answers
    <2> QED
        BY <1>4, <2>1 DEF Ended
<1>10. CASE StopBeforeProbe(Loop)
    <2>1. Return(Loop, "abandoned") /\ reply[Loop] # "waiting" /\ "abandoned" \notin Answers
        BY <1>3, <1>10 DEF StopBeforeProbe, Answers, Waiting
    <2> QED
        BY <1>4, <2>1 DEF Ended
<1>11. CASE PostProbe(Loop)
    <2>1. ThenPost(Loop, Awaited["probing"], "probing") /\ pc[Loop] = "verify"
        BY <1>11 DEF PostProbe, Awaited
    <2> QED
        BY <1>2, <1>3, <2>1, LoopPathPosts DEF Waiting, Answers
<1>12. CASE ProbeCovers(Loop)
    <2>1. Return(Loop, "settle") /\ reply[Loop] # "waiting" /\ pc[Loop] \in Answers
        BY <1>12 DEF ProbeCovers, Answered, Answers
    <2> QED
        BY <1>4, <2>1
<1>13. CASE SkipPristine(Loop) \/ PristineDone(Loop)
    <2>1. Return(Loop, "ok") /\ reply[Loop] # "waiting" /\ pc[Loop] \in Answers
        BY <1>3, <1>13 DEF SkipPristine, PristineDone, Answered, Answers, Waiting
    <2> QED
        BY <1>4, <2>1 DEF Ended
<1>14. CASE PostClear(Loop)
    <2>1. ThenPost(Loop, Awaited["clearing"], "clearing") /\ pc[Loop] = "settle"
        BY <1>14 DEF PostClear, Awaited
    <2> QED
        BY <1>2, <1>3, <2>1, LoopPathPosts DEF Waiting, Answers
<1>15. CASE PostPristine(Loop)
    <2>1. /\ ThenPost(Loop, Awaited["repeating"], "repeating") /\ pc[Loop] = "clearing"
          /\ reply[Loop] # "waiting"
        BY <1>15 DEF PostPristine, Answered, Awaited
    <2> QED
        BY <1>2, <2>1, LoopPathPosts DEF Waiting, Answers
<1>16. CASE Erased(Loop) \/ EraseFails(Loop)
    <2>1. PICK ending \in {"refused", "unclean"} : Return(Loop, ending)
        BY <1>16 DEF Erased, EraseFails
    <2>2. reply[Loop] # "waiting" /\ ending \notin Answers
        BY <1>16, <2>1 DEF Erased, EraseFails, Answered, Answers
    <2> QED
        BY <1>4, <2>1, <2>2 DEF Ended
<1> QED
    BY <1>5, <1>6, <1>7, <1>8, <1>9, <1>10, <1>11, <1>12, <1>13, <1>14, <1>15, <1>16 DEF PathStep

-----------------------------------------------------------------------------
(* The steps of the tick *)

\* A step to a place outside restore(), with nothing parked and the server left alone.
LEMMA LoopMoves ==
    ASSUME LInv, reply[Loop] # "waiting", LoopTypeOK', lpc' # "restoring",
           UNCHANGED <<content, queue, reply, owner>>,
           ReadingHolds', OwnIsSeen', OwnIsNoCandidate'
    PROVE  LInv'
<1>0. TasksAreOwn /\ OneTaskParked /\ History
    BY DEF LInv
<1>1. TasksAreOwn' /\ OneTaskParked' /\ WaitsInPlace'
    BY <1>0, NoneParked DEF TasksAreOwn, IsOwnTask, OneTaskParked, WaitsInPlace
<1>2. PrefixesHaveTokens' /\ RestoresIntoVacant'
    BY <1>0 DEF History, PrefixesHaveTokens, RestoresIntoVacant
<1> QED
    BY <1>1, <1>2 DEF LInv, History

\* The steps that neither read the slots nor touch one.
LEMMA LoopAside ==
    ASSUME LInv,
           \/ ReadRunning \/ ReadFails \/ NothingToRestore \/ FallBack \/ SkipSmallGrowth
           \/ SaveRefused \/ SaveDone \/ AdmitHeld \/ AdmitNew \/ AdmitRefused \/ EndTick
    PROVE  LInv'
<1>0. /\ LoopTypeOK /\ TypeOK /\ ServerTypeOK /\ WaitsInPlace /\ History
      /\ snap \in [Slot -> Content] /\ cand \in Slot /\ todo \in SUBSET Slot
      /\ seen \in SUBSET Nat /\ captured \in [Slot -> Nat]
    BY DEF LInv, LoopTypeOK, TypeOK
<1> USE DEF LoopGoto, Account, Touch
<1>1. reply[Loop] # "waiting"
    BY <1>0 DEF WaitsInPlace, ReadRunning, ReadFails, NothingToRestore, FallBack,
                SkipSmallGrowth, SaveRefused, SaveDone, AdmitHeld, AdmitNew, AdmitRefused, EndTick
<1>2. /\ UNCHANGED <<content, busy, queue, reply, quality, saved, turns, unloads, owner,
                     pc, target, art, gone, snap, sbusy, mine, restarts>>
      /\ cand' = cand /\ todo' \subseteq todo /\ seen \subseteq seen'
      /\ \/ lpc = "sleep" /\ lpc' = "slots"
         \/ lpc = "slots" /\ lpc' = "sleep"
         \/ lpc = "fresh" /\ lpc' = "choose"
         \/ lpc \in {"capture", "saving", "admit"} /\ lpc' \in {"sleep", "capture", "admit"}
    BY DEF ReadRunning, ReadFails, NothingToRestore, FallBack, SkipSmallGrowth, SaveRefused,
           SaveDone, AdmitHeld, AdmitNew, AdmitRefused, EndTick, vars, serverVars, pathVars,
           memory, reading
<1>3. loaded' \in BOOLEAN /\ held' \in SUBSET Artifact
    BY <1>0 DEF ReadRunning, ReadFails, NothingToRestore, FallBack, SkipSmallGrowth,
                SaveRefused, SaveDone, AdmitHeld, AdmitNew, AdmitRefused, EndTick,
                vars, serverVars, ServerTypeOK
<1>4. seen' \in SUBSET Nat /\ captured' \in [Slot -> Nat]
    <2>1. \A s \in Slot : snap[s].n \in Nat
        BY <1>0, ContentTypes DEF Content
    <2>2. Biggest \subseteq Slot
        BY <1>0 DEF Biggest
    <2> QED
        BY <1>0, <2>1, <2>2
           DEF ReadRunning, ReadFails, NothingToRestore, FallBack, SkipSmallGrowth,
               SaveRefused, SaveDone, AdmitHeld, AdmitNew, AdmitRefused, EndTick, memory
<1>5. warmed' \in SUBSET Slot /\ refusedFor' \in SUBSET Slot
    <2>1. Fresh \subseteq Slot
        BY DEF Fresh, First, Vacant
    <2> QED
        BY <1>0, <2>1
           DEF LoopTypeOK, ReadRunning, ReadFails, NothingToRestore, FallBack, SkipSmallGrowth,
               SaveRefused, SaveDone, AdmitHeld, AdmitNew, AdmitRefused, EndTick, memory
<1>6. TypeOK'
    BY <1>0, <1>2, <1>3 DEF TypeOK, ServerTypeOK
<1>7. LoopTypeOK'
    BY <1>0, <1>2, <1>4, <1>5, <1>6 DEF LoopTypeOK
<1>8. ReadingHolds' /\ OwnIsSeen' /\ OwnIsNoCandidate'
    BY <1>0, <1>2 DEF History, ReadingHolds, OwnIsSeen, OwnIsNoCandidate, HoldsOwn, HasRead
<1> QED
    BY <1>1, <1>2, <1>7, <1>8, LoopMoves

\* The slots are read.
LEMMA ReadSlotsKeeps == ASSUME LInv, ReadSlots PROVE LInv'
<1>0. LoopTypeOK /\ TypeOK /\ ServerTypeOK /\ WaitsInPlace /\ History /\ lpc = "slots"
    BY DEF LInv, LoopTypeOK, TypeOK, ReadSlots
<1>1. /\ lpc' = "fresh" /\ snap' = content /\ sbusy' = [s \in Slot |-> Processing(s)]
      /\ loaded' = TRUE /\ warmed' \subseteq warmed
      /\ UNCHANGED <<content, busy, queue, reply, quality, held, saved, turns, unloads, owner,
                     pc, target, art, gone, todo, cand, seen, refusedFor, captured, mine,
                     restarts>>
    BY DEF ReadSlots, LoopGoto, Touch, pathVars
<1>2. \A s \in Slot : Processing(s) \in BOOLEAN
    BY <1>0 DEF Processing, ServerTypeOK
<1>3. TypeOK'
    BY <1>0, <1>1 DEF TypeOK, ServerTypeOK
<1>4. LoopTypeOK'
    BY <1>0, <1>1, <1>2, <1>3 DEF LoopTypeOK, ServerTypeOK
<1>5. ReadingHolds' /\ OwnIsSeen' /\ OwnIsNoCandidate'
    BY <1>0, <1>1 DEF History, ReadingHolds, OwnIsSeen, OwnIsNoCandidate, HoldsOwn
<1> QED
    BY <1>0, <1>1, <1>4, <1>5, LoopMoves DEF WaitsInPlace

\* restore() is called.
LEMMA RestoreFreshKeeps == ASSUME LInv, RestoreFresh PROVE LInv'
<1>0. /\ LoopTypeOK /\ TypeOK /\ ServerTypeOK /\ TasksAreOwn /\ OneTaskParked /\ WaitsInPlace
      /\ History /\ lpc = "fresh" /\ Loop \in Client
    BY LoopAssumption DEF LInv, LoopTypeOK, TypeOK, RestoreFresh
<1>1. PICK s \in Fresh, a \in held : Call(Loop, s, a)
    BY DEF RestoreFresh
<1>2. /\ lpc' = "restoring" /\ mine' = mine \ Fresh
      /\ UNCHANGED <<snap, sbusy, todo, cand, seen, warmed, refusedFor, captured, restarts>>
      /\ UNCHANGED serverVars
      /\ target' = [target EXCEPT ![Loop] = s] /\ art' = [art EXCEPT ![Loop] = a]
      /\ gone' = [gone EXCEPT ![Loop] = FALSE] /\ pc' = [pc EXCEPT ![Loop] = "resolve"]
    BY <1>1 DEF RestoreFresh, LoopGoto, Call, Goto, reading
<1>3. UNCHANGED <<loaded, content, busy, queue, reply, quality, held, saved, turns, unloads, owner>>
    BY <1>2 DEF serverVars
<1>4. s \in Slot /\ snap[s].n = 0 /\ a \in Artifact /\ target'[Loop] = s /\ pc'[Loop] = "resolve"
    BY <1>0, <1>2 DEF Fresh, First, Vacant, ServerTypeOK, TypeOK
<1>5. TypeOK'
    BY <1>0, <1>2, <1>3, <1>4 DEF TypeOK, ServerTypeOK, Active
<1>6. LoopTypeOK'
    BY <1>0, <1>2, <1>4, <1>5 DEF LoopTypeOK
<1>7. reply[Loop] # "waiting"
    BY <1>0 DEF WaitsInPlace
<1>8. TasksAreOwn' /\ OneTaskParked' /\ WaitsInPlace'
    BY <1>0, <1>3, <1>7, NoneParked DEF TasksAreOwn, IsOwnTask, OneTaskParked, WaitsInPlace
<1>9. PrefixesHaveTokens' /\ RestoresIntoVacant'
    BY <1>0, <1>2, <1>3, <1>4
       DEF History, PrefixesHaveTokens, RestoresIntoVacant, Answers
<1>10. ReadingHolds' /\ OwnIsSeen' /\ OwnIsNoCandidate'
    BY <1>0, <1>2, <1>3 DEF History, ReadingHolds, OwnIsSeen, OwnIsNoCandidate, HoldsOwn, HasRead
<1> QED
    BY <1>6, <1>8, <1>9, <1>10 DEF LInv, History

\* restore() returns to the thread: what it put there is accounted for.
LEMMA RestoreEndsKeeps == ASSUME LInv, RestoreReturns \/ RestoreRefused PROVE LInv'
<1>0. /\ LoopTypeOK /\ TypeOK /\ ServerTypeOK /\ WaitsInPlace /\ History /\ lpc = "restoring"
      /\ Loop \in Client /\ pc[Loop] \in Ended
    BY LoopAssumption
       DEF LInv, LoopTypeOK, TypeOK, RestoreReturns, RestoreRefused, Ended
<1>1. /\ lpc' = "choose" /\ pc' = [pc EXCEPT ![Loop] = "idle"]
      /\ UNCHANGED <<target, art, gone, snap, sbusy, todo, cand, captured, restarts>>
      /\ UNCHANGED serverVars
    BY DEF RestoreReturns, RestoreRefused, LoopGoto, Goto, reading
<1>2. UNCHANGED <<loaded, content, busy, queue, reply, quality, held, saved, turns, unloads, owner>>
    BY <1>1 DEF serverVars
<1>3. target[Loop] \in Slot /\ Size[art[Loop]] \in Nat /\ pc'[Loop] = "idle"
    BY <1>0, <1>1, SizeAssumption DEF TypeOK
<1>4. TypeOK'
    BY <1>0, <1>1, <1>2 DEF TypeOK, ServerTypeOK
<1>5. /\ seen \subseteq seen' /\ seen' \in SUBSET Nat
      /\ warmed' \in SUBSET Slot /\ refusedFor' \in SUBSET Slot /\ mine' \in SUBSET Slot
    BY <1>0, <1>3 DEF LoopTypeOK, RestoreReturns, RestoreRefused
<1>6. LoopTypeOK'
    BY <1>0, <1>1, <1>3, <1>4, <1>5 DEF LoopTypeOK
<1>7. ReadingHolds' /\ OwnIsNoCandidate'
    BY <1>0, <1>1, <1>2 DEF History, ReadingHolds, OwnIsNoCandidate, HasRead
<1>8. OwnIsSeen'
    <2>1. CASE RestoreReturns
        <3>1. /\ seen' = seen \cup {Size[art[Loop]]} /\ mine' = mine \cup {target[Loop]}
              /\ pc[Loop] \in Answers
            BY <2>1 DEF RestoreReturns, Answers
        <3>2. HoldsOwn(target[Loop]) => content[target[Loop]].n = Size[art[Loop]]
            BY <1>0, <3>1 DEF History, RestoresIntoVacant, Restored
        <3> QED
            BY <1>0, <1>2, <3>1, <3>2 DEF History, OwnIsSeen, HoldsOwn
    <2>2. CASE RestoreRefused
        <3>1. mine' = mine /\ seen' = seen
            BY <2>2 DEF RestoreRefused
        <3> QED
            BY <1>0, <1>2, <3>1 DEF History, OwnIsSeen, HoldsOwn
    <2> QED
        BY <2>1, <2>2
<1>9. reply[Loop] # "waiting"
    BY <1>0 DEF WaitsInPlace, Ended, Waiting
<1> QED
    BY <1>1, <1>2, <1>6, <1>7, <1>8, <1>9, LoopMoves

\* The candidates are chosen: what the thread restored is not one of them, for it has
\* the count that was read of it, which is among those seen.
LEMMA ChooseKeeps == ASSUME LInv, Choose PROVE LInv'
<1>0. /\ LoopTypeOK /\ TypeOK /\ ServerTypeOK /\ WaitsInPlace /\ History /\ lpc = "choose"
      /\ snap \in [Slot -> Content] /\ mine \subseteq Slot
    BY DEF LInv, LoopTypeOK, TypeOK, Choose
<1>1. /\ lpc' = "capture" /\ todo' = Candidates
      /\ UNCHANGED <<loaded, content, busy, queue, reply, quality, held, saved, turns, unloads,
                     owner, pc, target, art, gone, snap, sbusy, cand, seen, warmed, refusedFor,
                     captured, mine, restarts>>
    BY DEF Choose, LoopGoto, vars, serverVars, pathVars, reading, memory
<1>2. TypeOK'
    BY <1>0, <1>1 DEF TypeOK, ServerTypeOK
<1>3. LoopTypeOK'
    BY <1>0, <1>1, <1>2 DEF LoopTypeOK, Candidates
<1>4. ASSUME NEW s \in Candidates \cap mine, HoldsOwn(s) PROVE FALSE
    <2>1. s \in Slot /\ owner[s] = Loop /\ content[s].n \in seen
        BY <1>0, <1>4 DEF History, OwnIsSeen, HoldsOwn
    <2>2. snap[s].n \in Nat /\ snap[s].n >= MinTokens /\ snap[s].n \notin seen
        BY <1>0, <1>4, <2>1, ContentTypes DEF Candidates, Content
    <2>3. snap[s].n > 0
        BY <2>2, LoopAssumption
    <2>4. content[s] = snap[s]
        BY <1>0, <2>1, <2>3 DEF History, ReadingHolds, HasRead
    <2> QED
        BY <2>1, <2>2, <2>4
<1>5. OwnIsNoCandidate'
    BY <1>1, <1>4 DEF OwnIsNoCandidate, HoldsOwn
<1>6. ReadingHolds' /\ OwnIsSeen'
    BY <1>0, <1>1 DEF History, ReadingHolds, OwnIsSeen, HoldsOwn, HasRead
<1> QED
    BY <1>0, <1>1, <1>3, <1>5, <1>6, LoopMoves DEF WaitsInPlace

\* A save is posted.
LEMMA PostSaveKeeps == ASSUME LInv, PostSave PROVE LInv'
<1>0. /\ LoopTypeOK /\ TypeOK /\ WaitsInPlace /\ History /\ lpc = "capture"
      /\ reply[Loop] # "waiting" /\ todo \subseteq Slot
    BY DEF LInv, LoopTypeOK, WaitsInPlace, PostSave
<1>1. PICK s \in Biggest : Post(Loop, s, "save", NoOne) /\ cand' = s /\ todo' = todo \ {s}
    BY DEF PostSave
<1>2. s \in Slot
    BY <1>0 DEF Biggest
<1>3. /\ lpc' = "saving" /\ UNCHANGED <<content, owner>>
      /\ UNCHANGED <<pc, target, art, gone, snap, sbusy, seen, warmed, refusedFor, captured, mine,
                     restarts>>
    BY <1>1 DEF PostSave, LoopGoto, Post, pathVars, reading, memory
<1>4. /\ ServerTypeOK' /\ reply'[Loop] = "waiting" /\ OneTaskParked'
      /\ \A u \in Slot : \A i \in DOMAIN queue'[u] :
           /\ queue'[u][i].op \in {"probe", "prefill"} => queue'[u][i].art \in Artifact
           /\ queue'[u][i].by = Loop =>
                 u = s /\ queue'[u][i] = [op |-> "save", art |-> NoOne, by |-> Loop]
    BY <1>0, <1>1, <1>2, LoopPosts
<1>5. TypeOK'
    BY <1>0, <1>3, <1>4 DEF TypeOK
<1>6. LoopTypeOK'
    BY <1>0, <1>1, <1>2, <1>3, <1>5 DEF LoopTypeOK
<1>7. TasksAreOwn' /\ WaitsInPlace'
    BY <1>3, <1>4 DEF TasksAreOwn, IsOwnTask, WaitsInPlace
<1>8. History'
    BY <1>0, <1>1, <1>3
       DEF History, PrefixesHaveTokens, RestoresIntoVacant, ReadingHolds, OwnIsSeen,
           OwnIsNoCandidate, HoldsOwn, HasRead
<1> QED
    BY <1>4, <1>6, <1>7, <1>8 DEF LInv

\* The thread stops waiting for its save.
LEMMA SaveParkedKeeps == ASSUME LInv, SaveParked PROVE LInv'
<1>0. /\ LoopTypeOK /\ TypeOK /\ ServerTypeOK /\ History /\ lpc = "saving"
      /\ snap[cand].n \in Nat /\ seen \in SUBSET Nat
    BY ContentTypes DEF LInv, LoopTypeOK, TypeOK, SaveParked, Content
<1>1. /\ reply' = [reply EXCEPT ![Loop] = "error"]
      /\ queue' = [s \in Slot |-> [i \in DOMAIN queue[s] |->
            IF queue[s][i].by = Loop THEN [queue[s][i] EXCEPT !.by = NoOne]
                                     ELSE queue[s][i]]]
      /\ UNCHANGED <<loaded, content, busy, quality, held, saved, turns, unloads, owner>>
      /\ lpc' = "capture" /\ seen' = seen \cup {snap[cand].n}
      /\ UNCHANGED <<pc, target, art, gone, snap, sbusy, todo, cand, warmed, refusedFor, captured,
                     mine, restarts>>
    BY DEF SaveParked, Abandon, LoopGoto, Account, pathVars, reading
<1>2. owner' \in [Slot -> Client \cup {NoOne}]
    BY <1>0, <1>1 DEF ServerTypeOK
<1>3. ServerTypeOK' /\ TasksAreOwn' /\ OneTaskParked' /\ reply'[Loop] = "error"
    BY <1>1, <1>2, LoopLeaves DEF Reply
<1>4. TypeOK'
    BY <1>0, <1>1, <1>3 DEF TypeOK
<1>5. LoopTypeOK'
    BY <1>0, <1>1, <1>4 DEF LoopTypeOK
<1>6. WaitsInPlace'
    BY <1>3 DEF WaitsInPlace
<1>7. History'
    BY <1>0, <1>1
       DEF History, PrefixesHaveTokens, RestoresIntoVacant, ReadingHolds, OwnIsSeen,
           OwnIsNoCandidate, HoldsOwn, HasRead
<1> QED
    BY <1>3, <1>5, <1>6, <1>7 DEF LInv

\* The thread stops waiting inside restore().
LEMMA LoopTimeOutKeeps ==
    ASSUME LInv, lpc = "restoring", TimeOut(Loop), UNCHANGED loopOnly
    PROVE  LInv'
<1>0. LoopTypeOK /\ TypeOK /\ ServerTypeOK /\ History
    BY DEF LInv, LoopTypeOK, TypeOK
<1>1. /\ reply' = [reply EXCEPT ![Loop] = "error"]
      /\ queue' = [s \in Slot |-> [i \in DOMAIN queue[s] |->
            IF queue[s][i].by = Loop THEN [queue[s][i] EXCEPT !.by = NoOne]
                                     ELSE queue[s][i]]]
      /\ UNCHANGED <<loaded, content, busy, quality, held, saved, turns, unloads, owner>>
      /\ UNCHANGED <<pc, target, art, gone>>
    BY DEF TimeOut, Abandon, pathVars
<1>2. owner' \in [Slot -> Client \cup {NoOne}]
    BY <1>0, <1>1 DEF ServerTypeOK
<1>3. ServerTypeOK' /\ TasksAreOwn' /\ OneTaskParked' /\ reply'[Loop] = "error"
    BY <1>1, <1>2, LoopLeaves DEF Reply
<1>4. TypeOK'
    BY <1>0, <1>1, <1>3 DEF TypeOK
<1>5. LoopTypeOK'
    BY <1>0, <1>1, <1>4 DEF LoopTypeOK, loopOnly, memory, reading
<1>6. WaitsInPlace' /\ PrefixesHaveTokens'
    BY <1>0, <1>1, <1>3 DEF WaitsInPlace, History, PrefixesHaveTokens
<1>7. History'
    BY <1>0, <1>1, <1>3, <1>6, HistoryKeeps
<1> QED
    BY <1>3, <1>5, <1>6, <1>7 DEF LInv

\* The daemon restarts.
LEMMA RestartKeeps == ASSUME LInv, Restart PROVE LInv'
<1>0. /\ LoopTypeOK /\ TypeOK /\ ServerTypeOK /\ History /\ Loop \in Client
    BY LoopAssumption DEF LInv, LoopTypeOK, TypeOK
<1>1. /\ reply' = [reply EXCEPT ![Loop] = "none"]
      /\ queue' = [s \in Slot |-> [i \in DOMAIN queue[s] |->
            IF queue[s][i].by = Loop THEN [queue[s][i] EXCEPT !.by = NoOne]
                                     ELSE queue[s][i]]]
      /\ owner' = [s \in Slot |-> IF owner[s] = Loop THEN NoOne ELSE owner[s]]
      /\ UNCHANGED <<loaded, content, busy, quality, held, saved, turns, unloads>>
      /\ lpc' = "sleep" /\ pc' = [pc EXCEPT ![Loop] = "idle"]
      /\ todo' = {} /\ seen' = {} /\ warmed' = {} /\ refusedFor' = {} /\ mine' = {}
      /\ captured' = [s \in Slot |-> 0] /\ restarts < MaxRestarts /\ restarts' = restarts + 1
      /\ UNCHANGED <<target, art, gone, snap, sbusy, cand>>
    BY DEF Restart, LoopGoto, Goto, reading
<1>2. owner' \in [Slot -> Client \cup {NoOne}]
    BY <1>0, <1>1 DEF ServerTypeOK
<1>3. ServerTypeOK' /\ TasksAreOwn' /\ OneTaskParked' /\ reply'[Loop] = "none"
    BY <1>1, <1>2, LoopLeaves DEF Reply
<1>4. pc'[Loop] = "idle" /\ pc' \in [Client -> {"idle"} \cup Active \cup Ended]
    BY <1>0, <1>1 DEF TypeOK
<1>5. TypeOK'
    BY <1>0, <1>1, <1>3, <1>4 DEF TypeOK
<1>6. restarts' \in 0..MaxRestarts
    BY <1>0, <1>1, LoopAssumption DEF LoopTypeOK
<1>7. LoopTypeOK'
    BY <1>0, <1>1, <1>4, <1>5, <1>6 DEF LoopTypeOK
<1>8. WaitsInPlace'
    BY <1>3 DEF WaitsInPlace
<1>9. History'
    BY <1>0, <1>1
       DEF History, PrefixesHaveTokens, RestoresIntoVacant, ReadingHolds, OwnIsSeen,
           OwnIsNoCandidate, HasRead
<1> QED
    BY <1>3, <1>7, <1>8, <1>9 DEF LInv

\* Every step keeps the inductive invariant.
LEMMA StepLInv == LInv /\ [LoopNext]_loopVars => LInv'
<1> SUFFICES ASSUME LInv, [LoopNext]_loopVars PROVE LInv'
    OBVIOUS
<1>1. CASE LoopStep
    BY <1>1, LoopAside, ReadSlotsKeeps, RestoreFreshKeeps, RestoreEndsKeeps, ChooseKeeps,
       PostSaveKeeps, SaveParkedKeeps, LoopPathKeeps, LoopTimeOutKeeps DEF LoopStep
<1>2. CASE Restart
    BY <1>2, RestartKeeps
<1>3. CASE ServerStep /\ UNCHANGED <<pathVars, loopOnly>>
    BY <1>3, ServerKeeps
<1>4. CASE UNCHANGED loopVars
    <2>1. UNCHANGED <<queue, reply, pc, target, art, content, owner, loopOnly>>
        BY <1>4 DEF loopVars, vars, serverVars, pathVars
    <2>2. TypeOK'
        BY <1>4 DEF LInv, LoopTypeOK, TypeOK, ServerTypeOK, loopVars, vars, serverVars, pathVars
    <2> QED
        BY <2>1, <2>2, AroundKeeps
<1> QED
    BY <1>1, <1>2, <1>3, <1>4 DEF LoopNext

-----------------------------------------------------------------------------
\* The types of the thread's variables, and restore() pending exactly while the thread
\* waits for it, for every number of slots, artifacts and restarts.
THEOREM LoopTypeCorrect == LoopSpec => []LoopTypeOK
<1>1. LInv => LoopTypeOK
    BY DEF LInv
<1> QED
    BY InitLInv, StepLInv, <1>1, PTL DEF LoopSpec

\* capture_tick() never saves back what the thread itself restored and verified: the
\* count it remembers is the one that the next readings show (lines 215-221).
THEOREM RestoredStaysUncaptured == LoopSpec => RestoredNotRecaptured
<1>1. LInv => \A s \in mine : content[s].kind = "prefix" /\ owner[s] = Loop
                                  => ~(PostSave /\ cand' = s)
    <2> SUFFICES ASSUME LInv, NEW s \in mine, HoldsOwn(s), PostSave, cand' = s PROVE FALSE
        BY DEF HoldsOwn
    <2>1. lpc = "capture" /\ s \in todo
        BY DEF PostSave, Biggest
    <2> QED
        BY <2>1 DEF LInv, History, OwnIsNoCandidate
<1> QED
    BY InitLInv, StepLInv, <1>1, PTL DEF LoopSpec, RestoredNotRecaptured

=============================================================================
