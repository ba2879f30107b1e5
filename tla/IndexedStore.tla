---------------------------- MODULE IndexedStore ----------------------------
(***************************************************************************)
(* The stores of kv_rosetta/store.py: artifact files beside an SQLite      *)
(* index, under a root that several processes open.  A file and its row    *)
(* are changed one after the other, and no lock spans the two.             *)
(*                                                                         *)
(* Store and ArtifactStore run the same put, get and delete on different   *)
(* keys (the order of ArtifactStore is the one here); touch, list and      *)
(* prune are Store's.  A file is its size and a row the fields that        *)
(* pruning reads.  A copy is one step, and so is each SQL statement, which *)
(* is committed before the next; the database itself never fails.          *)
(***************************************************************************)
EXTENDS Integers, FiniteSets, FiniteSetsExt

CONSTANTS
    Process,
    Digest,
    Sizes,          \* sizes a source file may have, in bytes
    None,
    Limits,         \* what prune is called with: at most bytes and entries, and
                    \* nothing used before cutoff (now - max_age_seconds); 0: no limit
    MaxCalls,       \* bound: calls begun
    MaxStops        \* bound: processes killed in the middle of a call

ASSUME IndexAssumption ==
    /\ Sizes \subseteq Nat \ {0}
    /\ Limits \subseteq [bytes : Nat, entries : Nat, cutoff : Nat] /\ Limits # {}
    /\ MaxCalls \in Nat /\ MaxStops \in Nat

Absent == 0
Size == Sizes \cup {Absent}
Time == 0..MaxCalls
Row == [nbytes : Sizes, created : Time, used : Time]

VARIABLES
    file,       \* the artifact file of each digest, by its size
    part,       \* its .tmp file
    row,        \* its row in the index
    clock,      \* time: one tick a call
    stops,      \* processes killed so far
    pc,         \* where each process is in its call
    call,       \* the call: an operation, its arguments and its local variables
    alone       \* history: nobody else was in a call during this one

disk == <<file, part, row>>
vars == <<disk, clock, stops, pc, call, alone>>

Operation == {"put", "get", "touch", "delete", "prune"}
Call == [op : Operation, digest : Digest \cup {None}, source : Size, limits : Limits,
         now : Time, created : Time, nbytes : Size,
         view : [Digest -> Row \cup {None}],     \* the rows prune listed,
         left : SUBSET Digest,                    \* its set "remaining"
         total : Int,                             \* and its count of bytes
         victim : SUBSET Digest]                  \* the record being removed

\* A call of o that takes no other argument.
Of(o, now) ==
    [op |-> o, digest |-> None, source |-> Absent,
     limits |-> CHOOSE l \in Limits : TRUE, now |-> now, created |-> 0,
     nbytes |-> Absent, view |-> [d \in Digest |-> None], left |-> {}, total |-> 0,
     victim |-> {}]
NoCall == Of("get", 0)

Entry(o) == CASE o = "put" -> "copy" [] o = "get" -> "select" [] o = "touch" -> "touch"
              [] o = "delete" -> "find" [] o = "prune" -> "list"

Held == {d \in Digest : row[d] # None}
TotalBytes == MapThenSumSet(LAMBDA d : row[d].nbytes, Held)

-----------------------------------------------------------------------------
Init ==
    /\ file = [d \in Digest |-> Absent]
    /\ part = [d \in Digest |-> Absent]
    /\ row = [d \in Digest |-> None]
    /\ clock = 0
    /\ stops = 0
    /\ pc = [p \in Process |-> "idle"]
    /\ call = [p \in Process |-> NoCall]
    /\ alone = [p \in Process |-> FALSE]

Target(p) == call[p].digest
Goto(p, label) == pc' = [pc EXCEPT ![p] = label]
Step(p, from, to) == pc[p] = from /\ Goto(p, to)

\* The call returns or raises, and its locals go.
Leave(p) == Goto(p, "idle") /\ call' = [call EXCEPT ![p] = NoCall]

Same == UNCHANGED <<clock, stops, alone>>

Begin(p) ==
    /\ pc[p] = "idle" /\ clock < MaxCalls
    /\ clock' = clock + 1
    /\ \E o \in Operation, d \in Digest, n \in Sizes, l \in Limits :
            /\ call' = [call EXCEPT ![p] =
                    CASE o = "put" -> [Of(o, clock') EXCEPT !.digest = d, !.source = n]
                      [] o = "prune" -> [Of(o, clock') EXCEPT !.limits = l]
                      [] OTHER -> [Of(o, clock') EXCEPT !.digest = d]]
            /\ Goto(p, Entry(o))
    /\ alone' = [q \in Process |-> q = p /\ \A o \in Process : pc[o] = "idle"]
    /\ UNCHANGED <<disk, stops>>

\* The process is killed: what it wrote stays.
Stop(p) ==
    /\ pc[p] # "idle" /\ stops < MaxStops
    /\ stops' = stops + 1
    /\ Leave(p)
    /\ UNCHANGED <<disk, clock, alone>>

-----------------------------------------------------------------------------
(* put() *)

CopyIn(p) ==
    /\ Step(p, "copy", "install")
    /\ part' = [part EXCEPT ![Target(p)] = call[p].source]
    /\ UNCHANGED <<file, row, call>> /\ Same

Install(p) ==
    /\ Step(p, "install", "lookup")
    /\ part[Target(p)] # Absent
    /\ file' = [file EXCEPT ![Target(p)] = part[Target(p)]]
    /\ part' = [part EXCEPT ![Target(p)] = Absent]
    /\ UNCHANGED <<row, call>> /\ Same

\* Another writer of the same digest has taken the staging file: os.replace raises.
InstallFails(p) ==
    /\ pc[p] = "install" /\ part[Target(p)] = Absent
    /\ Leave(p)
    /\ UNCHANGED disk /\ Same

\* SELECT created.
LookUp(p) ==
    /\ Step(p, "lookup", "stat")
    /\ LET r == row[Target(p)] IN
       call' = [call EXCEPT ![p].created = IF r = None THEN call[p].now ELSE r.created]
    /\ UNCHANGED disk /\ Same

\* Mutant of Stat: a file that has gone counts as an empty one.
StatEmpty(p) ==
    /\ Step(p, "stat", "record")
    /\ call' = [call EXCEPT ![p].nbytes = file[Target(p)]]
    /\ UNCHANGED disk /\ Same

\* The size is taken from the file that is there now.
Stat(p) ==
    /\ Step(p, "stat", "record")
    /\ file[Target(p)] # Absent
    /\ call' = [call EXCEPT ![p].nbytes = file[Target(p)]]
    /\ UNCHANGED disk /\ Same

StatFails(p) ==
    /\ pc[p] = "stat" /\ file[Target(p)] = Absent
    /\ Leave(p)
    /\ UNCHANGED disk /\ Same

\* Mutant of Record: a row already there is left as it is.
RecordOnce(p) ==
    /\ pc[p] = "record" /\ Leave(p)
    /\ row' = [row EXCEPT ![Target(p)] = IF @ # None THEN @ ELSE
            [nbytes |-> call[p].nbytes, created |-> call[p].created, used |-> call[p].now]]
    /\ UNCHANGED <<file, part>> /\ Same

\* INSERT OR REPLACE.
Record(p) ==
    /\ pc[p] = "record" /\ Leave(p)
    /\ row' = [row EXCEPT ![Target(p)] =
            [nbytes |-> call[p].nbytes, created |-> call[p].created, used |-> call[p].now]]
    /\ UNCHANGED <<file, part>> /\ Same

-----------------------------------------------------------------------------
(* get(), touch() and delete() *)

\* A row without a file is forgotten; without a row there is nothing to return.
Select(p) ==
    /\ pc[p] = "select"
    /\ IF row[Target(p)] = None
       THEN Leave(p)
       ELSE Goto(p, "exists") /\ UNCHANGED call
    /\ UNCHANGED disk /\ Same

Exists(p) ==
    /\ pc[p] = "exists"
    /\ IF file[Target(p)] # Absent
       THEN Leave(p)
       ELSE Goto(p, "drop") /\ UNCHANGED call
    /\ UNCHANGED disk /\ Same

Touch(p) ==
    /\ pc[p] = "touch" /\ Leave(p)
    /\ row' = [row EXCEPT ![Target(p)] =
            IF @ = None THEN None ELSE [@ EXCEPT !.used = call[p].now]]
    /\ UNCHANGED <<file, part>> /\ Same

Find(p) ==
    /\ pc[p] = "find"
    /\ IF row[Target(p)] = None
       THEN Leave(p)
       ELSE Goto(p, "unlink") /\ UNCHANGED call
    /\ UNCHANGED disk /\ Same

Unlink(p) ==
    /\ Step(p, "unlink", "drop")
    /\ file' = [file EXCEPT ![Target(p)] = Absent]
    /\ UNCHANGED <<part, row, call>> /\ Same

\* delete() raises, and keeps the row.
UnlinkFails(p) ==
    /\ pc[p] = "unlink" /\ file[Target(p)] # Absent
    /\ Leave(p)
    /\ UNCHANGED disk /\ Same

Drop(p) ==
    /\ pc[p] = "drop" /\ Leave(p)
    /\ row' = [row EXCEPT ![Target(p)] = None]
    /\ UNCHANGED <<file, part>> /\ Same

-----------------------------------------------------------------------------
(* prune(): one listing, then three passes over it, oldest record first *)

\* Mutant of List: what has no file is not worth listing.
ListFiles(p) ==
    /\ Step(p, "list", "age")
    /\ call' = [call EXCEPT ![p].view = row,
                          ![p].left = {d \in Held : file[d] # Absent}]
    /\ UNCHANGED disk /\ Same

List(p) ==
    /\ Step(p, "list", "age")
    /\ call' = [call EXCEPT ![p].view = row, ![p].left = Held]
    /\ UNCHANGED disk /\ Same

TooOld(p) ==
    {d \in call[p].left : call[p].view[d].used < call[p].limits.cutoff}
TooMany(p) ==
    call[p].limits.entries > 0 /\ Cardinality(call[p].left) > call[p].limits.entries
TooLarge(p) ==
    call[p].limits.bytes > 0 /\ call[p].total > call[p].limits.bytes

\* The pass p is in has something to remove.
Exceeds(p) ==
    /\ call[p].left # {}
    /\ CASE pc[p] = "age" -> TooOld(p) # {}
         [] pc[p] = "count" -> TooMany(p)
         [] pc[p] = "bytes" -> TooLarge(p)
         [] OTHER -> FALSE

\* The first of records_asc that is still in remaining (two may be equally old).
Oldest(p) ==
    {d \in call[p].left :
        \A e \in call[p].left : call[p].view[d].used <= call[p].view[e].used}

\* The file goes, or cannot be removed, which is not noticed.
RemoveFile(p) ==
    /\ Exceeds(p) /\ call[p].victim = {}
    /\ \E d \in Oldest(p) :
            /\ call' = [call EXCEPT ![p].victim = {d}]
            /\ file' \in {file, [file EXCEPT ![d] = Absent]}
    /\ UNCHANGED <<part, row, pc>> /\ Same

\* Mutant of RemoveRow: the count of bytes is not brought down.
RemoveRowUncounted(p) ==
    \E d \in call[p].victim :
        /\ row' = [row EXCEPT ![d] = None]
        /\ call' = [call EXCEPT ![p].victim = {}, ![p].left = @ \ {d}]
        /\ UNCHANGED <<file, part, pc>> /\ Same

RemoveRow(p) ==
    \E d \in call[p].victim :
        /\ row' = [row EXCEPT ![d] = None]
        /\ call' = [call EXCEPT ![p].victim = {}, ![p].left = @ \ {d},
                              ![p].total = IF pc[p] = "bytes"
                                           THEN @ - call[p].view[d].nbytes ELSE @]
        /\ UNCHANGED <<file, part, pc>> /\ Same

\* A pass is over; the third begins by counting the bytes in the index.
NextPass(p) ==
    /\ pc[p] \in {"age", "count", "bytes"}
    /\ ~Exceeds(p) /\ call[p].victim = {}
    /\ CASE pc[p] = "age" -> Goto(p, "count") /\ UNCHANGED call
         [] pc[p] = "count" -> /\ Goto(p, "bytes")
                               /\ call' = [call EXCEPT ![p].total = TotalBytes]
         [] pc[p] = "bytes" -> Leave(p)
    /\ UNCHANGED disk /\ Same

-----------------------------------------------------------------------------
Put(p) == CopyIn(p) \/ Install(p) \/ InstallFails(p) \/ LookUp(p) \/ Stat(p)
            \/ StatFails(p) \/ Record(p)
Delete(p) == Find(p) \/ Unlink(p) \/ UnlinkFails(p)
Prune(p) == List(p) \/ RemoveFile(p) \/ RemoveRow(p) \/ NextPass(p)

Next ==
    \E p \in Process :
        \/ Begin(p) \/ Stop(p)
        \/ Put(p) \/ Select(p) \/ Exists(p) \/ Touch(p) \/ Delete(p) \/ Drop(p)
        \/ Prune(p)

Spec == Init /\ [][Next]_vars

-----------------------------------------------------------------------------
(* Properties *)

\* Every variable has its type: no row describes an empty file, and only prune holds
\* a listing.
IndexTypeOK ==
    /\ file \in [Digest -> Size]
    /\ part \in [Digest -> Size]
    /\ row \in [Digest -> Row \cup {None}]
    /\ clock \in Time
    /\ stops \in 0..MaxStops
    /\ pc \in [Process -> {"idle", "copy", "install", "lookup", "stat", "record",
                           "select", "exists", "touch", "find", "unlink", "drop",
                           "list", "age", "count", "bytes"}]
    /\ call \in [Process -> Call]
    /\ alone \in [Process -> BOOLEAN]
    /\ \A p \in Process : call[p].left # {} => call[p].op = "prune"

\* The call of p is over at the end of this step, was not killed, and ran alone.
Returns(p, o) ==
    /\ pc[p] # "idle" /\ pc'[p] = "idle" /\ stops' = stops
    /\ call[p].op = o /\ alone[p]

\* A put that ran alone has left the file it was given and a row that says so,
\* whatever it met: the .tmp of a killed put, a file without a row, a row without a
\* file (put, lines 392-431).
PutIsRecorded ==
    [][\A p \in Process : Returns(p, "put") =>
        /\ file'[Target(p)] = call[p].source
        /\ row'[Target(p)].nbytes = call[p].source
        /\ row'[Target(p)].used = call[p].now]_vars

\* A prune that ran alone has left no record that a limit it was given excludes,
\* although it decides from a listing and a count it only keeps up to date itself
\* (prune, lines 264-318).
PruneMeetsItsLimits ==
    [][\A p \in Process : Returns(p, "prune") =>
        LET limits == call[p].limits IN
        /\ limits.bytes > 0 => TotalBytes' <= limits.bytes
        /\ limits.entries > 0 => Cardinality(Held') <= limits.entries
        /\ \A d \in Held' : row'[d].used >= limits.cutoff]_vars

\* Nor has it removed a record without need: with the last of those it removed put
\* back, some limit would be exceeded again.
PruneRemovesNoMore ==
    [][\A p \in Process : Returns(p, "prune") =>
        LET limits == call[p].limits
            listed == {d \in Digest : call[p].view[d] # None}
            gone == listed \ Held'
            last == {d \in gone : \A e \in gone :
                        call[p].view[e].used <= call[p].view[d].used}
        IN  \A d \in last :
                \/ call[p].view[d].used < limits.cutoff
                \/ limits.entries > 0 /\ Cardinality(Held') >= limits.entries
                \/ /\ limits.bytes > 0
                   /\ TotalBytes' + call[p].view[d].nbytes > limits.bytes]_vars

=============================================================================
