---------------------------- MODULE ProcessProofs ----------------------------
(***************************************************************************)
(* Proofs about Process, for any number of processes, object keys, images, *)
(* articles, and failures, and any limits of the image gate.               *)
(***************************************************************************)
EXTENDS Process, TLAPS

-----------------------------------------------------------------------------
(* The arithmetic of the image gate.                                       *)

\* What the division tells of an accepted image.
LEMMA GateBoundsPixels ==
  ASSUME NEW w \in Int, NEW h \in Int, NEW P \in Nat, w >= 1, h >= 1, w <= P \div h
  PROVE  w * h <= P
<1>1. (P \div h) * h <= P
  OBVIOUS
<1>2. w * h <= (P \div h) * h
  OBVIOUS
<1> QED
  BY <1>1, <1>2

\* What quotient and remainder are.
LEMMA Quotient ==
  ASSUME NEW x \in Nat, NEW m \in Nat \ {0}
  PROVE  /\ x \div m \in Nat
         /\ x = m * (x \div m) + (x % m)
         /\ x % m \in 0..(m - 1)
OBVIOUS

\* A side that is at most the longer one is scaled to at most D, and to nothing only if
\* it is D times shorter.
LEMMA ScaledFits ==
  ASSUME NEW side \in Nat \ {0}, NEW longer \in Nat \ {0}, side <= longer,
         NEW n \in Scaled(side, longer)
  PROVE  n \in 0..MaxDimension /\ (n = 0 => longer >= MaxDimension * side)
<1>1. PICK x \in Nat : x = side * MaxDimension
  BY GateAssumption
<1>2. x >= 1 /\ x <= longer * MaxDimension /\ x = MaxDimension * side
  BY <1>1, GateAssumption
<1>3. PICK q \in Nat : q = x \div longer
  BY Quotient
<1>4. PICK rest \in 0..(longer - 1) : rest = x % longer
  BY Quotient
<1>5. x = longer * q + rest
  BY <1>3, <1>4, Quotient
<1>6. n = q \/ (rest = 0 /\ n = q - 1)
  BY <1>1, <1>3, <1>4 DEF Scaled
<1>7. q <= MaxDimension
  <2>1. longer * q <= longer * MaxDimension
    BY <1>2, <1>4, <1>5, GateAssumption
  <2> QED
    BY <2>1, GateAssumption
<1>8. rest = 0 => q >= 1
  BY <1>2, <1>5
<1>9. q = 0 => x <= longer
  BY <1>4, <1>5
<1>10. q = 1 /\ rest = 0 => x <= longer
  BY <1>5
<1> QED
  BY <1>2, <1>6, <1>7, <1>8, <1>9, <1>10, GateAssumption

\* Whatever the limits: an accepted image comes out of processImage within them.
LEMMA GateFits ==
  ASSUME NEW size \in Int \X Int, Accepts(size), NEW stored \in Processed(size)
  PROVE  Fits(size, stored)
<1>1. PICK w \in Nat \ {0}, h \in Nat \ {0} : size = <<w, h>> /\ w <= MaxPixels \div h
  BY DEF Accepts
<1>2. w * h <= MaxPixels
  BY <1>1, GateBoundsPixels, GateAssumption
<1>3. CASE w <= MaxDimension /\ h <= MaxDimension
  <2>1. stored = <<w, h>>
    BY <1>1, <1>3 DEF Processed
  <2> QED
    BY <1>1, <1>2, <1>3, <2>1, GateAssumption DEF Fits
<1>4. CASE ~(w <= MaxDimension /\ h <= MaxDimension)
  <2>1. PICK longer \in Nat \ {0} : longer = Longer(size) /\ w <= longer /\ h <= longer
    BY <1>1 DEF Longer
  <2>2. stored \in Scaled(w, longer) \X Scaled(h, longer)
    BY <1>1, <1>4, <2>1 DEF Processed
  <2>3. PICK a \in Scaled(w, longer), b \in Scaled(h, longer) : stored = <<a, b>>
    BY <2>2
  <2>4. /\ a \in 0..MaxDimension /\ (a = 0 => longer >= MaxDimension * w)
        /\ b \in 0..MaxDimension /\ (b = 0 => longer >= MaxDimension * h)
    BY <2>1, ScaledFits
  <2>5. 0 \in {a, b} => longer >= MaxDimension * Shorter(size)
    <3>1. CASE w <= h
      <4>1. MaxDimension * w <= MaxDimension * h
        BY <3>1, GateAssumption
      <4>2. h > w => Shorter(size) = w
        BY <1>1 DEF Shorter
      <4>3. h = w => Shorter(size) = w
        BY <1>1 DEF Shorter
      <4> QED
        BY <2>4, <3>1, <4>1, <4>2, <4>3, GateAssumption
    <3>2. CASE h < w
      <4>1. MaxDimension * h <= MaxDimension * w
        BY <3>2, GateAssumption
      <4>2. Shorter(size) = h
        BY <1>1, <3>2 DEF Shorter
      <4> QED
        BY <2>4, <4>1, <4>2, GateAssumption
    <3> QED
      BY <3>1, <3>2
  <2> QED
    BY <1>1, <1>2, <2>1, <2>3, <2>4, <2>5 DEF Fits
<1> QED
  BY <1>3, <1>4

-----------------------------------------------------------------------------
(* The local object store.                                                 *)

Made == {d \in Data : Fits(d.source, d.size)}

Putting(p) == op[p] # None /\ op[p].next \in {"open", "write", "rename"}

\* No two processes write one object, what is about to be renamed is whole, and only
\* what was renamed or removed is seen.
StorageInv ==
  /\ file \in [Keys -> Made \cup {None}]
  /\ temp \in [Keys -> Made \cup {None, Partial}]
  /\ op \in [Processes -> Ops \cup {None}]
  /\ answer \in [Processes -> {"none", "ok", "error"}]
  /\ drawn \subseteq Keys
  /\ \A p \in Processes :
       /\ Putting(p) => op[p].data \in Made /\ op[p].key \in drawn
       /\ At(p, "remove") => op[p].data = None
       /\ At(p, "rename") => temp[op[p].key] = op[p].data
  /\ \A p, q \in Processes : p # q /\ Putting(p) /\ Putting(q) => op[p].key # op[q].key

\* The storage's invariant holds at the start.
LEMMA StorageInvInit == Init => StorageInv
BY DEF Init, StorageInit, StorageInv, Putting, At

\* What an upload hands to the store fits.
LEMMA UploadsFit ==
  ASSUME NEW image \in Images, Accepts(image), NEW jpeg \in Jpegs(image)
  PROVE  jpeg \in Made
<1>1. image \in Int \X Int /\ jpeg \in Data
  BY ImagesAssumption
<1>2. PICK size \in Processed(image) : jpeg = [source |-> image, size |-> size]
  BY DEF Jpegs
<1>3. Fits(image, size)
  BY <1>1, GateFits
<1> QED
  BY <1>1, <1>2, <1>3 DEF Made

\* The system calls.
LEMMA StorageStepSafe ==
  ASSUME StorageInv, NEW p \in Processes, StorageStep(p), UNCHANGED drawn
  PROVE  StorageInv'
<1> USE SentinelAssumption DEF StorageInv, Putting, At, Goto, Ops
<1>1. CASE OpenTemp(p)
  BY <1>1 DEF OpenTemp
<1>2. CASE WriteTemp(p)
  BY <1>2 DEF WriteTemp
<1>3. CASE Rename(p)
  BY <1>3 DEF Rename
<1>4. CASE RemoveFile(p)
  BY <1>4 DEF RemoveFile
<1>5. CASE Return(p)
  BY <1>5 DEF Return, Leave
<1> QED
  BY <1>1, <1>2, <1>3, <1>4, <1>5 DEF StorageStep

\* A call that ends.
LEMMA LeaveSafe ==
  ASSUME StorageInv, NEW p \in Processes, NEW how \in {"none", "ok", "error"}, Leave(p, how), UNCHANGED drawn
  PROVE  StorageInv'
BY SentinelAssumption DEF StorageInv, Putting, At, Ops, Leave

\* A call that begins.
LEMMA EnterSafe ==
  ASSUME StorageInv, NEW p \in Processes
  PROVE  /\ RemoveObject(p) => StorageInv'
         /\ \A image \in Images : Upload(p, image) => StorageInv'
<1> USE SentinelAssumption DEF StorageInv, Putting, At, Ops, Enter
<1>1. ASSUME RemoveObject(p)
      PROVE  StorageInv'
  BY <1>1 DEF RemoveObject
<1>2. ASSUME NEW image \in Images, Upload(p, image)
      PROVE  StorageInv'
  <2>1. PICK k \in Keys \ drawn, jpeg \in Jpegs(image) :
          drawn' = drawn \cup {k} /\ Enter(p, k, jpeg, "open")
    BY <1>2 DEF Upload
  <2>2. jpeg \in Made /\ jpeg \in Data
    BY <1>2, UploadsFit DEF Upload, Made
  <2> QED
    BY <2>1, <2>2
<1> QED
  BY <1>1, <1>2

\* Every step keeps it.
LEMMA StorageInvNext == StorageInv /\ [Next]_vars => StorageInv'
<1> SUFFICES ASSUME StorageInv, [Next]_vars
             PROVE  StorageInv'
  OBVIOUS
<1>1. CASE UNCHANGED <<storageVars, drawn>>
  BY <1>1 DEF StorageInv, storageVars, Putting, At
<1>2. ASSUME NEW p \in Processes, Dies(p), UNCHANGED drawn
      PROVE  StorageInv'
  BY <1>1, <1>2, LeaveSafe DEF Dies
<1>3. ASSUME NEW p \in Processes, ReturnsError(p), UNCHANGED drawn
      PROVE  StorageInv'
  BY <1>3, LeaveSafe DEF ReturnsError
<1>4. ASSUME NEW p \in Processes,
             (RemoveObject(p) \/ \E image \in Images : Upload(p, image)) \/ (StorageStep(p) /\ UNCHANGED drawn)
      PROVE  StorageInv'
  BY <1>4, EnterSafe, StorageStepSafe
<1> QED
  BY <1>1, <1>2, <1>3, <1>4 DEF Next, vars, processVars, Crash, Deadline

\* Whatever fails, crashes or races, only whole images within the limits are stored
\* under an object's name.
THEOREM ImagesAlwaysFit == Spec => []StoredImagesFit
<1>1. StorageInv => StoredImagesFit
  BY DEF StorageInv, StoredImagesFit, Made
<1> QED
  BY <1>1, StorageInvInit, StorageInvNext, PTL DEF Spec

\* What the abstract store sees of a step of p.
LEMMA CallsFollow ==
  ASSUME NEW p \in Processes, NEW o, op \in [Processes -> Ops \cup {None}], op' = [op EXCEPT ![p] = o]
  PROVE  [q \in Processes |-> CallOf(op'[q])] = [[q \in Processes |-> CallOf(op[q])] EXCEPT ![p] = CallOf(o)]
OBVIOUS

\* A call in progress is a call of the abstract store.
LEMMA CallOfOps ==
  /\ CallOf(None) = None
  /\ \A o \in Ops :
       /\ CallOf(o) # None
       /\ CallOf(o) = [key |-> o.key, data |-> o.data, done |-> CallOf(o).done]
       /\ CallOf(o).done \in BOOLEAN
       /\ CallOf(o).done <=> o.next = "return"
<1>1. CallOf(None) = None
  BY DEF CallOf
<1>2. ASSUME NEW o \in Ops
      PROVE  /\ CallOf(o) # None
             /\ CallOf(o) = [key |-> o.key, data |-> o.data, done |-> CallOf(o).done]
             /\ CallOf(o).done \in BOOLEAN
             /\ CallOf(o).done <=> o.next = "return"
  <2>1. o # None /\ o.key \in Keys /\ o.data \in Data \cup {None}
    BY SentinelAssumption DEF Ops
  <2>2. PICK done \in BOOLEAN : done = (o.next = "return")
    BY Zenon
  <2>3. CallOf(o) = [key |-> o.key, data |-> o.data, done |-> done]
    BY <2>1, <2>2, Zenon DEF CallOf
  <2>4. CallOf(o) \in [key : Keys, data : Data \cup {None}, done : BOOLEAN] /\ CallOf(o).done = done
    BY <2>1, <2>3
  <2> QED
    BY <2>2, <2>3, <2>4, SentinelAssumption
<1> QED
  BY <1>1, <1>2

\* A call that ends, with an answer or without.
LEMMA LeaveEnds ==
  ASSUME op \in [Processes -> Ops \cup {None}],
         NEW p \in Processes, NEW how \in {"none", "ok", "error"}, Leave(p, how),
         how = "ok" => At(p, "return")
  PROVE  Store!Ends(p, how)
<1>1. CallOf(op[p]) # None /\ CallOf(None) = None /\ (how = "ok" => CallOf(op[p]).done)
  BY CallOfOps DEF Leave, At
<1>2. [q \in Processes |-> CallOf(op'[q])] = [[q \in Processes |-> CallOf(op[q])] EXCEPT ![p] = None]
  BY <1>1, CallsFollow DEF Leave
<1> QED
  BY <1>1, <1>2 DEF Leave, Store!Ends

\* A rename and a removal take effect.
LEMMA RenameTakesEffect ==
  ASSUME StorageInv, NEW p \in Processes, Rename(p) \/ RemoveFile(p)
  PROVE  Store!TakesEffect(p)
<1>1. PICK o : o = [op[p] EXCEPT !.next = "return"]
  OBVIOUS
<1>2. op[p] \in Ops /\ o \in Ops /\ op' = [op EXCEPT ![p] = o] /\ op[p].next # "return"
  BY <1>1 DEF Rename, RemoveFile, StorageInv, At, Goto, Ops
<1>3. o.key = op[p].key /\ o.data = op[p].data /\ o.next = "return"
  BY <1>1, <1>2 DEF Ops
<1>4. CallOf(o) = [CallOf(op[p]) EXCEPT !.done = TRUE]
  BY <1>2, <1>3, CallOfOps
<1>5. CallOf(op[p]) # None /\ ~CallOf(op[p]).done
      /\ CallOf(op[p]).key = op[p].key /\ CallOf(op[p]).data = op[p].data
  BY <1>2, CallOfOps
<1>6. [q \in Processes |-> CallOf(op'[q])] = [[q \in Processes |-> CallOf(op[q])] EXCEPT ![p] = CallOf(o)]
  BY <1>2, CallsFollow DEF StorageInv
<1>7. file' = [file EXCEPT ![op[p].key] = op[p].data] /\ UNCHANGED answer
  BY <1>2 DEF Rename, RemoveFile, StorageInv, At, Goto
<1> QED
  BY <1>4, <1>5, <1>6, <1>7 DEF Store!TakesEffect

\* What a Put does to its temporary file is not seen.
LEMMA TempIsNotSeen ==
  ASSUME StorageInv, NEW p \in Processes, OpenTemp(p) \/ WriteTemp(p)
  PROVE  UNCHANGED Store!vars
<1>1. PICK next \in {"write", "rename"} : Goto(p, next) /\ UNCHANGED file
  BY DEF OpenTemp, WriteTemp
<1>2. CallOf([op[p] EXCEPT !.next = next]) = CallOf(op[p])
  BY <1>1, SentinelAssumption DEF OpenTemp, WriteTemp, CallOf, StorageInv, At, Ops
<1>3. op' = [op EXCEPT ![p] = [op[p] EXCEPT !.next = next]] /\ UNCHANGED answer
  BY <1>1 DEF Goto
<1>4. [q \in Processes |-> CallOf(op'[q])] = [q \in Processes |-> CallOf(op[q])]
  BY <1>2, <1>3, CallsFollow DEF StorageInv
<1> QED
  BY <1>1, <1>3, <1>4 DEF Store!vars

\* A call that begins.
LEMMA EnterCalls ==
  ASSUME StorageInv, NEW p \in Processes, NEW k \in Keys, NEW d \in Data \cup {None},
         NEW next \in {"open", "remove"}, Enter(p, k, d, next)
  PROVE  Store!Call(p, k, d)
<1>1. PICK o \in Ops : o = [key |-> k, data |-> d, next |-> next]
  BY DEF Ops
<1>2. CallOf(o) = [key |-> k, data |-> d, done |-> FALSE]
  BY <1>1, CallOfOps
<1>3. op[p] = None /\ CallOf(None) = None
  BY CallOfOps DEF Enter
<1>4. [q \in Processes |-> CallOf(op'[q])] = [[q \in Processes |-> CallOf(op[q])] EXCEPT ![p] = CallOf(o)]
  BY <1>1, CallsFollow DEF StorageInv, Enter
<1> QED
  BY <1>2, <1>3, <1>4 DEF Enter, Store!Call

\* The system calls are steps of the abstract store: a Put or a Delete takes effect in
\* its rename or its remove, all at once, and the rest is not seen.
THEOREM LocalStorageKeepsItsPromise == Spec => ImplementsObjectStore
<1>1. Init => Store!Init
  BY DEF Init, StorageInit, CallOf, Store!Init
<1>2. StorageInv /\ [Next]_vars => [Store!Next]_(Store!vars)
  <2> SUFFICES ASSUME StorageInv, [Next]_vars
               PROVE  [Store!Next]_(Store!vars)
    OBVIOUS
  <2>1. CASE UNCHANGED storageVars
    BY <2>1 DEF storageVars, Store!vars
  <2>2. ASSUME NEW p \in Processes, Dies(p) \/ ReturnsError(p) \/ Return(p)
        PROVE  [Store!Next]_(Store!vars)
    BY <2>1, <2>2, LeaveEnds DEF Dies, ReturnsError, Return, StorageInv, Store!Next
  <2>3. ASSUME NEW p \in Processes, RemoveObject(p)
        PROVE  Store!Next
    BY <2>3, EnterCalls DEF RemoveObject, StorageInv, Store!Next
  <2>4. ASSUME NEW p \in Processes, NEW image \in Images, Upload(p, image)
        PROVE  Store!Next
    BY <2>4, EnterCalls, UploadsFit DEF Upload, Made, Store!Next
  <2>5. ASSUME NEW p \in Processes, StorageStep(p)
        PROVE  [Store!Next]_(Store!vars)
    BY <2>2, <2>5, RenameTakesEffect, TempIsNotSeen DEF StorageStep, Store!Next
  <2> QED
    BY <2>1, <2>2, <2>3, <2>4, <2>5 DEF Next, vars, Crash, Deadline
<1> QED
  BY <1>1, <1>2, StorageInvInit, StorageInvNext, PTL DEF Spec, ImplementsObjectStore, Store!Spec

-----------------------------------------------------------------------------
(* The migration files.                                                    *)

WellFormed(d) ==
  /\ d = [applied |-> d.applied, ran |-> d.ran, sources |-> d.sources, links |-> d.links,
          categories |-> d.categories]
  /\ d.applied \subseteq Versions
  /\ d.ran \subseteq Versions

\* Where a process is tells which files are applied, and what its transaction adds.
AtItsFile(p) ==
  /\ lock = p <=> stage[p] \in {"record", "commit"}
  /\ stage[p] \in Migrating => 1..(ver[p] - 1) \subseteq db.applied
  /\ stage[p] \in {"run", "record", "commit"} => ver[p] \in Versions
  /\ stage[p] \in {"record", "commit"} => work.ran = db.ran \cup {ver[p]}
  /\ stage[p] = "record" => work.applied = db.applied
  /\ stage[p] = "commit" => ver[p] \notin db.applied /\ work.applied = db.applied \cup {ver[p]}
  /\ stage[p] \in {"ready", "serving", "draining"} => db.applied = Versions

MigrationTyped ==
  /\ WellFormed(db) /\ WellFormed(work)
  /\ lock \in Processes \cup {Nobody}
  /\ stage \in [Processes -> Stages]
  /\ ver \in [Processes -> 1..Newest + 1]

FilesInOrder == db.ran = db.applied /\ \E n \in 0..Newest : db.applied = 1..n

MigrationInv == MigrationTyped /\ FilesInOrder /\ \A p \in Processes : AtItsFile(p)

\* A file leaves the list of applied files to Record.
LEMMA BodyRuns ==
  ASSUME NEW d, WellFormed(d), NEW v \in Versions
  PROVE  WellFormed(Body(v, d)) /\ Body(v, d).applied = d.applied /\ Body(v, d).ran = d.ran \cup {v}
<1>1. PICK c : c = CASE v = 4 -> SplitSources(d) [] v = 6 -> AddCategories(d) [] OTHER -> d
  OBVIOUS
<1>2. c = [applied |-> d.applied, ran |-> d.ran, sources |-> c.sources, links |-> c.links,
           categories |-> c.categories]
  <2>1. CASE v = 4
    <3>1. PICK sources, links : SplitSources(d) = [d EXCEPT !.sources = sources, !.links = links]
      BY Zenon DEF SplitSources
    <3>2. PICK applied, ran, older, categories, oldest :
            d = [applied |-> applied, ran |-> ran, sources |-> older, links |-> oldest, categories |-> categories]
      BY Zenon DEF WellFormed
    <3>3. c = [d EXCEPT !.sources = sources, !.links = links]
      BY <1>1, <2>1, <3>1
    <3>4. c = [applied |-> applied, ran |-> ran, sources |-> sources, links |-> links, categories |-> categories]
      BY <3>2, <3>3
    <3> QED
      BY <3>2, <3>4
  <2>2. CASE v = 6
    BY <1>1, <2>2 DEF WellFormed, AddCategories
  <2>3. CASE v \notin {4, 6}
    BY <1>1, <2>3 DEF WellFormed
  <2> QED
    BY <2>1, <2>2, <2>3
<1>3. Body(v, d) = [c EXCEPT !.ran = @ \cup {v}]
  BY <1>1 DEF Body
<1> QED
  BY <1>2, <1>3 DEF WellFormed

\* The upgrade's invariant holds at the start.
LEMMA MigrationInvInit == Init => MigrationInv
<1> SUFFICES ASSUME Init
             PROVE  MigrationInv
  OBVIOUS
<1>1. PICK sources, links, categories :
        \/ db = [applied |-> 1..3, ran |-> 1..3, sources |-> sources, links |-> links, categories |-> categories]
        \/ db = [applied |-> {}, ran |-> {}, sources |-> sources, links |-> links, categories |-> categories]
  <2>1. (\E links \in OldLinks, old \in OldCategories : db = OldDatabase(links, old)) \/ db = EmptyDatabase
    BY DEF Init, MigrationInit
  <2>2. ASSUME NEW links \in OldLinks, NEW old \in OldCategories, db = OldDatabase(links, old)
        PROVE  \E s, c : db = [applied |-> 1..3, ran |-> 1..3, sources |-> s, links |-> links, categories |-> c]
    BY <2>2, Zenon DEF OldDatabase
  <2>3. CASE db = EmptyDatabase
    BY <2>3, Zenon DEF EmptyDatabase
  <2> QED
    BY <2>1, <2>2, <2>3
<1>2. WellFormed(db)
  BY <1>1, NewestAssumption DEF WellFormed, Versions
<1>3. FilesInOrder
  <2>1. db.applied = 1..3 \/ db.applied = 1..0
    BY <1>1
  <2>2. db.ran = db.applied
    BY <1>1
  <2> QED
    BY <2>1, <2>2, NewestAssumption DEF FilesInOrder
<1> QED
  BY <1>2, <1>3, NobodyAssumption, NewestAssumption
     DEF Init, MigrationInit, MigrationInv, MigrationTyped, AtItsFile, Stages, Migrating

\* A process that ends gives the lock back and its transaction up.
LEMMA ExitSafe ==
  ASSUME MigrationInv, NEW p \in Processes, Exit(p)
  PROVE  MigrationInv'
<1> USE DEF MigrationInv
<1>1. db' = db /\ lock' \in {lock, Nobody} /\ work' \in {db, work}
  BY DEF Exit
<1>2. MigrationTyped'
  BY <1>1, NewestAssumption DEF Exit, GoOn, MigrationTyped, Stages
<1>3. FilesInOrder'
  BY <1>1 DEF FilesInOrder
<1>4. AtItsFile(p)'
  BY <1>1, NobodyAssumption DEF Exit, GoOn, MigrationTyped, AtItsFile, Migrating
<1>5. ASSUME NEW q \in Processes, q # p
      PROVE  AtItsFile(q)'
  <2>1. stage'[q] = stage[q] /\ ver'[q] = ver[q]
    BY <1>5 DEF Exit, GoOn, MigrationTyped
  <2>2. (lock' = q <=> lock = q) /\ (lock = q => work' = work)
    BY <1>5, NobodyAssumption DEF Exit
  <2> QED
    BY <1>1, <2>1, <2>2 DEF AtItsFile
<1> QED
  BY <1>2, <1>3, <1>4, <1>5

\* A step that leaves the database, and the transaction of any other process, alone.
LEMMA OwnStepSafe ==
  ASSUME MigrationInv, NEW p \in Processes, NEW s \in Stages, NEW v \in 1..Newest + 1, GoOn(p, s, v),
         UNCHANGED db, WellFormed(work'), lock \in {p, Nobody} \/ UNCHANGED <<work, lock>>,
         lock' \in {p, lock}, AtItsFile(p)'
  PROVE  MigrationInv'
<1> USE DEF MigrationInv
<1>1. MigrationTyped'
  BY DEF GoOn, MigrationTyped
<1>2. FilesInOrder'
  BY DEF FilesInOrder
<1>3. ASSUME NEW q \in Processes, q # p
      PROVE  AtItsFile(q)'
  <2>1. stage'[q] = stage[q] /\ ver'[q] = ver[q]
    BY <1>3 DEF GoOn, MigrationTyped
  <2>2. (lock' = q <=> lock = q) /\ (lock = q => work' = work)
    BY <1>3, NobodyAssumption DEF AtItsFile
  <2> QED
    BY <2>1, <2>2 DEF AtItsFile
<1> QED
  BY <1>1, <1>2, <1>3

\* A look at schema_migrations.
LEMMA LookSafe ==
  ASSUME MigrationInv, NEW p \in Processes, Look(p)
  PROVE  MigrationInv'
<1> USE NewestAssumption DEF MigrationInv
<1>0. PICK n \in 0..Newest : db.applied = 1..n
  BY DEF FilesInOrder
<1>1. PICK v \in 1..Newest + 1 : v = ver[p]
  BY DEF MigrationTyped
<1>2. 1..(v - 1) \subseteq db.applied /\ lock # p /\ stage[p] = "look" /\ stage'[p] \in Stages
  BY <1>1 DEF AtItsFile, Look, GoOn, MigrationTyped, Stages, Migrating
<1>3. CASE v > Newest /\ GoOn(p, "ready", v)
  <2>1. AtItsFile(p)'
    BY <1>0, <1>1, <1>2, <1>3 DEF AtItsFile, Look, GoOn, MigrationTyped, Migrating, Versions
  <2> QED
    BY <1>1, <1>3, <2>1, OwnStepSafe DEF Look, MigrationTyped, Stages
<1>4. CASE v \in db.applied /\ GoOn(p, "look", v + 1)
  <2>1. v + 1 \in 1..Newest + 1 /\ 1..v \subseteq db.applied
    BY <1>0, <1>1, <1>2, <1>4
  <2>2. AtItsFile(p)'
    BY <1>1, <1>2, <1>4, <2>1 DEF AtItsFile, Look, GoOn, MigrationTyped, Migrating
  <2> QED
    BY <1>4, <2>1, <2>2, OwnStepSafe DEF Look, MigrationTyped, Stages, Migrating
<1>5. CASE v \in Versions \ db.applied /\ GoOn(p, "run", v)
  <2>1. AtItsFile(p)'
    BY <1>1, <1>2, <1>5 DEF AtItsFile, Look, GoOn, MigrationTyped, Migrating
  <2> QED
    BY <1>1, <1>5, <2>1, OwnStepSafe DEF Look, MigrationTyped, Stages, Migrating
<1> QED
  BY <1>1, <1>3, <1>4, <1>5 DEF Look

\* A file and its row.
LEMMA RunAndRecordSafe ==
  ASSUME MigrationInv, NEW p \in Processes, RunFile(p) \/ Record(p)
  PROVE  MigrationInv'
<1> USE NewestAssumption DEF MigrationInv
<1>1. PICK v \in 1..Newest + 1 : v = ver[p]
  BY DEF MigrationTyped
<1>2. CASE RunFile(p)
  <2>1. v \in Versions /\ 1..(v - 1) \subseteq db.applied
    BY <1>1, <1>2 DEF RunFile, AtItsFile, Migrating
  <2>2. WellFormed(work') /\ work'.applied = db.applied /\ work'.ran = db.ran \cup {v}
    BY <1>1, <1>2, <2>1, BodyRuns DEF RunFile, MigrationTyped
  <2>3. AtItsFile(p)'
    BY <1>1, <1>2, <2>1, <2>2 DEF AtItsFile, RunFile, GoOn, MigrationTyped, Migrating
  <2> QED
    BY <1>1, <1>2, <2>2, <2>3, OwnStepSafe DEF RunFile, Stages, Migrating
<1>3. CASE Record(p)
  <2>1. v \in Versions /\ 1..(v - 1) \subseteq db.applied /\ lock = p
        /\ work.applied = db.applied /\ work.ran = db.ran \cup {v} /\ v \notin db.applied
    BY <1>1, <1>3 DEF Record, AtItsFile, Migrating
  <2>2. WellFormed(work') /\ work'.applied = db.applied \cup {v} /\ work'.ran = db.ran \cup {v}
    BY <1>1, <1>3, <2>1 DEF Record, MigrationTyped, WellFormed
  <2>3. AtItsFile(p)'
    BY <1>1, <1>3, <2>1, <2>2 DEF AtItsFile, Record, GoOn, MigrationTyped, Migrating
  <2> QED
    BY <1>1, <1>3, <2>1, <2>2, <2>3, OwnStepSafe DEF Record, Stages, Migrating
<1> QED
  BY <1>2, <1>3

\* The commit adds exactly the next file.
LEMMA CommitSafe ==
  ASSUME MigrationInv, NEW p \in Processes, Commit(p)
  PROVE  MigrationInv'
<1> USE NewestAssumption DEF MigrationInv
<1>1. PICK n \in 0..Newest : db.applied = 1..n /\ db.ran = 1..n
  BY DEF FilesInOrder
<1>2. PICK v \in Versions : v = ver[p] /\ 1..(v - 1) \subseteq 1..n /\ v \notin 1..n /\ lock = p
  BY <1>1 DEF Commit, AtItsFile, Migrating
<1>3. v = n + 1 /\ v \in 1..Newest
  <2>1. v \in 1..Newest /\ n < v
    BY <1>2 DEF Versions
  <2>2. v > 1 => v - 1 \in 1..(v - 1)
    BY <2>1
  <2>3. v > 1 => v - 1 \in 1..n
    BY <1>2, <2>2
  <2> QED
    BY <2>1, <2>3
<1>4. db' = work /\ db'.applied = 1..v /\ db'.ran = 1..v
  <2>1. db' = work /\ work.applied = 1..n \cup {v} /\ work.ran = 1..n \cup {v}
    BY <1>1, <1>2 DEF Commit, AtItsFile
  <2>2. 1..n \cup {v} = 1..v
    BY <1>3
  <2> QED
    BY <2>1, <2>2
<1>5. FilesInOrder'
  <2>1. v \in 0..Newest
    BY <1>3
  <2> QED
    BY <1>4, <2>1, Zenon DEF FilesInOrder
<1>6. MigrationTyped'
  BY <1>2, <1>3, <1>4 DEF Commit, GoOn, MigrationTyped, Stages, Migrating
<1>7. AtItsFile(p)'
  BY <1>2, <1>3, <1>4, NobodyAssumption DEF Commit, GoOn, MigrationTyped, AtItsFile, Migrating
<1>8. ASSUME NEW q \in Processes, q # p
      PROVE  AtItsFile(q)'
  <2>1. stage'[q] = stage[q] /\ ver'[q] = ver[q] /\ lock' # q /\ lock # q
    BY <1>2, <1>8, NobodyAssumption DEF Commit, GoOn, MigrationTyped
  <2>2. stage[q] \notin {"record", "commit", "ready", "serving", "draining"}
    BY <1>1, <1>2, <1>3, <2>1 DEF AtItsFile, Versions
  <2>3. db.applied \subseteq db'.applied
    BY <1>1, <1>3, <1>4
  <2> QED
    BY <2>1, <2>2, <2>3 DEF AtItsFile
<1> QED
  BY <1>5, <1>6, <1>7, <1>8

\* Every step of one process through the upgrade keeps its invariant.
LEMMA MigrationStepSafe ==
  ASSUME MigrationInv, NEW p \in Processes, MigrationStep(p)
  PROVE  MigrationInv'
BY LookSafe, RunAndRecordSafe, CommitSafe, ExitSafe DEF MigrationStep, ComesSecond

\* Every step keeps the upgrade's invariant.
LEMMA MigrationInvNext == MigrationInv /\ [Next]_vars => MigrationInv'
<1> SUFFICES ASSUME MigrationInv, [Next]_vars
             PROVE  MigrationInv'
  OBVIOUS
<1>1. CASE UNCHANGED migrationVars
  BY <1>1 DEF MigrationInv, MigrationTyped, FilesInOrder, AtItsFile, migrationVars
<1>2. ASSUME NEW p \in Processes, NEW s \in Stages, NEW v \in 1..Newest + 1, GoOn(p, s, v),
             UNCHANGED <<db, work, lock>>, AtItsFile(p)'
      PROVE  MigrationInv'
  BY <1>2, OwnStepSafe DEF MigrationInv, MigrationTyped
<1>3. ASSUME NEW p \in Processes, Boot(p)
      PROVE  MigrationInv'
  <2>1. AtItsFile(p)'
    BY <1>3, NewestAssumption DEF Boot, GoOn, MigrationInv, MigrationTyped, AtItsFile, Migrating
  <2> QED
    BY <1>2, <1>3, <2>1, NewestAssumption DEF Boot, Stages, Migrating
<1>4. ASSUME NEW p \in Processes, NEW s \in {"serving", "draining"}, stage[p] \in {"ready", "serving"},
             GoOn(p, s, ver[p]), UNCHANGED <<db, work, lock>>
      PROVE  MigrationInv'
  <2>1. AtItsFile(p)'
    BY <1>4 DEF GoOn, MigrationInv, MigrationTyped, AtItsFile, Migrating
  <2> QED
    BY <1>2, <1>4, <2>1 DEF MigrationInv, MigrationTyped, Stages
<1>5. ASSUME NEW p \in Processes,
             \/ Listen(p) \/ Signal(p)
             \/ TiresOfWaiting(p) \/ Drained(p) \/ Crash(p) \/ Deadline(p) \/ MigrationFails(p)
      PROVE  MigrationInv'
  BY <1>4, <1>5, ExitSafe DEF Listen, Signal, TiresOfWaiting, Drained, Crash, Deadline, MigrationFails
<1> QED
  BY <1>1, <1>3, <1>5, MigrationStepSafe DEF Next, vars, Starting, Stopping

\* However many processes start, race, fail and crash: the applied files are the first
\* so many, each has run where its row is, and whoever serves has them all.
THEOREM VersionsStayInOrder == Spec => []VersionsInOrder
<1>1. MigrationInv => VersionsInOrder
  BY DEF MigrationInv, FilesInOrder, AtItsFile, VersionsInOrder
<1> QED
  BY <1>1, MigrationInvInit, MigrationInvNext, PTL DEF Spec
=============================================================================
