------------------------------- MODULE Process -------------------------------
(***************************************************************************)
(* The life of the program: a process brings the database up to date,      *)
(* listens, serves, and on a signal stops listening and waits ten seconds  *)
(* for its requests; systemd starts it again.  A second process may be     *)
(* started beside it, and a new one while the old one drains.  Of the      *)
(* requests only what uploads and removals do to the local object store is *)
(* kept; the database's part of them is MediaStore's.                      *)
(***************************************************************************)
EXTENDS Migrations, LocalStorage, ImageGate

CONSTANTS
  Images,         \* declared sizes of the images that are uploaded
  MaxFaults       \* bound on failures and crashes

\* The Data of the object store: the size of the uploaded image and of the JPEG made of it.
Jpegs(image) == {[source |-> image, size |-> size] : size \in Processed(image)}

ASSUME ImagesAssumption ==
  /\ Images \subseteq Int \X Int
  /\ \A image \in Images : Accepts(image) => Jpegs(image) \subseteq Data

ASSUME MaxFaultsAssumption == MaxFaults \in Nat

VARIABLES
  drawn,    \* the object keys that uploads have drawn
  faults    \* failures and crashes so far

processVars == <<drawn, faults>>
vars == <<migrationVars, storageVars, processVars>>

TypeOK ==
  /\ MigrationTypeOK
  /\ StorageTypeOK
  /\ drawn \subseteq Keys
  /\ faults \in 0..MaxFaults
  /\ \A p \in Processes : op[p] # None => stage[p] \in {"serving", "draining"}

Init ==
  /\ MigrationInit
  /\ StorageInit
  /\ drawn = {}
  /\ faults = 0

Fault == faults < MaxFaults /\ faults' = faults + 1

-----------------------------------------------------------------------------
\* The address is taken as long as another process listens on it.
Listen(p) ==
  /\ stage[p] = "ready"
  /\ IF \E q \in Processes : stage[q] = "serving"
     THEN Exit(p)
     ELSE GoOn(p, "serving", ver[p]) /\ UNCHANGED <<db, work, lock, legacy>>

\* SIGTERM: Shutdown closes the listener.
Signal(p) ==
  /\ stage[p] \in {"ready", "serving"}
  /\ GoOn(p, "draining", ver[p])
  /\ UNCHANGED <<db, work, lock, legacy>>

\* Variant: the requests are not waited for.
Drained_NoWait(p) == stage[p] = "draining" /\ Exit(p)

\* Shutdown waits for the requests.
Drained(p) == stage[p] = "draining" /\ op[p] = None /\ Exit(p)

Dies(p) == Leave(p, "none") \/ (op[p] = None /\ UNCHANGED storageVars)

\* The end of the ten seconds cuts requests off.
Deadline(p) == stage[p] = "draining" /\ op[p] # None /\ Dies(p) /\ Exit(p)

Crash(p) == stage[p] # "off" /\ Dies(p) /\ Exit(p)

\* A statement of a migration fails.
MigrationFails(p) == stage[p] \in Migrating /\ Exit(p)

-----------------------------------------------------------------------------
\* createMedia up to its Put.  A refused image changes nothing.
Upload(p, image) ==
  /\ stage[p] = "serving"
  /\ Accepts(image)
  /\ \E k \in Keys \ drawn, jpeg \in Jpegs(image) :
       drawn' = drawn \cup {k} /\ Enter(p, k, jpeg, "open")

\* The undo of an upload, removeMedia or deleteArticleWithMedia.
RemoveObject(p) ==
  /\ stage[p] = "serving"
  /\ \E k \in drawn : Enter(p, k, None, "remove")
  /\ UNCHANGED drawn

Starting(p) == Boot(p) \/ MigrationStep(p) \/ TiresOfWaiting(p) \/ Listen(p)
Stopping(p) == Signal(p) \/ Drained(p)

Next == \E p \in Processes :
  \/ (Starting(p) \/ Stopping(p)) /\ UNCHANGED <<storageVars, processVars>>
  \/ (Crash(p) \/ Deadline(p)) /\ Fault /\ UNCHANGED drawn
  \/ MigrationFails(p) /\ Fault /\ UNCHANGED <<storageVars, drawn>>
  \/ ReturnsError(p) /\ Fault /\ UNCHANGED <<migrationVars, drawn>>
  \/ StorageStep(p) /\ UNCHANGED <<migrationVars, processVars>>
  \/ (RemoveObject(p) \/ \E image \in Images : Upload(p, image)) /\ UNCHANGED <<migrationVars, faults>>

\* A process goes on by itself, and one that ended with an error is started again
\* (Restart=on-failure, deploy/oddity-archive.service:13).
Fairness == \A p \in Processes :
  /\ WF_vars((Boot(p) \/ MigrationStep(p)) /\ UNCHANGED <<storageVars, processVars>>)
  /\ WF_vars(Drained(p) /\ UNCHANGED <<storageVars, processVars>>)
  /\ WF_vars(StorageStep(p) /\ UNCHANGED <<migrationVars, processVars>>)

Spec == Init /\ [][Next]_vars /\ Fairness

-----------------------------------------------------------------------------
(* Properties.                                                             *)

\* Whatever crashes, fails or races, the database gets all migration files in the end:
\* of two processes that hinder each other one always commits, and a restart goes on
\* where the last one stopped.
UpgradeFinishes == <>(db.applied = Versions)

\* Every stored image has passed the gate and was made small enough.
StoredImagesFit ==
  \A k \in Keys : file[k] \notin {None, Partial} => Fits(file[k].source, file[k].size)
=============================================================================
