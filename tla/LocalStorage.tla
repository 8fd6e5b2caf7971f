---------------------------- MODULE LocalStorage ----------------------------
(***************************************************************************)
(* The local driver of storage.ObjectStorage, system call by system call:  *)
(* Put writes a temporary file beside the object's and renames it, Delete  *)
(* removes the file.  A process may fail, or die, between any two calls;   *)
(* the machine does not (nothing is synced to the disk).  The file server  *)
(* of /media/ reads `file` under an object's URL at any time.              *)
(***************************************************************************)
EXTENDS Host

CONSTANTS
  Keys, Data,   \* as in ObjectStore
  Partial       \* a file that is not written to its end

Ops == [key : Keys, data : Data \cup {None}, next : {"open", "write", "rename", "remove", "return"}]

ASSUME SentinelAssumption ==
  /\ Partial \notin Data \cup {None}
  /\ None \notin Data \cup Ops \cup [key : Keys, data : Data \cup {None}, done : BOOLEAN]

VARIABLES
  file,     \* root/key: its content, or None
  temp,     \* root/key.new
  op,       \* the call each process is in, with its next system call, or None
  answer    \* as in ObjectStore

storageVars == <<file, temp, op, answer>>

StorageTypeOK ==
  /\ file \in [Keys -> Data \cup {None, Partial}]
  /\ temp \in [Keys -> Data \cup {None, Partial}]
  /\ op \in [Processes -> Ops \cup {None}]
  /\ answer \in [Processes -> {"none", "ok", "error"}]

StorageInit ==
  /\ file = [k \in Keys |-> None]
  /\ temp = [k \in Keys |-> None]
  /\ op = [p \in Processes |-> None]
  /\ answer = [p \in Processes |-> "none"]

Enter(p, k, d, next) ==
  /\ op[p] = None
  /\ op' = [op EXCEPT ![p] = [key |-> k, data |-> d, next |-> next]]
  /\ answer' = [answer EXCEPT ![p] = "none"]
  /\ UNCHANGED <<file, temp>>

At(p, next)   == op[p] # None /\ op[p].next = next
Goto(p, next) == op' = [op EXCEPT ![p].next = next] /\ UNCHANGED answer

\* Variant: the object's own file is written.
OpenTemp_InPlace(p) ==
  /\ At(p, "open")
  /\ file' = [file EXCEPT ![op[p].key] = Partial]
  /\ Goto(p, "write")
  /\ UNCHANGED temp

\* os.WriteFile creates or truncates the file first.
OpenTemp(p) ==
  /\ At(p, "open")
  /\ temp' = [temp EXCEPT ![op[p].key] = Partial]
  /\ Goto(p, "write")
  /\ UNCHANGED file

WriteTemp(p) ==
  /\ At(p, "write")
  /\ temp' = [temp EXCEPT ![op[p].key] = op[p].data]
  /\ Goto(p, "rename")
  /\ UNCHANGED file

Rename(p) ==
  /\ At(p, "rename")
  /\ file' = [file EXCEPT ![op[p].key] = temp[op[p].key]]
  /\ temp' = [temp EXCEPT ![op[p].key] = None]
  /\ Goto(p, "return")

\* A file that is not there is as good as removed.
RemoveFile(p) ==
  /\ At(p, "remove")
  /\ file' = [file EXCEPT ![op[p].key] = None]
  /\ Goto(p, "return")
  /\ UNCHANGED temp

Leave(p, how) ==
  /\ op[p] # None
  /\ op' = [op EXCEPT ![p] = None]
  /\ answer' = [answer EXCEPT ![p] = how]
  /\ UNCHANGED <<file, temp>>

\* A failed system call is returned as it is; a temporary file stays.
Return(p)       == At(p, "return") /\ Leave(p, "ok")
ReturnsError(p) == ~At(p, "return") /\ Leave(p, "error")

StorageStep(p) == OpenTemp(p) \/ WriteTemp(p) \/ Rename(p) \/ RemoveFile(p) \/ Return(p)

\* The promise this driver keeps: what is served under a URL is a whole object that a
\* Put stored and no Delete removed, and an answer tells the truth, whatever fails and
\* wherever the process dies (storage.go, used by media.go:96, 104, 112, 151).
CallOf(o) == IF o = None THEN None ELSE [key |-> o.key, data |-> o.data, done |-> o.next = "return"]

Store == INSTANCE ObjectStore WITH object <- file, call <- [p \in Processes |-> CallOf(op[p])]

ImplementsObjectStore == Store!Spec
=============================================================================
