----------------------------- MODULE ObjectStore -----------------------------
(***************************************************************************)
(* What the handlers are promised by storage.ObjectStorage, as MediaStore  *)
(* uses it: Put and Delete take effect in one step, or not at all; one     *)
(* that returns no error took effect, one that fails may have.  A caller   *)
(* that dies leaves its call without an answer.                            *)
(***************************************************************************)
CONSTANTS
  Processes,   \* the callers; mediaMu lets each make one call at a time
  Keys,        \* object keys
  Data,        \* contents
  None         \* no object, no call; the data of a Delete

VARIABLES
  object,   \* what is stored under each key
  call,     \* the call each process is in, or None
  answer    \* how its last call ended: "ok", "error", or "none"

vars == <<object, call, answer>>

Calls == [key : Keys, data : Data \cup {None}, done : BOOLEAN]

TypeOK == /\ object \in [Keys -> Data \cup {None}]
          /\ call \in [Processes -> Calls \cup {None}]
          /\ answer \in [Processes -> {"none", "ok", "error"}]

Init == /\ object = [k \in Keys |-> None]
        /\ call = [p \in Processes |-> None]
        /\ answer = [p \in Processes |-> "none"]

Call(p, k, d) ==
  /\ call[p] = None
  /\ call' = [call EXCEPT ![p] = [key |-> k, data |-> d, done |-> FALSE]]
  /\ answer' = [answer EXCEPT ![p] = "none"]
  /\ UNCHANGED object

TakesEffect(p) ==
  /\ call[p] # None /\ ~call[p].done
  /\ object' = [object EXCEPT ![call[p].key] = call[p].data]
  /\ call' = [call EXCEPT ![p].done = TRUE]
  /\ UNCHANGED answer

Ends(p, how) ==
  /\ call[p] # None
  /\ how = "ok" => call[p].done
  /\ call' = [call EXCEPT ![p] = None]
  /\ answer' = [answer EXCEPT ![p] = how]
  /\ UNCHANGED object

Next == \E p \in Processes :
  \/ \E k \in Keys, d \in Data \cup {None} : Call(p, k, d)
  \/ TakesEffect(p)
  \/ \E how \in {"none", "ok", "error"} : Ends(p, how)

Spec == Init /\ [][Next]_vars
=============================================================================
