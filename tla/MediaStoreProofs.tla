-------------------------- MODULE MediaStoreProofs --------------------------
(***************************************************************************)
(* Proofs about MediaStore, for any number of concurrent requests, objects *)
(* and articles, and any faults.                                           *)
(***************************************************************************)
EXTENDS MediaStore, TLAPS

-----------------------------------------------------------------------------
(* Type correctness.                                                       *)

\* A request that works on an
\* object, or for an article, has one, and an upload being undone its error status.
Equipped ==
  \A r \in Requests :
    /\ pc[r] \notin {"idle", "del_wait", "del_tx", "del_object"} => key[r] \in Keys
    /\ pc[r] \notin {"idle", "rm_wait"} \cup RemoveSteps => target[r] \in ArticleIds
    /\ pc[r] = "up_undo" => code[r] \in {422, 500}

TypedInv == TypeOK /\ Equipped

\* Each step of an upload keeps every variable in its type.
LEMMA UploadTyped ==
  ASSUME TypedInv, NEW r \in Requests, UploadStep(r)
  PROVE  TypedInv'
<1> USE DEF TypedInv, TypeOK, Equipped, dbVars, slotVars, Return, Answer, Goto, BeginUndo,
            Codes, Steps, Critical, Waiting, UploadSteps, RemoveSteps, DeleteSteps
<1>1. CASE UploadRefuse(r)
  BY <1>1 DEF UploadRefuse
<1>2. CASE UploadLookup(r)
  BY <1>2 DEF UploadLookup
<1>3. CASE UploadPut(r)
  BY <1>3 DEF UploadPut, PutSucceeds, PutFails
<1>4. CASE UploadCheck(r)
  BY <1>4 DEF UploadCheck
<1>5. CASE UploadInsert(r)
  BY <1>5 DEF UploadInsert, CreateMediaTx
<1>6. CASE UploadReread(r)
  BY <1>6 DEF UploadReread
<1>7. CASE UploadUndo(r)
  BY <1>7 DEF UploadUndo, DeleteSucceeds, DeleteFails
<1> QED
  BY <1>1, <1>2, <1>3, <1>4, <1>5, <1>6, <1>7 DEF UploadStep

\* Each step of a removal does.
LEMMA RemoveTyped ==
  ASSUME TypedInv, NEW r \in Requests, RemoveStep(r)
  PROVE  TypedInv'
<1> USE DEF TypedInv, TypeOK, Equipped, dbVars, slotVars, Return, Answer, Goto,
            Codes, Steps, Critical, Waiting, UploadSteps, RemoveSteps, DeleteSteps
<1>1. CASE RemoveCheck(r)
  BY <1>1 DEF RemoveCheck
<1>2. CASE RemoveLookup(r)
  BY <1>2 DEF RemoveLookup
<1>3. CASE RemoveObject(r)
  BY <1>3 DEF RemoveObject, DeleteSucceeds, DeleteFails
<1>4. CASE RemoveRow(r)
  BY <1>4 DEF RemoveRow, DeleteMediaRow
<1> QED
  BY <1>1, <1>2, <1>3, <1>4 DEF RemoveStep

\* Each step of an article deletion does.
LEMMA DeleteTyped ==
  ASSUME TypedInv, NEW r \in Requests, DeleteStep(r)
  PROVE  TypedInv'
<1> USE DEF TypedInv, TypeOK, Equipped, dbVars, slotVars, Return, Answer, OtherError,
            Codes, Steps, Critical, Waiting, UploadSteps, RemoveSteps, DeleteSteps
<1>1. CASE DeleteTx(r)
  BY <1>1 DEF DeleteTx, QueueAndDeleteArticle, StartLoop, Loop, PendingOf
<1>2. CASE DeleteObject(r)
  BY <1>2 DEF DeleteObject, Loop, DeleteSucceeds, DeleteFails
<1>3. CASE DeleteComplete(r)
  BY <1>3 DEF DeleteComplete, Loop, DropFromQueue
<1>4. CASE DeleteEnd(r)
  BY <1>4 DEF DeleteEnd
<1> QED
  BY <1>1, <1>2, <1>3, <1>4 DEF DeleteStep

\* The variables are well typed, and every step finds the object and the article
\* it works on, whatever the numbers of requests, objects and articles and whatever fails.
LEMMA TypedNext == TypedInv /\ [Next]_vars => TypedInv'
<1> SUFFICES ASSUME TypedInv, [Next]_vars
             PROVE  TypedInv'
  OBVIOUS
<1> USE DEF TypedInv, TypeOK, Equipped, dbVars, slotVars,
            Codes, Steps, Critical, Waiting, UploadSteps, RemoveSteps, DeleteSteps
<1>1. ASSUME NEW a \in ArticleIds, CreateArticle(a)
      PROVE  TypedInv'
  BY <1>1 DEF CreateArticle
<1>2. ASSUME NEW r \in Requests, AcceptRequest(r)
      PROVE  TypedInv'
  BY <1>2 DEF AcceptRequest, AcceptUpload, AcceptRemove, AcceptAdminRemove, AcceptDelete, Accept
<1>3. ASSUME NEW r \in Requests, Lock(r)
      PROVE  TypedInv'
  BY <1>3 DEF Lock, Enter
<1>4. CASE Crash
  BY <1>4 DEF Crash
<1>5. CASE UNCHANGED vars
  BY <1>5 DEF vars
<1> QED
  BY <1>1, <1>2, <1>3, <1>4, <1>5, UploadTyped, RemoveTyped, DeleteTyped DEF Next, Proceed

\* The types, with what each step of a request relies on, hold in every reachable state.
THEOREM TypedAlways == Spec => []TypedInv
<1>1. Init => TypedInv
  BY DEF Init, TypedInv, TypeOK, Equipped, Codes, Steps
<1> QED
  BY <1>1, TypedNext, PTL DEF Spec

\* Type correctness: Spec => []TypeOK, for every value of the constants.
THEOREM TypeCorrect == Spec => []TypeOK
<1>1. TypedInv => TypeOK
  BY DEF TypedInv
<1> QED
  BY <1>1, TypedAlways, PTL

-----------------------------------------------------------------------------
(* Safety.  IInv adds to the typing facts that the mutex is held by the    *)
(* one request inside a handler, that a new upload's key is unknown to the *)
(* database and to other uploads, and that what the holder has looked up   *)
(* is still so.                                                            *)

\* Only the holder of the mutex is inside a handler.
OneAtATime == \A r \in Requests : pc[r] \in Critical <=> mu = r

\* An upload on its way to CreateMedia has an object key of its own, unknown to the
\* database.
BeforeInsert == {"up_wait", "up_lookup", "up_put", "up_check", "up_insert"}
UploadsAreNew ==
  \A r \in Requests : pc[r] \in BeforeInsert =>
    /\ ~Tracked(key[r])
    /\ \A s \in Requests \ {r} : pc[s] \in BeforeInsert => key[s] # key[r]

\* The inductive invariant.
IInv ==
  /\ TypeOK /\ Equipped
  /\ OneAtATime /\ UploadsAreNew /\ LookupsStayTrue
  /\ RowsOrQueue /\ OneCover

\* The part of the invariant beyond types.
Safe == OneAtATime /\ UploadsAreNew /\ LookupsStayTrue /\ RowsOrQueue /\ OneCover

\* Each step of an upload preserves it.
LEMMA UploadSafe ==
  ASSUME IInv, NEW r \in Requests, UploadStep(r)
  PROVE  Safe'
<1> USE SentinelAssumption
    DEF IInv, TypeOK, Equipped, Safe, OneAtATime, UploadsAreNew, BeforeInsert, LookupsStayTrue,
        RowsOrQueue, OneCover, HasRow, Queued, Tracked, RowsOf, PendingOf, dbVars, slotVars,
        Return, Answer, Goto, BeginUndo, Critical, UploadSteps, RemoveSteps, DeleteSteps
<1>1. CASE UploadRefuse(r)
  BY <1>1 DEF UploadRefuse
<1>2. CASE UploadLookup(r)
  BY <1>2 DEF UploadLookup
<1>3. CASE UploadPut(r)
  BY <1>3 DEF UploadPut, PutSucceeds, PutFails
<1>4. CASE UploadCheck(r)
  BY <1>4 DEF UploadCheck
<1>5. CASE UploadInsert(r)
  BY <1>5 DEF UploadInsert, CreateMediaTx
<1>6. CASE UploadReread(r)
  BY <1>6 DEF UploadReread
<1>7. CASE UploadUndo(r)
  BY <1>7 DEF UploadUndo, DeleteSucceeds, DeleteFails
<1> QED
  BY <1>1, <1>2, <1>3, <1>4, <1>5, <1>6, <1>7 DEF UploadStep

\* Each step of a removal does.
LEMMA RemoveSafe ==
  ASSUME IInv, NEW r \in Requests, RemoveStep(r)
  PROVE  Safe'
<1> USE SentinelAssumption
    DEF IInv, TypeOK, Equipped, Safe, OneAtATime, UploadsAreNew, BeforeInsert, LookupsStayTrue,
        RowsOrQueue, OneCover, HasRow, Queued, Tracked, RowsOf, PendingOf, dbVars, slotVars,
        Return, Answer, Goto, Critical, UploadSteps, RemoveSteps, DeleteSteps
<1>1. CASE RemoveCheck(r)
  BY <1>1 DEF RemoveCheck
<1>2. CASE RemoveLookup(r)
  BY <1>2 DEF RemoveLookup
<1>3. CASE RemoveObject(r)
  BY <1>3 DEF RemoveObject, DeleteSucceeds, DeleteFails
<1>4. CASE RemoveRow(r)
  BY <1>4 DEF RemoveRow, DeleteMediaRow
<1> QED
  BY <1>1, <1>2, <1>3, <1>4 DEF RemoveStep

\* Each step of an article deletion does.
LEMMA DeleteSafe ==
  ASSUME IInv, NEW r \in Requests, DeleteStep(r)
  PROVE  Safe'
<1> USE SentinelAssumption
    DEF IInv, TypeOK, Equipped, Safe, OneAtATime, UploadsAreNew, BeforeInsert, LookupsStayTrue,
        RowsOrQueue, OneCover, HasRow, Queued, Tracked, RowsOf, PendingOf, dbVars, slotVars,
        Return, Answer, Critical, UploadSteps, RemoveSteps, DeleteSteps
<1>1. CASE DeleteTx(r)
  BY <1>1 DEF DeleteTx, QueueAndDeleteArticle, StartLoop, Loop
<1>2. CASE DeleteObject(r)
  BY <1>2 DEF DeleteObject, Loop, DeleteSucceeds, DeleteFails
<1>3. CASE DeleteComplete(r)
  BY <1>3 DEF DeleteComplete, Loop, DropFromQueue
<1>4. CASE DeleteEnd(r)
  BY <1>4 DEF DeleteEnd
<1> QED
  BY <1>1, <1>2, <1>3, <1>4 DEF DeleteStep

\* IInv is inductive.
LEMMA InvNext == IInv /\ [Next]_vars => IInv'
<1> SUFFICES ASSUME IInv, [Next]_vars
             PROVE  IInv'
  OBVIOUS
<1>1. TypedInv'
  BY TypedNext DEF IInv, TypedInv
<1>2. Safe'
  <2> USE SentinelAssumption
      DEF IInv, TypeOK, Equipped, Safe, OneAtATime, UploadsAreNew, BeforeInsert, LookupsStayTrue,
          RowsOrQueue, OneCover, HasRow, Queued, Tracked, RowsOf, PendingOf, dbVars, slotVars,
          Waiting, Critical, UploadSteps, RemoveSteps, DeleteSteps
  <2>1. ASSUME NEW a \in ArticleIds, CreateArticle(a)
        PROVE  Safe'
    BY <2>1 DEF CreateArticle, FreshArticle
  <2>2. ASSUME NEW r \in Requests, AcceptRequest(r)
        PROVE  Safe'
    BY <2>2 DEF AcceptRequest, AcceptUpload, AcceptRemove, AcceptAdminRemove, AcceptDelete,
                Accept, Fresh
  <2>3. ASSUME NEW r \in Requests, Lock(r)
        PROVE  Safe'
    BY <2>3 DEF Lock, Enter
  <2>4. CASE Crash
    BY <2>4 DEF Crash
  <2>5. CASE UNCHANGED vars
    BY <2>5 DEF vars
  <2> QED
    BY <2>1, <2>2, <2>3, <2>4, <2>5, UploadSafe, RemoveSafe, DeleteSafe DEF Next, Proceed
<1> QED
  BY <1>1, <1>2 DEF IInv, TypedInv, Safe

\* The inductive invariant holds at the start.
LEMMA InitSafe == Init => IInv
BY SentinelAssumption
   DEF Init, IInv, TypeOK, Equipped, OneAtATime, UploadsAreNew, BeforeInsert, LookupsStayTrue,
       RowsOrQueue, OneCover, HasRow, Queued, Tracked, Codes, Steps, Critical, UploadSteps,
       RemoveSteps, DeleteSteps

\* The inductive invariant holds in every reachable state.
THEOREM InvAlways == Spec => []IInv
  BY InitSafe, InvNext, PTL DEF Spec

\* Whatever fails or crashes, and however requests interleave: rows belong to existing
\* articles and queued deletions to deleted ones.
THEOREM MediaIsConsistent == Spec => []RowsOrQueue
<1>1. IInv => RowsOrQueue
  BY DEF IInv
<1> QED
  BY <1>1, InvAlways, PTL

\* An article has one cover at most, whatever uploads and removals interleave.
THEOREM CoversStaySingle == Spec => []OneCover
<1>1. IInv => OneCover
  BY DEF IInv
<1> QED
  BY <1>1, InvAlways, PTL

\* What a handler has read under the mutex is still true when it uses it.
THEOREM LookupsHold == Spec => []LookupsStayTrue
<1>1. IInv => LookupsStayTrue
  BY DEF IInv
<1> QED
  BY <1>1, InvAlways, PTL

-----------------------------------------------------------------------------
(* The tables and the object store follow the ledger.                      *)

\* An upload step is a step of the ledger, or changes nothing the ledger sees.
LEMMA UploadFollowsLedger ==
  ASSUME IInv, NEW r \in Requests, UploadStep(r)
  PROVE  [Ledger!Next]_(Ledger!vars)
<1> DEFINE k == key[r]
<1>a. k \in Keys /\ target[r] \in ArticleIds
  BY DEF IInv, Equipped, UploadStep, UploadRefuse, UploadLookup, UploadPut, UploadCheck,
         UploadInsert, UploadReread, UploadUndo, RemoveSteps
<1>1. CASE UploadRefuse(r) \/ UploadLookup(r) \/ UploadCheck(r) \/ UploadReread(r)
  BY <1>1 DEF UploadRefuse, UploadLookup, UploadCheck, UploadReread, dbVars, Ledger!vars
<1>2. CASE UploadPut(r)
  <2>1. Ledger!Unknown(k)
    BY <1>2 DEF UploadPut, IInv, UploadsAreNew, BeforeInsert, Tracked, HasRow, Queued,
                Ledger!Unknown
  <2>2. Ledger!Store(k) \/ UNCHANGED Ledger!vars
    BY <1>2, <2>1 DEF UploadPut, PutSucceeds, PutFails, dbVars, Ledger!Store, Ledger!vars
  <2> QED
    BY <2>2, <1>a DEF Ledger!Next
<1>3. CASE UploadInsert(r)
  <2>1. CASE UNCHANGED dbVars
    BY <1>3, <2>1 DEF UploadInsert, dbVars, Ledger!vars
  <2>2. ASSUME NEW isCover \in BOOLEAN, CreateMediaTx(target[r], k, isCover)
        PROVE  Ledger!Publish(k, target[r])
    BY <1>3, <1>a, <2>2, SentinelAssumption
       DEF UploadInsert, CreateMediaTx, IInv, UploadsAreNew, BeforeInsert, Tracked,
           HasRow, Queued, LookupsStayTrue, RowsOrQueue, Ledger!Unknown, Ledger!Publish
  <2> QED
    BY <1>3, <1>a, <2>1, <2>2 DEF UploadInsert, Ledger!Next
<1>4. CASE UploadUndo(r)
  <2>1. Ledger!Drop(k) \/ UNCHANGED Ledger!vars
    BY <1>4 DEF UploadUndo, DeleteSucceeds, DeleteFails, dbVars, Ledger!Drop, Ledger!vars
  <2> QED
    BY <2>1, <1>a DEF Ledger!Next
<1> QED
  BY <1>1, <1>2, <1>3, <1>4 DEF UploadStep

\* So is a step of a removal.
LEMMA RemoveFollowsLedger ==
  ASSUME IInv, NEW r \in Requests, RemoveStep(r)
  PROVE  [Ledger!Next]_(Ledger!vars)
<1> DEFINE k == key[r]
<1>a. k \in Keys
  BY DEF IInv, Equipped, RemoveStep, RemoveCheck, RemoveLookup, RemoveObject, RemoveRow
<1>1. CASE RemoveCheck(r) \/ RemoveLookup(r)
  BY <1>1 DEF RemoveCheck, RemoveLookup, dbVars, Ledger!vars
<1>2. CASE RemoveObject(r)
  <2>1. Ledger!Drop(k) \/ UNCHANGED Ledger!vars
    BY <1>2 DEF RemoveObject, DeleteSucceeds, DeleteFails, dbVars, Ledger!Drop, Ledger!vars
  <2> QED
    BY <2>1, <1>a DEF Ledger!Next
<1>3. CASE RemoveRow(r)
  <2>1. Ledger!Unpublish(k) \/ UNCHANGED Ledger!vars
    BY <1>3 DEF RemoveRow, DeleteMediaRow, IInv, LookupsStayTrue, dbVars, Ledger!Unpublish,
                Ledger!vars
  <2> QED
    BY <2>1, <1>a DEF Ledger!Next
<1> QED
  BY <1>1, <1>2, <1>3 DEF RemoveStep

\* So is a step of an article deletion.
LEMMA DeleteFollowsLedger ==
  ASSUME IInv, NEW r \in Requests, DeleteStep(r)
  PROVE  [Ledger!Next]_(Ledger!vars)
<1>a. target[r] \in ArticleIds
  BY DEF IInv, Equipped, DeleteStep, DeleteTx, DeleteObject, DeleteComplete, DeleteEnd, RemoveSteps
<1>1. CASE DeleteTx(r)
  <2>1. CASE UNCHANGED dbVars
    BY <1>1, <2>1 DEF DeleteTx, dbVars, Ledger!vars
  <2>2. CASE QueueAndDeleteArticle(target[r])
    <3>1. \A k \in Keys : queue[k] # target[r]
      BY <2>2, <1>a, SentinelAssumption
         DEF QueueAndDeleteArticle, IInv, TypeOK, RowsOrQueue, Queued
    <3>2. queue' = [k \in Keys |-> IF mediaArticle[k] = target[r] THEN target[r] ELSE queue[k]]
      BY <2>2, <1>a, SentinelAssumption
         DEF QueueAndDeleteArticle, IInv, RowsOrQueue, HasRow, Queued
    <3>3. Ledger!Condemn(target[r])
      BY <1>1, <2>2, <3>1, <3>2 DEF DeleteTx, QueueAndDeleteArticle, Ledger!Condemn
    <3> QED
      BY <3>3, <1>a DEF Ledger!Next
  <2> QED
    BY <1>1, <2>1, <2>2 DEF DeleteTx
<1>2. CASE DeleteObject(r)
  <2>1. PICK k \in todo[r] : DeleteSucceeds(k) \/ DeleteFails(k)
    BY <1>2 DEF DeleteObject
  <2>2. k \in Keys
    BY <2>1 DEF IInv, TypeOK
  <2>3. Ledger!Drop(k) \/ UNCHANGED Ledger!vars
    BY <1>2, <2>1 DEF DeleteObject, Loop, DeleteSucceeds, DeleteFails, dbVars, Ledger!Drop, Ledger!vars
  <2> QED
    BY <2>2, <2>3 DEF Ledger!Next
<1>3. CASE DeleteComplete(r)
  <2>1. key[r] \in Keys
    BY <1>3 DEF DeleteComplete, IInv, Equipped
  <2>2. Ledger!Forget(key[r]) \/ UNCHANGED Ledger!vars
    BY <1>3 DEF DeleteComplete, Loop, DropFromQueue, IInv, LookupsStayTrue, dbVars, Ledger!Forget,
                Ledger!vars
  <2> QED
    BY <2>1, <2>2 DEF Ledger!Next
<1>4. CASE DeleteEnd(r)
  BY <1>4 DEF DeleteEnd, dbVars, Ledger!vars
<1> QED
  BY <1>1, <1>2, <1>3, <1>4 DEF DeleteStep

\* MediaStore implements MediaLedger: whatever fails, an object is published only once
\* stored, condemned with all of its article's, and forgotten only once gone.
THEOREM MediaStoreImplementsLedger == Spec => ImplementsLedger
<1>1. Init => Ledger!Init
  BY DEF Init, Ledger!Init
<1>2. IInv /\ [Next]_vars => [Ledger!Next]_(Ledger!vars)
  <2> SUFFICES ASSUME IInv, [Next]_vars
               PROVE  [Ledger!Next]_(Ledger!vars)
    OBVIOUS
  <2>1. ASSUME NEW a \in ArticleIds, CreateArticle(a)
        PROVE  UNCHANGED Ledger!vars
    BY <2>1 DEF CreateArticle, Ledger!vars
  <2>2. ASSUME NEW r \in Requests, AcceptRequest(r) \/ Lock(r)
        PROVE  UNCHANGED Ledger!vars
    BY <2>2 DEF AcceptRequest, AcceptUpload, AcceptRemove, AcceptAdminRemove, AcceptDelete,
                Accept, Lock, Enter, dbVars, Ledger!vars
  <2>3. CASE Crash
    BY <2>3 DEF Crash, dbVars, Ledger!vars
  <2>4. CASE UNCHANGED vars
    BY <2>4 DEF vars, dbVars, Ledger!vars
  <2> QED
    BY <2>1, <2>2, <2>3, <2>4, UploadFollowsLedger, RemoveFollowsLedger, DeleteFollowsLedger
       DEF Next, Proceed
<1> QED
  BY <1>1, <1>2, InvAlways, PTL DEF Spec, ImplementsLedger, Ledger!Spec

\* Consequence: the database never forgets an object that is still stored.
THEOREM NothingIsForgotten == Spec => NeverForget
<1>1. TypeOK /\ [Ledger!Next]_(Ledger!vars) =>
        \A k \in Keys : Tracked(k) /\ k \in objects' => Tracked(k)'
  <2> SUFFICES ASSUME TypeOK, [Ledger!Next]_(Ledger!vars),
                      NEW k \in Keys, Tracked(k), k \in objects'
               PROVE  Tracked(k)'
    OBVIOUS
  <2> USE SentinelAssumption DEF TypeOK, Tracked, HasRow, Queued
  <2>1. ASSUME NEW j \in Keys, Ledger!Store(j) \/ Ledger!Drop(j)
        PROVE  Tracked(k)'
    BY <2>1 DEF Ledger!Store, Ledger!Drop
  <2>2. ASSUME NEW j \in Keys, Ledger!Unpublish(j) \/ Ledger!Forget(j)
        PROVE  Tracked(k)'
    BY <2>2 DEF Ledger!Unpublish, Ledger!Forget
  <2>3. ASSUME NEW j \in Keys, NEW a \in ArticleIds, Ledger!Publish(j, a)
        PROVE  Tracked(k)'
    BY <2>3 DEF Ledger!Publish
  <2>4. ASSUME NEW a \in ArticleIds, Ledger!Condemn(a)
        PROVE  Tracked(k)'
    BY <2>4 DEF Ledger!Condemn
  <2>5. CASE UNCHANGED Ledger!vars
    BY <2>5 DEF Ledger!vars
  <2> QED
    BY <2>1, <2>2, <2>3, <2>4, <2>5 DEF Ledger!Next
<1> QED
  BY <1>1, TypeCorrect, MediaStoreImplementsLedger, PTL DEF ImplementsLedger, Ledger!Spec, NeverForget
-----------------------------------------------------------------------------
(* What clients are told.                                                  *)

\* In a step of r's handler, no other request answers.
LEMMA OneAnswers ==
  ASSUME TypeOK, NEW r \in Requests, AcceptRequest(r) \/ Lock(r) \/ Proceed(r),
         NEW s \in Requests \ {r}
  PROVE  pc'[s] = pc[s]
BY DEF TypeOK, AcceptRequest, AcceptUpload, AcceptRemove, AcceptAdminRemove, AcceptDelete, Accept,
       Lock, Enter, Proceed, UploadStep, UploadRefuse, UploadLookup, UploadPut, UploadCheck,
       UploadInsert, UploadReread, UploadUndo, RemoveStep, RemoveCheck, RemoveLookup,
       RemoveObject, RemoveRow, DeleteStep, DeleteTx, DeleteObject, DeleteComplete, DeleteEnd,
       Goto, Return, Answer, BeginUndo, StartLoop, Loop

\* A handler's answer is true, and its 502 can be retried, in the state it leaves.
LEMMA HandlerAnswers ==
  ASSUME IInv, NEW r \in Requests, Proceed(r)
  PROVE  TrueAnswer(r) /\ Retryable(r)
<1> USE SentinelAssumption
    DEF IInv, TypeOK, Equipped, RowsOrQueue, LookupsStayTrue, UploadsAreNew, BeforeInsert,
        TrueAnswer, Retryable, Answers, Removed, Gone, HasRow, Queued, Tracked, RowsOf,
        PendingOf, Answer, Return, dbVars, UploadSteps, RemoveSteps, DeleteSteps
<1>1. CASE UploadStep(r)
  BY <1>1 DEF UploadStep, UploadRefuse, UploadLookup, UploadPut, PutFails, UploadCheck,
              UploadInsert, UploadReread, UploadUndo, DeleteSucceeds, DeleteFails, Goto, BeginUndo
<1>2. CASE RemoveStep(r)
  BY <1>2 DEF RemoveStep, RemoveCheck, RemoveLookup, RemoveObject, RemoveRow, DeleteMediaRow, Goto
<1>3. CASE DeleteTx(r)
  BY <1>3 DEF DeleteTx, StartLoop, Loop, OtherError
<1>4. CASE DeleteObject(r)
  BY <1>4 DEF DeleteObject, Loop
<1>5. CASE DeleteComplete(r)
  BY <1>5 DEF DeleteComplete, Loop, OtherError
<1>6. CASE DeleteEnd(r)
  BY <1>6 DEF DeleteEnd
<1> QED
  BY <1>1, <1>2, <1>3, <1>4, <1>5, <1>6 DEF Proceed, DeleteStep

\* Every answer is true and every 502 retryable, under every fault: what 201, 204 and
\* 404 say holds in both stores, and 502 leaves what a second attempt needs.
THEOREM AnswersHold == Spec => AnswersAreTrue /\ StorageErrorsAreRetryable
<1>1. IInv /\ [Next]_vars => \A s \in Requests : TrueAnswer(s) /\ Retryable(s)
  <2> SUFFICES ASSUME IInv, [Next]_vars, NEW s \in Requests
               PROVE  TrueAnswer(s) /\ Retryable(s)
    OBVIOUS
  <2> USE DEF IInv, TypeOK
  <2>1. ASSUME NEW r \in Requests, AcceptRequest(r) \/ Lock(r) \/ Proceed(r)
        PROVE  TrueAnswer(s) /\ Retryable(s)
    <3>1. CASE s # r
      <4>1. pc'[s] = pc[s]
        BY <2>1, <3>1, OneAnswers
      <4> QED
        BY <4>1 DEF TrueAnswer, Retryable, Answers, UploadSteps, RemoveSteps, DeleteSteps
    <3>2. CASE s = r /\ Proceed(r)
      BY <3>2, HandlerAnswers
    <3>3. CASE s = r /\ AcceptRequest(r)
      BY <3>3 DEF AcceptRequest, AcceptUpload, AcceptRemove, AcceptAdminRemove, AcceptDelete,
                  Accept, TrueAnswer, Retryable, Answers, UploadSteps, RemoveSteps, DeleteSteps
    <3>4. CASE s = r /\ Lock(r)
      BY <3>4 DEF Lock, Enter, Waiting, TrueAnswer, Retryable, Answers, UploadSteps, RemoveSteps,
                  DeleteSteps
    <3> QED
      BY <2>1, <3>1, <3>2, <3>3, <3>4
  <2>2. ASSUME NEW a \in ArticleIds, CreateArticle(a)
        PROVE  TrueAnswer(s) /\ Retryable(s)
    BY <2>2 DEF CreateArticle, TrueAnswer, Retryable, Answers, UploadSteps, RemoveSteps, DeleteSteps
  <2>3. CASE Crash
    BY <2>3 DEF Crash, slotVars, TrueAnswer, Retryable, Answers
  <2>4. CASE UNCHANGED vars
    BY <2>4 DEF vars, TrueAnswer, Retryable, Answers, UploadSteps, RemoveSteps, DeleteSteps
  <2> QED
    BY <2>1, <2>2, <2>3, <2>4 DEF Next
<1>2. IInv /\ [Next]_vars =>
        /\ [\A r \in Requests : TrueAnswer(r)]_vars
        /\ [\A r \in Requests : Retryable(r)]_vars
  BY <1>1
<1> QED
  BY <1>2, InvAlways, PTL DEF Spec, AnswersAreTrue, StorageErrorsAreRetryable

\* In particular a 502 leaves the row or queue entry that a second attempt needs, and of an
\* upload no row.
THEOREM FailuresCanBeRepeated == Spec => StorageErrorsAreRetryable
  BY AnswersHold

-----------------------------------------------------------------------------
(* When nothing fails: no fault is in Faults.  IInv alone does not give    *)
(* the three facts below: they also need that an upload is undone only     *)
(* after its refusal, when no row names its object yet.                    *)

\* The part of the fault-free invariant beyond IInv.
CleanSafe ==
  /\ NoOrphan /\ RowsAreStored /\ NoSpuriousErrors
  /\ \A r \in Requests : pc[r] = "up_undo" => ~Tracked(key[r]) /\ code[r] = 422

CleanInv == IInv /\ CleanSafe

\* Without faults each step of an upload keeps what no fault can have broken.
LEMMA UploadClean ==
  ASSUME Faults = {}, CleanInv, NEW r \in Requests, UploadStep(r)
  PROVE  CleanSafe'
<1> USE SentinelAssumption
    DEF CleanInv, CleanSafe, NoOrphan, RowsAreStored, NoSpuriousErrors, IInv, TypeOK, Equipped,
        OneAtATime, UploadsAreNew, BeforeInsert, LookupsStayTrue, RowsOrQueue, HasRow, Queued,
        Tracked, dbVars, slotVars, Return, Answer, Goto, BeginUndo, DbFails, Critical,
        UploadSteps, RemoveSteps, DeleteSteps
<1>1. CASE UploadRefuse(r)
  BY <1>1 DEF UploadRefuse
<1>2. CASE UploadLookup(r)
  BY <1>2 DEF UploadLookup
<1>3. CASE UploadPut(r)
  BY <1>3 DEF UploadPut, PutSucceeds, PutFails
<1>4. CASE UploadCheck(r)
  BY <1>4 DEF UploadCheck
<1>5. CASE UploadInsert(r)
  BY <1>5 DEF UploadInsert, CreateMediaTx
<1>6. CASE UploadReread(r)
  BY <1>6 DEF UploadReread
<1>7. CASE UploadUndo(r)
  BY <1>7 DEF UploadUndo, DeleteSucceeds, DeleteFails
<1> QED
  BY <1>1, <1>2, <1>3, <1>4, <1>5, <1>6, <1>7 DEF UploadStep

\* So does each step of a removal.
LEMMA RemoveClean ==
  ASSUME Faults = {}, CleanInv, NEW r \in Requests, RemoveStep(r)
  PROVE  CleanSafe'
<1> USE SentinelAssumption
    DEF CleanInv, CleanSafe, NoOrphan, RowsAreStored, NoSpuriousErrors, IInv, TypeOK, Equipped,
        OneAtATime, UploadsAreNew, BeforeInsert, LookupsStayTrue, RowsOrQueue, HasRow, Queued,
        Tracked, dbVars, slotVars, Return, Answer, Goto, DbFails, Critical,
        UploadSteps, RemoveSteps, DeleteSteps
<1>1. CASE RemoveCheck(r)
  BY <1>1 DEF RemoveCheck
<1>2. CASE RemoveLookup(r)
  BY <1>2 DEF RemoveLookup
<1>3. CASE RemoveObject(r)
  BY <1>3 DEF RemoveObject, DeleteSucceeds, DeleteFails
<1>4. CASE RemoveRow(r)
  BY <1>4 DEF RemoveRow, DeleteMediaRow
<1> QED
  BY <1>1, <1>2, <1>3, <1>4 DEF RemoveStep

\* So does each step of a deletion with an article.
LEMMA DeleteClean ==
  ASSUME Faults = {}, CleanInv, NEW r \in Requests, DeleteStep(r)
  PROVE  CleanSafe'
<1> USE SentinelAssumption
    DEF CleanInv, CleanSafe, NoOrphan, RowsAreStored, NoSpuriousErrors, IInv, TypeOK, Equipped,
        OneAtATime, UploadsAreNew, BeforeInsert, LookupsStayTrue, RowsOrQueue, HasRow, Queued,
        Tracked, PendingOf, dbVars, slotVars, Return, Answer, DbFails, Critical,
        UploadSteps, RemoveSteps, DeleteSteps
<1>1. CASE DeleteTx(r)
  BY <1>1 DEF DeleteTx, QueueAndDeleteArticle, RowsOf, StartLoop, Loop
<1>2. CASE DeleteObject(r)
  BY <1>2 DEF DeleteObject, Loop, DeleteSucceeds, DeleteFails
<1>3. CASE DeleteComplete(r)
  BY <1>3 DEF DeleteComplete, Loop, DropFromQueue
<1>4. CASE DeleteEnd(r)
  BY <1>4 DEF DeleteEnd
<1> QED
  BY <1>1, <1>2, <1>3, <1>4 DEF DeleteStep

\* So does every step.
LEMMA CleanNext == Faults = {} /\ CleanInv /\ [Next]_vars => CleanInv'
<1> SUFFICES ASSUME Faults = {}, CleanInv, [Next]_vars
             PROVE  CleanInv'
  OBVIOUS
<1>1. IInv'
  BY InvNext DEF CleanInv
<1>2. CleanSafe'
  <2> USE SentinelAssumption
      DEF CleanInv, CleanSafe, NoOrphan, RowsAreStored, NoSpuriousErrors, IInv, TypeOK,
          HasRow, Queued, Tracked, dbVars, slotVars, Waiting
  <2>1. ASSUME NEW a \in ArticleIds, CreateArticle(a)
        PROVE  CleanSafe'
    BY <2>1 DEF CreateArticle
  <2>2. ASSUME NEW r \in Requests, AcceptRequest(r)
        PROVE  CleanSafe'
    BY <2>2 DEF AcceptRequest, AcceptUpload, AcceptRemove, AcceptAdminRemove, AcceptDelete, Accept
  <2>3. ASSUME NEW r \in Requests, Lock(r)
        PROVE  CleanSafe'
    BY <2>3 DEF Lock, Enter
  <2>4. CASE UNCHANGED vars
    BY <2>4 DEF vars
  <2>5. ~Crash
    BY DEF Crash
  <2> QED
    BY <2>1, <2>2, <2>3, <2>4, <2>5, UploadClean, RemoveClean, DeleteClean DEF Next, Proceed
<1> QED
  BY <1>1, <1>2 DEF CleanInv

\* Without faults the invariant and its fault-free part hold in every reachable state.
THEOREM CleanAlways == Faults = {} => (Spec => []CleanInv)
<1> SUFFICES ASSUME Faults = {}
             PROVE  Spec => []CleanInv
  OBVIOUS
<1>1. Init => CleanInv
  <2>1. Init => IInv
    BY InitSafe
  <2> QED
    BY <2>1 DEF Init, CleanInv, CleanSafe, NoOrphan, RowsAreStored, NoSpuriousErrors, HasRow
<1>2. CleanInv /\ [Next]_vars => CleanInv'
  BY CleanNext
<1> QED
  BY <1>1, <1>2, PTL DEF Spec

\* While the database and the object store answer, no interleaving of any number of
\* requests leaves an object without a row or queue entry, beyond the step of an upload
\* that is between the two.
THEOREM NothingIsOrphaned == Faults = {} => (Spec => []NoOrphan)
<1>1. CleanInv => NoOrphan
  BY DEF CleanInv, CleanSafe
<1> QED
  BY <1>1, CleanAlways, PTL

\* Nor a row without its object, beyond the step of a removal that is between the two.
THEOREM RowsStayStored == Faults = {} => (Spec => []RowsAreStored)
<1>1. CleanInv => RowsAreStored
  BY DEF CleanInv, CleanSafe
<1> QED
  BY <1>1, CleanAlways, PTL

\* Nor does one make a request fail: 500 and 502 are never answered then.
THEOREM RequestsDoNotDisturb == Faults = {} => (Spec => []NoSpuriousErrors)
<1>1. CleanInv => NoSpuriousErrors
  BY DEF CleanInv, CleanSafe
<1> QED
  BY <1>1, CleanAlways, PTL
=============================================================================
