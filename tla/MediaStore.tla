----------------------------- MODULE MediaStore -----------------------------
(***************************************************************************)
(* Uploaded images of the blog, kept in two places that no transaction     *)
(* spans: a row of SQLite table media, and an object of the object store   *)
(* (local directory or R2 bucket).  Requests change them through           *)
(*   createMedia, removeMedia and deleteArticleWithMedia                   *)
(* of internal/server/media.go, which serialise on one mutex, App.mediaMu, *)
(* and call internal/content/repository.go and internal/storage.           *)
(*                                                                         *)
(* A request slot is an HTTP request in progress.  Each call to SQLite (a  *)
(* statement, or a whole transaction: the pool holds one connection) or to *)
(* the object store is one step; a fault named in Faults, or a process     *)
(* crash, may hit any of them.                                             *)
(*                                                                         *)
(* A media id, its object key and the uuid in that key stand for one       *)
(* another: Keys.  An id nobody mentions any more is handed out again and  *)
(* stands for a fresh one (uuid.NewString, AUTOINCREMENT), so behaviours   *)
(* are unbounded over finite Keys and ArticleIds.                          *)
(***************************************************************************)
EXTENDS Naturals

CONSTANTS
  Requests,     \* slots for concurrent HTTP requests
  Keys,         \* object keys, and the media ids that go with them
  ArticleIds,   \* article ids
  Faults,       \* what may go wrong: a subset of FaultKinds
  NoKey, NoArticle, Nobody

FaultKinds == {"db", "put", "delete", "crash"}

ASSUME FaultsAssumption == Faults \subseteq FaultKinds
ASSUME SentinelAssumption ==
  /\ NoKey \notin Keys
  /\ NoArticle \notin ArticleIds
  /\ Nobody \notin Requests

VARIABLES
  articles,      \* ids of the rows of table articles
  mediaArticle,  \* table media: object_key -> article_id
  cover,         \* object keys of the media rows with is_cover = 1
  queue,         \* table object_deletions: object_key -> article_id
  objects,       \* object keys the store holds
  mu,            \* holder of App.mediaMu
  pc,            \* next step of each request
  target,        \* article a request is about
  key,           \* object (and media row) a request is about
  todo,          \* pending deletions of deleteArticleWithMedia's loop
  code,          \* HTTP status of a slot's last answer (0: none yet)
  admin          \* slots whose request came through /admin

dbVars   == <<articles, mediaArticle, cover, queue>>
slotVars == <<target, key, todo, code, admin>>
vars     == <<dbVars, objects, mu, pc, slotVars>>

UploadSteps == {"up_lookup", "up_put", "up_check", "up_insert", "up_reread", "up_undo"}
RemoveSteps == {"rm_lookup", "rm_object", "rm_row"}
DeleteSteps == {"del_tx", "del_object", "del_done"}
Critical    == UploadSteps \cup RemoveSteps \cup DeleteSteps
Waiting     == {"up_wait", "rm_wait", "del_wait"}
Steps       == Critical \cup Waiting \cup {"idle", "rm_check"}
Codes       == {0, 201, 204, 404, 422, 500, 502}

TypeOK ==
  /\ articles \subseteq ArticleIds
  /\ mediaArticle \in [Keys -> ArticleIds \cup {NoArticle}]
  /\ cover \subseteq Keys
  /\ queue \in [Keys -> ArticleIds \cup {NoArticle}]
  /\ objects \subseteq Keys
  /\ mu \in Requests \cup {Nobody}
  /\ pc \in [Requests -> Steps]
  /\ target \in [Requests -> ArticleIds \cup {NoArticle}]
  /\ key \in [Requests -> Keys \cup {NoKey}]
  /\ todo \in [Requests -> SUBSET Keys]
  /\ code \in [Requests -> Codes]
  /\ admin \subseteq Requests

\* The database knows object k: a media row or a queued deletion names it.
HasRow(k)  == mediaArticle[k] # NoArticle
Queued(k)  == queue[k] # NoArticle
Tracked(k) == HasRow(k) \/ Queued(k)

RowsOf(a)    == {k \in Keys : mediaArticle[k] = a}
PendingOf(a) == {k \in Keys : queue[k] = a}

\* Nothing and nobody mentions k (or a) any more.
Fresh(k) == ~Tracked(k) /\ k \notin objects /\ \A r \in Requests : key[r] # k /\ k \notin todo[r]
FreshArticle(a) ==
  /\ a \notin articles
  /\ RowsOf(a) \cup PendingOf(a) = {}
  /\ \A r \in Requests : target[r] # a

Init ==
  /\ articles = {}
  /\ mediaArticle = [k \in Keys |-> NoArticle]
  /\ cover = {}
  /\ queue = [k \in Keys |-> NoArticle]
  /\ objects = {}
  /\ mu = Nobody
  /\ pc = [r \in Requests |-> "idle"]
  /\ target = [r \in Requests |-> NoArticle]
  /\ key = [r \in Requests |-> NoKey]
  /\ todo = [r \in Requests |-> {}]
  /\ code = [r \in Requests |-> 0]
  /\ admin = {}

-----------------------------------------------------------------------------
(* The object store.  A failing call may still have taken effect (a        *)
(* response lost on the way back from R2).  Delete of an absent object     *)
(* succeeds: os.IsNotExist is ignored, and S3 DeleteObject is idempotent.  *)

PutSucceeds(k)    == objects' = objects \cup {k}
PutFails(k)       == "put" \in Faults /\ objects' \in {objects, objects \cup {k}}
DeleteSucceeds(k) == objects' = objects \ {k}
DeleteFails(k)    == "delete" \in Faults /\ objects' \in {objects, objects \ {k}}

(* The repository.  A transaction that fails is rolled back; a single      *)
(* statement that reports an error may have been executed (the driver      *)
(* reports a cancelled context after the statement ran).                   *)

DbFails == "db" \in Faults

\* Variant: the old cover is not demoted.
CreateMediaTx_TwoCovers(a, k, isCover) ==
  /\ a \in articles
  /\ mediaArticle' = [mediaArticle EXCEPT ![k] = a]
  /\ cover' = IF isCover THEN cover \cup {k} ELSE cover
  /\ UNCHANGED <<articles, queue>>

CreateMediaTx(a, k, isCover) ==
  /\ a \in articles
  /\ mediaArticle' = [mediaArticle EXCEPT ![k] = a]
  /\ cover' = IF isCover THEN (cover \ RowsOf(a)) \cup {k} ELSE cover
  /\ UNCHANGED <<articles, queue>>

DeleteMediaRow(k) ==
  /\ HasRow(k)
  /\ mediaArticle' = [mediaArticle EXCEPT ![k] = NoArticle]
  /\ cover' = cover \ {k}
  /\ UNCHANGED <<articles, queue>>

\* Variant: Repository.Delete, which queues nothing.
QueueAndDeleteArticle_NoQueue(a) ==
  /\ a \in articles
  /\ articles' = articles \ {a}
  /\ mediaArticle' = [k \in Keys |-> IF mediaArticle[k] = a THEN NoArticle ELSE mediaArticle[k]]
  /\ cover' = cover \ RowsOf(a)
  /\ UNCHANGED queue

\* Queues the article's objects and deletes the article, whose media rows go
\* with it (ON DELETE CASCADE); an object already queued stays as it is (OR IGNORE).
QueueAndDeleteArticle(a) ==
  /\ a \in articles
  /\ queue' = [k \in Keys |-> IF mediaArticle[k] = a /\ ~Queued(k) THEN a ELSE queue[k]]
  /\ articles' = articles \ {a}
  /\ mediaArticle' = [k \in Keys |-> IF mediaArticle[k] = a THEN NoArticle ELSE mediaArticle[k]]
  /\ cover' = cover \ RowsOf(a)

DropFromQueue(k) ==
  /\ queue' = [queue EXCEPT ![k] = NoArticle]
  /\ UNCHANGED <<articles, mediaArticle, cover>>

\* Repository.Create, seen from here: a new article without media.
CreateArticle(a) ==
  /\ FreshArticle(a)
  /\ articles' = articles \cup {a}
  /\ UNCHANGED <<mediaArticle, cover, queue, objects, mu, pc, slotVars>>

-----------------------------------------------------------------------------
(* Requests: a slot accepts one, works on it, answers with a status.       *)

Accept(r, first, a, k, viaAdmin) ==
  /\ pc[r] = "idle"
  /\ pc' = [pc EXCEPT ![r] = first]
  /\ target' = [target EXCEPT ![r] = a]
  /\ key' = [key EXCEPT ![r] = k]
  /\ code' = [code EXCEPT ![r] = 0]
  /\ admin' = IF viaAdmin THEN admin \cup {r} ELSE admin
  /\ UNCHANGED <<dbVars, objects, mu, todo>>

Goto(r, step) ==
  /\ pc' = [pc EXCEPT ![r] = step]
  /\ UNCHANGED <<mu, slotVars>>

Answer(r, status) ==
  /\ pc' = [pc EXCEPT ![r] = "idle"]
  /\ target' = [target EXCEPT ![r] = NoArticle]
  /\ key' = [key EXCEPT ![r] = NoKey]
  /\ todo' = [todo EXCEPT ![r] = {}]
  /\ code' = [code EXCEPT ![r] = status]
  /\ admin' = admin \ {r}

\* A handler returns: its deferred Unlock runs.
Return(r, status) == Answer(r, status) /\ mu' = Nobody

\* A request enters its handler's critical section.
Enter(r) ==
  /\ pc[r] \in Waiting
  /\ mu' = r
  /\ pc' = [pc EXCEPT ![r] = CASE @ = "up_wait" -> "up_lookup"
                               [] @ = "rm_wait" -> "rm_lookup"
                               [] @ = "del_wait" -> "del_tx"]
  /\ UNCHANGED <<dbVars, objects, slotVars>>

\* Variant: no mutex.
Lock_NoMutex(r) == Enter(r)

\* A handler's a.mediaMu.Lock() returns.
Lock(r) == mu = Nobody /\ Enter(r)

-----------------------------------------------------------------------------
(* createMedia: look the article up, put the object, check source_url,     *)
(* insert the row, read it back; undo the put on a failure past it.        *)

\* The uuid of the object key is drawn here, which nothing can observe.
AcceptUpload(r, a) == \E k \in Keys : Fresh(k) /\ Accept(r, "up_wait", a, k, FALSE)

\* Variant: this return forgets to unlock.
UploadRefuse_KeepsLock(r) ==
  /\ pc[r] \in {"up_lookup", "up_put"}
  /\ Answer(r, 422)
  /\ UNCHANGED <<mu, dbVars, objects>>

\* 422: the form before the look-up, the file, its type, its size after it.
UploadRefuse(r) ==
  /\ pc[r] \in {"up_lookup", "up_put"}
  /\ Return(r, 422)
  /\ UNCHANGED <<dbVars, objects>>

UploadLookup(r) ==
  /\ pc[r] = "up_lookup"
  /\ \/ target[r] \in articles /\ Goto(r, "up_put")
     \/ target[r] \notin articles /\ Return(r, 404)
     \/ DbFails /\ Return(r, 500)
  /\ UNCHANGED <<dbVars, objects>>

\* Variant: the error is not looked at.
UploadPut_IgnoresError(r) ==
  /\ pc[r] = "up_put"
  /\ PutSucceeds(key[r]) \/ PutFails(key[r])
  /\ Goto(r, "up_check")
  /\ UNCHANGED dbVars

UploadPut(r) ==
  /\ pc[r] = "up_put"
  /\ \/ PutSucceeds(key[r]) /\ Goto(r, "up_check")
     \/ PutFails(key[r]) /\ Return(r, 502)
  /\ UNCHANGED dbVars

BeginUndo(r, status) ==
  /\ pc' = [pc EXCEPT ![r] = "up_undo"]
  /\ code' = [code EXCEPT ![r] = status]
  /\ UNCHANGED <<mu, target, key, todo, admin>>

\* Variant: a bad source_url is refused without deleting the object.
UploadCheck_NoUndo(r) ==
  /\ pc[r] = "up_check"
  /\ Goto(r, "up_insert") \/ Return(r, 422)
  /\ UNCHANGED <<dbVars, objects>>

\* source_url is looked at only now that the object is stored.
UploadCheck(r) ==
  /\ pc[r] = "up_check"
  /\ Goto(r, "up_insert") \/ BeginUndo(r, 422)
  /\ UNCHANGED <<dbVars, objects>>

UploadInsert(r) ==
  /\ pc[r] = "up_insert"
  /\ \/ /\ \E isCover \in BOOLEAN : CreateMediaTx(target[r], key[r], isCover)
        /\ Goto(r, "up_reread")
     \/ /\ target[r] \notin articles \/ DbFails
        /\ BeginUndo(r, 500)
        /\ UNCHANGED dbVars
  /\ UNCHANGED objects

\* CreateMedia ends with GetMedia, outside the transaction it has committed; an
\* error of either is one error to createMedia.
UploadReread(r) ==
  /\ pc[r] = "up_reread"
  /\ \/ HasRow(key[r]) /\ Return(r, 201)
     \/ (~HasRow(key[r]) \/ DbFails) /\ BeginUndo(r, 500)
  /\ UNCHANGED <<dbVars, objects>>

\* _ = a.storage.Delete: the result is ignored.
UploadUndo(r) ==
  /\ pc[r] = "up_undo"
  /\ DeleteSucceeds(key[r]) \/ DeleteFails(key[r])
  /\ Return(r, code[r])
  /\ UNCHANGED dbVars

-----------------------------------------------------------------------------
(* removeMedia: look the row up, delete the object, then the row.          *)

AcceptRemove(r, k) == Accept(r, "rm_wait", NoArticle, k, FALSE)
AcceptAdminRemove(r, a, k) == Accept(r, "rm_check", a, k, TRUE)

\* adminDeleteMedia compares the row's article with the one in its path before
\* removeMedia takes the mutex.
RemoveCheck(r) ==
  /\ pc[r] = "rm_check"
  /\ \/ mediaArticle[key[r]] = target[r] /\ Goto(r, "rm_wait")
     \/ (mediaArticle[key[r]] # target[r] \/ DbFails) /\ Answer(r, 404) /\ UNCHANGED mu
  /\ UNCHANGED <<dbVars, objects>>

RemoveLookup(r) ==
  /\ pc[r] = "rm_lookup"
  /\ \/ HasRow(key[r]) /\ Goto(r, "rm_object")
     \/ ~HasRow(key[r]) /\ Return(r, 404)
     \/ DbFails /\ Return(r, 500)
  /\ UNCHANGED <<dbVars, objects>>

\* Variant: the row first, then the object.
RemoveObject_RowFirst(r) ==
  /\ pc[r] = "rm_object"
  /\ DeleteMediaRow(key[r])
  /\ \/ DeleteSucceeds(key[r]) /\ Return(r, 204)
     \/ DeleteFails(key[r]) /\ Return(r, 502)

\* Variant: the row is left to the deletion of the article.
RemoveObject_KeepsRow(r) ==
  /\ pc[r] = "rm_object"
  /\ DeleteSucceeds(key[r])
  /\ Return(r, 204)
  /\ UNCHANGED dbVars

\* Variant: deleting an object that is not there is an error.
RemoveObject_MissingIsError(r) ==
  /\ pc[r] = "rm_object"
  /\ \/ key[r] \in objects /\ DeleteSucceeds(key[r]) /\ Goto(r, "rm_row")
     \/ key[r] \notin objects /\ Return(r, 502) /\ UNCHANGED objects
  /\ UNCHANGED dbVars

RemoveObject(r) ==
  /\ pc[r] = "rm_object"
  /\ \/ DeleteSucceeds(key[r]) /\ Goto(r, "rm_row")
     \/ DeleteFails(key[r]) /\ Return(r, 502)
  /\ UNCHANGED dbVars

RemoveRow(r) ==
  /\ pc[r] = "rm_row"
  /\ \/ DeleteMediaRow(key[r]) /\ Return(r, 204)
     \/ /\ ~HasRow(key[r]) \/ DbFails
        /\ DeleteMediaRow(key[r]) \/ UNCHANGED dbVars
        /\ Return(r, 500)
  /\ UNCHANGED objects

-----------------------------------------------------------------------------
(* deleteArticleWithMedia: queue the article's objects and delete the      *)
(* article in one transaction, then work through the article's queue: this *)
(* deletion's entries, or those an earlier one left behind.                *)

AcceptDelete(r, a, viaAdmin) == Accept(r, "del_wait", a, NoKey, viaAdmin)

\* Variant: adminDelete redirects after any error.
OtherError_Redirect(r) == IF r \in admin THEN 303 ELSE 500

\* handleContentError answers 500, adminDelete 404.
OtherError(r) == IF r \in admin THEN 404 ELSE 500

\* deleteArticleWithMedia goes on with one of its loop's two steps.
Loop(r, step, k, pending) ==
  /\ pc' = [pc EXCEPT ![r] = step]
  /\ key' = [key EXCEPT ![r] = k]
  /\ todo' = [todo EXCEPT ![r] = pending]
  /\ UNCHANGED <<mu, target, code, admin>>

StartLoop(r, pending) == Loop(r, "del_object", NoKey, pending)

\* Variant: an article that is already gone is 404 without a look at the queue.
DeleteTx_GoneIs404(r) ==
  /\ pc[r] = "del_tx"
  /\ \/ /\ QueueAndDeleteArticle(target[r])
        /\ StartLoop(r, {k \in Keys : queue'[k] = target[r]})
     \/ target[r] \notin articles /\ Return(r, 404) /\ UNCHANGED dbVars
     \/ DbFails /\ Return(r, OtherError(r)) /\ UNCHANGED dbVars
  /\ UNCHANGED objects

\* Variant: the objects are queued in a transaction of its own, which stays when deleting fails.
DeleteTx_QueueStays(r) ==
  /\ pc[r] = "del_tx"
  /\ \/ QueueAndDeleteArticle(target[r]) /\ StartLoop(r, {k \in Keys : queue'[k] = target[r]})
     \/ target[r] \notin articles /\ Return(r, 404) /\ UNCHANGED dbVars
     \/ /\ DbFails /\ Return(r, OtherError(r))
        /\ queue' = [k \in Keys |-> IF mediaArticle[k] = target[r] THEN target[r] ELSE queue[k]]
        /\ UNCHANGED <<articles, mediaArticle, cover>>
  /\ UNCHANGED objects

DeleteTx(r) ==
  /\ pc[r] = "del_tx"
  /\ \/ /\ QueueAndDeleteArticle(target[r])
        /\ StartLoop(r, {k \in Keys : queue'[k] = target[r]})
     \/ /\ target[r] \notin articles
        /\ PendingOf(target[r]) # {}
        /\ StartLoop(r, PendingOf(target[r]))
        /\ UNCHANGED dbVars
     \/ /\ target[r] \notin articles
        /\ PendingOf(target[r]) = {}
        /\ Return(r, 404)
        /\ UNCHANGED dbVars
     \/ DbFails /\ Return(r, OtherError(r)) /\ UNCHANGED dbVars
  /\ UNCHANGED objects

\* Entries come by ascending id; any order is allowed here.
DeleteObject(r) ==
  /\ pc[r] = "del_object"
  /\ \E k \in todo[r] :
       \/ DeleteSucceeds(k) /\ Loop(r, "del_done", k, todo[r])
       \/ DeleteFails(k) /\ Return(r, 502)
  /\ UNCHANGED dbVars

\* CompleteObjectDeletion.
DeleteComplete(r) ==
  /\ pc[r] = "del_done"
  /\ \/ DropFromQueue(key[r]) /\ Loop(r, "del_object", NoKey, todo[r] \ {key[r]})
     \/ DbFails /\ (DropFromQueue(key[r]) \/ UNCHANGED dbVars) /\ Return(r, OtherError(r))
  /\ UNCHANGED objects

DeleteEnd(r) ==
  /\ pc[r] = "del_object"
  /\ todo[r] = {}
  /\ Return(r, 204)
  /\ UNCHANGED <<dbVars, objects>>

-----------------------------------------------------------------------------
(* The process dies: requests and the mutex are gone, tables and objects   *)
(* stay.  Nothing looks at object_deletions when it starts again.          *)
Crash ==
  /\ "crash" \in Faults
  /\ mu' = Nobody
  /\ pc' = [r \in Requests |-> "idle"]
  /\ target' = [r \in Requests |-> NoArticle]
  /\ key' = [r \in Requests |-> NoKey]
  /\ todo' = [r \in Requests |-> {}]
  /\ code' = [r \in Requests |-> 0]
  /\ admin' = {}
  /\ UNCHANGED <<dbVars, objects>>

AcceptRequest(r) ==
  \/ \E a \in ArticleIds : AcceptUpload(r, a)
  \/ \E k \in Keys : AcceptRemove(r, k)
  \/ \E a \in ArticleIds, k \in Keys : AcceptAdminRemove(r, a, k)
  \/ \E a \in ArticleIds, viaAdmin \in BOOLEAN : AcceptDelete(r, a, viaAdmin)

UploadStep(r) == \/ UploadRefuse(r) \/ UploadLookup(r) \/ UploadPut(r) \/ UploadCheck(r)
                 \/ UploadInsert(r) \/ UploadReread(r) \/ UploadUndo(r)
RemoveStep(r) == RemoveCheck(r) \/ RemoveLookup(r) \/ RemoveObject(r) \/ RemoveRow(r)
DeleteStep(r) == DeleteTx(r) \/ DeleteObject(r) \/ DeleteComplete(r) \/ DeleteEnd(r)

\* What a request in progress does once it need not wait for the mutex.
Proceed(r) == UploadStep(r) \/ RemoveStep(r) \/ DeleteStep(r)

Next ==
  \/ \E a \in ArticleIds : CreateArticle(a)
  \/ \E r \in Requests : AcceptRequest(r) \/ Lock(r) \/ Proceed(r)
  \/ Crash

Spec == Init /\ [][Next]_vars

-----------------------------------------------------------------------------
(* Safety under every fault.                                               *)

\* A media row belongs to an existing article, a queued deletion to a deleted one,
\* and no object has both: article deletion moves all the article's objects at once
\* (DeleteAndQueueMedia), and no upload adds a row to an article being deleted.
RowsOrQueue ==
  \A k \in Keys : /\ HasRow(k) => mediaArticle[k] \in articles
                  /\ Queued(k) => queue[k] \notin articles
                  /\ ~(HasRow(k) /\ Queued(k))

\* An article has at most one cover, however uploads and removals follow one
\* another (CreateMedia demotes the old cover), and only media rows are covers.
OneCover ==
  /\ \A k \in cover : HasRow(k)
  /\ \A j, k \in cover : mediaArticle[j] = mediaArticle[k] => j = k

\* What a handler read is still true when it acts on it: the article it uploads to
\* exists, the row it removes is there (its object gone once deleted), the pending
\* deletions it works through are exactly those of its deleted article.  This is
\* what mediaMu is for: the rows change under no handler's feet.
LookupsStayTrue ==
  \A r \in Requests :
    /\ pc[r] \in {"up_put", "up_check", "up_insert"} => target[r] \in articles
    /\ pc[r] \in {"up_check", "up_insert"} => key[r] \in objects
    /\ pc[r] = "up_reread" => HasRow(key[r]) /\ key[r] \in objects
    /\ pc[r] \in {"rm_object", "rm_row"} => HasRow(key[r])
    /\ pc[r] \in {"rm_row", "del_done"} => key[r] \notin objects
    /\ pc[r] \in {"del_object", "del_done"} =>
         target[r] \notin articles /\ todo[r] = PendingOf(target[r])
    /\ pc[r] = "del_done" => key[r] \in todo[r]

\* The database never forgets an object that is still stored: the row, or the
\* queue entry, goes only after the object (media.go:151-154, 168-171), whatever
\* fails or crashes in between.
NeverForget == [][\A k \in Keys : Tracked(k) /\ k \in objects' => Tracked(k)']_vars

\* r's handler answers in this step.
Answers(r, steps, status) ==
  /\ pc[r] \in steps
  /\ pc'[r] = "idle"
  /\ code'[r] = status

Removed(k) == ~Tracked(k) /\ k \notin objects
Gone(a)    == a \notin articles /\ RowsOf(a) \cup PendingOf(a) = {}

\* What success, and 404, tell the client is true of both stores when it is said:
\* an uploaded image has its row and its object, a removed one has neither, and a
\* deleted article has no rows and no pending deletions left.  A 404 of adminDelete
\* may also stand for a database error and promises nothing.
TrueAnswer(r) ==
  /\ \A k \in Keys : key[r] = k =>
       /\ Answers(r, UploadSteps, 201) => HasRow(k)' /\ k \in objects'
       /\ Answers(r, RemoveSteps, 204) => Removed(k)'
       /\ Answers(r, RemoveSteps, 404) => ~HasRow(k)'
  /\ \A a \in ArticleIds : target[r] = a =>
       /\ Answers(r, DeleteSteps, 204) => Gone(a)'
       /\ Answers(r, DeleteSteps, 404) /\ r \notin admin => Gone(a)'

AnswersAreTrue == [][\A r \in Requests : TrueAnswer(r)]_vars

\* After 502 the same request can be made again: the media row is still there, or
\* the article is gone and its remaining objects are queued
\* (TestArticleDeleteStorageFailureIsRetryable); a refused upload left no row.
Retryable(r) ==
  /\ \A k \in Keys : key[r] = k =>
       /\ Answers(r, RemoveSteps, 502) => HasRow(k)'
       /\ Answers(r, UploadSteps, 502) => ~Tracked(k)'
  /\ \A a \in ArticleIds : target[r] = a /\ Answers(r, DeleteSteps, 502) =>
       a \notin articles' /\ PendingOf(a)' # {}

StorageErrorsAreRetryable == [][\A r \in Requests : Retryable(r)]_vars

\* The part of the state MediaLedger specifies.
Ledger == INSTANCE MediaLedger WITH owner <- mediaArticle, condemned <- queue, stored <- objects

\* Under every fault, the tables and the object store follow MediaLedger.
ImplementsLedger == Ledger!Spec

-----------------------------------------------------------------------------
(* When nothing fails.                                                     *)

\* No stored object is without a row or queue entry, except while its upload is
\* between the two, or undoing.
NoOrphan ==
  \A k \in objects :
    Tracked(k) \/ \E r \in Requests : key[r] = k /\ pc[r] \in {"up_check", "up_insert", "up_undo"}

\* No media row names a missing object, except between the two deletions of removeMedia.
RowsAreStored ==
  \A k \in Keys : HasRow(k) => k \in objects \/ \E r \in Requests : key[r] = k /\ pc[r] = "rm_row"

\* Concurrent uploads, removals and deletions of the same article and image never make
\* one another fail: with a healthy database and store no 500 or 502 is answered.
NoSpuriousErrors == \A r \in Requests : code[r] \notin {500, 502}

-----------------------------------------------------------------------------
(* What one fault is enough to break.                                      *)

\* An upload, however it ends, leaves no media row whose object it deleted.
UploadedRowsAreStored ==
  [][\A r \in Requests, k \in Keys :
       key[r] = k /\ pc[r] \in UploadSteps /\ pc'[r] = "idle" => (HasRow(k)' => k \in objects')]_vars

\* An upload refused with 422 leaves nothing in the object store.
RefusedUploadsAreNotStored ==
  [][\A r \in Requests, k \in Keys :
       key[r] = k /\ Answers(r, UploadSteps, 422) => k \notin objects']_vars

-----------------------------------------------------------------------------
(* Progress.                                                               *)

\* A handler past its Lock keeps going: SQLite and object store calls return, with
\* an answer or an error.  A request waiting for mediaMu gets it in the end: a
\* sync.Mutex hands itself to the longest waiter once that has waited for 1 ms.
Fairness == \A r \in Requests : WF_vars(Proceed(r)) /\ SF_vars(Lock(r))

FairSpec == Spec /\ Fairness

\* Every request is answered (or lost in a crash), however many others compete for
\* the mutex and whatever fails on the way: every path releases it.
EveryRequestAnswered == \A r \in Requests : pc[r] # "idle" ~> pc[r] = "idle"

\* One deletion of an article, run while nothing fails, also finishes what an
\* interrupted one left: every object the article had or had queued is gone from
\* both stores.
DeleteFinishes ==
  \A r \in Requests, a \in ArticleIds, k \in Keys :
    pc[r] = "del_wait" /\ target[r] = a /\ a \in {mediaArticle[k], queue[k]} ~> Removed(k)

\* One removal of an image, run while nothing fails, finishes what an interrupted
\* one left, even if the article is deleted before it gets the mutex.
RemoveFinishes ==
  \A r \in Requests, k \in Keys : pc[r] = "rm_wait" /\ key[r] = k /\ HasRow(k) ~> Removed(k)
=============================================================================
