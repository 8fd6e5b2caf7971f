# A TLA+ model of mythblog

`mythblog` (the Go program `oddity`) is a blog engine: a REST API for agents, an admin UI, public
pages, one SQLite file and one object store for images. These modules model what in it is concurrent,
takes several steps, or can fail half-way. Paths below are relative to the repository.

## 1. Inventory

| component | state | operations | interacts with |
|---|---|---|---|
| media lifecycle, `internal/server/media.go` and the media handlers of `api.go`, `admin.go` | `App.mediaMu`; per request: article, object key, pending deletions | upload, removal of an image, deletion of an article with its images | repository calls and object-store calls, one after another, under the mutex |
| object storage, `internal/storage/*` | the objects: a directory, a bucket or a map | Put, Delete | called by the media lifecycle only |
| article repository, writes, `internal/content/repository.go`, `model.go` | tables articles, article_categories, sources, article_sources, article_relations | Create, Update, replaceLinks, DeleteAndQueueMedia | a transaction on the pool's only connection |
| article repository, reads, and the handlers of `web.go`, `api.go` | none of their own | get, List, ListPublished, GetPublishedBySlug, GetCategoryBySlug | several queries per request, with the connection free in between |
| categories | table categories | CreateCategory, lists | link rows of articles |
| SQLite and migrations, `internal/database` | the file; `schema_migrations`; one connection (`SetMaxOpenConns(1)`) | Open, migrate | everything |
| admin sessions and CSRF, `session.go`, `admin.go` | none on the server: a signed cookie with its expiry, a CSRF cookie | login, logout, check, rendering of tokens | the configuration signs, the browser keeps; guards the admin's pages |
| API keys and roles, `api.go` | none | requireRole, secureEqual | the configuration; guards the API |
| configuration, `internal/config` | constant after the start | FromEnv, Validate | what the checks of sessions and keys rest on |
| admin article form, `admin.go`, `admin_form.html` | none on the server: the controls of a page | new, edit, save, refuse, delete; sources and relations to text and back | Create, Update, deletion; API clients write the same article |
| image gate and processing, `media.go:76-139` | none | bound on pixels, scaling, JPEG | a step of an upload |
| process lifecycle, `cmd/oddity/main.go`, the systemd unit | listener, signals | start, shutdown with a ten-second deadline, restart | upgrades the database, cuts requests off |
| health check, error pages, templates, static files, Markdown | none | | |

What is hard here, and what makes each part correct:

- **Two stores and no common transaction.** A media row and its object are written and deleted in two
  calls, each of which can fail, or fail after it took effect; the process can die in between. Correct
  means: an object that exists is never forgotten by the database, what the client is told is true, and
  a failed deletion can be repeated until it is done.
- **One mutex around look-up and use.** What a handler looked up must still hold when it acts.
- **Deletion queue.** Deleting an article removes its media rows by cascade; the queue entries written
  in the same transaction are then the only trace of the objects.
- **Several tables, early returns.** A write of an article must be all or nothing, leave no orphan rows,
  and always release the only connection.
- **One connection.** Open rows keep it: a list that asked for an article before its own rows are closed would
  wait for itself.
- **Reads that are not transactions.** A list or an article is put together from many queries between
  which anything may be written.

- **State that lives in a browser.** Cookies outlive restarts, secrets and clocks, forms stay open while their
  article changes or goes. Correct means: who may change an article is decided by the running
  configuration, a form writes the article it was opened for, and what the editor did not touch stays.
- **Text in both directions.** Sources and relations are shown as lines of fields and read back.
- **An upgrade at every start.** Files are looked up outside the transaction that runs them; a second
  process, a crash or a failing file can come in between.
- **A file system under the object store.** A Put is three system calls, read by a file server meanwhile.
- **Arithmetic at limits.** A product that must not overflow, a quotient that is rounded twice.

`PROJECT.json` lists each hazard at its line with the properties that cover it.

## 2. The modules

    MediaLedger   <--implements--  MediaStore   <--  MCMediaStore (instances)
                                               <--  MediaStoreProofs (theorems)
    Catalog       <--implements--  ArticleStore <--  MCArticleStore
            |                                  <--  ArticleProofs <-- ArticleCatalogProofs
            ^-----extends--------  ArticleReads <--  MCArticleReads
                                               <--  ReadProofs
    AdminAccess   <---extends---   AdminForm    <--  MCAdminForm
                                               <--  AdminProofs   <-- FormProofs
    ObjectStore   <--implements--  LocalStorage --.
                                   Migrations   --+--> Process  <--  MCProcess
                                   ImageGate    --'            <--  ProcessProofs <-- UpgradeProofs

**MediaLedger** says what the media part promises of an object: it is stored before it is published, the
images of an article are condemned together, and an object is forgotten only when it is no longer stored.

**MediaStore** is the code. `articles`, `mediaArticle`, `cover`, `queue` are the tables (`mediaArticle` is
object_key -> article_id of table media, `queue` the same of object_deletions), `objects` the object store,
`mu` the holder of `mediaMu`. A *request slot* is a request in progress with its next step `pc`. Steps
are the calls the handler makes: each transaction is one step (one connection, no reader sees its
middle), each Put or Delete is one step. `UploadRefuse ... UploadUndo` are createMedia from top to bottom,
`RemoveCheck ... RemoveRow` are adminDeleteMedia's check and removeMedia, `DeleteTx ... DeleteEnd` are
deleteArticleWithMedia. `Return` is an answer with the deferred Unlock. Answers are the HTTP status of
the API; the admin's redirects count as 201 and 204, its `admin` flag makes adminDelete's 404 for any
other error visible. `Faults` says what may go wrong: `db` (a transaction fails and is rolled back; a
single statement may have run although it reports an error), `put` and `delete` (a failing call may
have taken effect), `crash`.

**Catalog** is the editor's view: an article with all its links is one value. `InitialCategories` are the
ones migration 006 inserts.

**ArticleStore** runs Create, Update and DeleteAndQueueMedia statement by statement. `tables` is what
the connection sees, `committed` what the database would be after a rollback, `conn` who has the
connection. `Rollback` is the deferred `tx.Rollback()` with the answer of the early return, `Fails` a
statement or commit that fails, `Reread` the read after the commit. Lists are here for the connection's sake
only: `ReadRows` is the loop over ids, which gives the connection back at its end, `ReadArticle` each
`GetByID` after it (its queries close their rows one by one and count as one). Refinement: `CommittedCatalog`
assembles articles from the committed tables the way `get` does.

**ArticleReads** extends Catalog with readers: one step per query of `get`, `List`, `ListPublished`,
`GetPublishedBySlug`. The writers take Catalog's atomic steps, which the refinement above justifies: with one
connection a query runs before a transaction or after it. `window` is a history variable: the catalogs there
have been while a request ran. A list has the `Limit` newest of the articles that match; `Newer` is the order of
`created_at` and id, which no update changes. The admin's list (`admin`) is a kind of its own, because its
handler answers 500 where the API's answers 404 (`MissStatus`). A loop over rows that ends early without an
error being asked for (`rows.Err`) is a query that returns a subset; `faulted` remembers that it did.

**AdminAccess** is what a request is checked against. A configuration is what `Validate` looks at; `Restart`
replaces it by any other that `Validate` accepts. Cookies are the browser's variables `session` and `csrf`: the
first holds the payload that was signed and the secret it was signed with, so that a signature is valid exactly
under that secret. A text is the sequence of its parts between "|", which makes the payload `name|expiry` and
its parsing what they are in the code. `login` is a history variable: the log-in the cookie comes from. The
browser may lose either cookie at any time (`LoseSession`, `LoseCSRF`: MaxAge, another browser, a cleared
profile) and need not drop an expired one. Tokens are fresh when no page holds them. The CSRF cookie travels: a
request brings the one of when it was sent, and `ensureCSRFToken` looks at that one; what it sets reaches the
browser with the answer. A request that brings a cookie sets none, so it is one step, placed where it was sent.
`bare` counts those sent without one and not answered yet (`SendBare`): `Brings(c)` lets any request of the
browser be one of them, answered after other answers have set the cookie, which its own then replaces;
`ForgetBare` is one given up, or answered without a cookie. The other contents of a request (session cookie,
fields) are taken as they are when it is handled.

**AdminForm** composes this with the form and the API on one slug: the handlers of `admin.go` and `api.go` that
read or write the article are one action each, from authentication to answer. `form` is the page in the browser;
its `fields` are the controls, and `shown`, `touched`, `blanked`, `exposed`, `born` are history that the
properties speak about. The list of articles (`AdminArticles`) is there for the token it renders. `SourcesText`,
`ParseForm` and the rest are the conversions. One article at a time has the slug; `born` tells it from a later
one. `last` is the request just answered; no step reads it, and the run's VIEW leaves it out.

**ObjectStore** is what MediaStore takes for granted of Put and Delete: in one step or not at all, in
effect if answered without an error. **LocalStorage** is the local driver call by call: create or truncate
`key.new`, write it, rename it, for Delete remove the file. `temp` is the `.new` file; a crash
or an error leaves it behind. The refinement hides it and marks a call as done from the rename on.

**Migrations** is `database.Open`: `Look` is the query for a version, `RunFile` the file (the first statement that
writes takes SQLite's lock), `Record` the insert of its version, `Commit`. `ComesSecond` is the error of the
process whose file or version is there already, `TiresOfWaiting` SQLITE_BUSY. Of the database it keeps what
files 004 and 006 change: sources, their links, categories. `legacy` is what there was at the beginning.

**ImageGate** has the bound on declared pixels and the scaling of `processImage`; `Scaled` is a set because the
floating-point quotient may fall just below the whole number it should be.

**Process** composes the last three for several processes on one machine: start and upgrade, listen, serve uploads and
removals, drain on a signal, die at the deadline or anywhere else, start again. **Host** holds the
constants they share.

## 3. Runs

| run (cfg) | question | bounds |
|---|---|---|
| MediaStoreFaults | Under every fault: are the tables consistent (`RowsOrQueue`, `OneCover`), look-ups true until used (`LookupsStayTrue`), objects never forgotten (`NeverForget`), answers true (`AnswersAreTrue`), 502s repeatable (`StorageErrorsAreRetryable`), and is MediaLedger implemented? | 2 requests, 3 object keys, 2 articles |
| MediaStoreClean | Without faults: do rows and objects agree (`NoOrphan`, `RowsAreStored`), and do concurrent requests never make each other fail (`NoSpuriousErrors`)? | the same |
| MediaStoreLive | Is every request answered, i.e. is the mutex released on every path? | 2 requests, 2 keys, 1 article, all faults |
| MediaStoreRecovery | From any tables and objects failures can have left: does one deletion or removal finish the job? | the same, no further faults |
| ArticleStore | Does a write implement Catalog's single step, leave nothing when it fails, commit what was sent, leave no orphan sources? Do writes and lists give the connection back and get it (`EveryRequestAnswered`)? | 2 requests, 2 article ids, 2 slugs, 2 categories, 2 source rows, 3 inputs |
| ArticleReads | Has a list exactly the articles of one moment of the request (`ListsAreOfOneMoment`), is each part of an article from some moment of it (`PartsWereTrue`), does only the deletion of one of its own articles fail a list (`MissesAreExplained`)? | 1 reader, 3 articles, lists of at most 2, 4 writes, nothing after the request's answer |
| AdminForm | Does a session count exactly as long as its log-in (`SessionsAsLoggedIn`)? Who can change the article (`ChangesAreAuthorised`), and what can the agent's key not do (`AgentsOnlyWrite`)? Does a form stay usable (`FormsCarryTheToken`), come back when it is refused (`RefusedFormsComeBack`), write the article it was opened for (`FormsHitTheirArticle`) and keep what was not touched (`UntouchedPartsAreKept`)? | 3 configurations that may run and 3 that may not, 3 keys, 3 tokens, 1 request without CSRF cookie under way, 2 articles after one another, 1 API input, one change to a control, times 0 and 1 with a TTL of 1 |
| Process | Is an upgrade applied in order (`VersionsInOrder`), without loss (`UpgradeKeepsData`) and to its end (`UpgradeFinishes`), does the local driver keep the store's promise (`ImplementsObjectStore`), does every stored image fit (`StoredImagesFit`)? | 2 processes, 1 object key, 2 faults, an empty database and one of version 3, 6 images at the real limits |
| MediaStoreUndo, MediaStoreRefused, ArticleReadsDrafts, ArticleReadsLinks | each shows one finding | |

Why these bounds. In MediaStore only the holder of the mutex acts on stored state; a second slot gives every
overlap of waiting, checking outside the mutex and acting. Three keys allow an article two images
(a cover to demote, a loop of length two) and an upload besides; two articles keep each other's objects
apart. Object keys and article ids that nobody mentions any more are used again, standing for fresh ones,
so behaviours are not bounded in length. The proofs drop the bounds. In ArticleStore, ids are given once, so
two are created, updated, related and deleted in every order by two requests; two source rows are enough
since each article may have one, and a third input that relates to an article that may not exist, lacks a
category or takes a used slug reaches each refusal. In ArticleReads the readers share nothing, so one
is enough, and its next request begins like its first, so that nothing after an answer is explored (the constraint
`OneRequest`; the two runs that show findings have none). Three articles and a limit of two leave one out, which
comes into the list when another is deleted or drafted; four writes create the
three and change or delete one, or create two and change or delete both, before the request or between its queries.

In AdminForm a session is made at one time and expires at the next, in every order with restarts that change the
secret or the name; of the configurations that must be refused one has equal keys, one a name with "|", one a
password equal to a key. Three tokens are one per place that can hold one (login page, form, cookie); with a
fourth the reachable states are the same up to the names of tokens. One request without cookie is enough to
replace a cookie behind an open form; a second could only do so again. Two articles let a form outlive its
article and meet the next one; the inputs contain a source with "|" in its title, one whose last field has one,
a status left out; the form can be filled with a status that is not in the list, lines that are empty or short,
an unreadable relation, and the empty form is refused for its title. More than one change to a control would not
add a case: properties are stated per control. In Process keys are independent of one another, so that one key
that is put, read and removed by two processes is enough; two faults let the second process be disturbed after
the first one was. The old database has two articles that share a source, with links in the order that tells the
two numberings of file 004 apart. The images are a tall one, a strip that is scaled to nothing, a small one, and
three that are refused (just over 25,000,000 pixels, far over, a side of 0). Bounds by name: `MaxWrites`,
`MaxTime`, `MaxBare`, `MaxArticles`, `MaxEdits`, `MaxFaults`.

Symmetry is used where all properties are invariants or action properties (MediaStoreFaults, MediaStoreClean)
over sets of interchangeable ids, and in AdminForm over the tokens. In AdminForm states that differ only in `last`
are one state (VIEW); the properties that mention `last` are about a step's answer, and read `last'` only.

Fairness. `MediaStore!Fairness`: a handler past its Lock goes on (SQLite and the store return, with an answer or
an error), and a request that waits gets the mutex although others keep taking it: strong fairness, because Go's
`sync.Mutex` hands itself to a waiter that has waited for 1 ms. `ArticleStore!Fairness`: `database/sql` gives
the connection to waiting requests in order (strong fairness of `GetsConnection`; a request waits for one thing
at a time), and statements and loops over rows return. `Process!Fairness`: a process goes on by itself, and one
that ended is started again: every end before the upgrade is complete is an exit with an error, which systemd
restarts after 3 s (Restart=on-failure; five starts in ten seconds, its limit, cannot happen). Crashes and
failures are counted by `MaxFaults` there, because a machine on which every start fails never upgrades; races
between the processes are not counted. `Drained` is fair only while no request runs, and `Deadline` needs no
fairness: TimeoutStopSec (15 s) kills what the ten seconds leave. No crash or failure is assumed to stop
happening, except in MediaStoreRecovery, which is about the time after them.

## 4. Findings

1. `MediaStoreUndo`: CreateMedia commits the row, then reads it back. If that read fails, createMedia deletes
   the object (`media.go:112`) and the row stays with a URL that leads nowhere.
2. `MediaStoreRefused`: source_url is checked after the object is stored, and the clean-up's error is
   ignored (`media.go:104`): an upload answered 422 can stay stored, named by nothing.
3. `ArticleReadsDrafts`: ListPublished checks the status when it selects ids, not when it reads the
   articles (`repository.go:268`): an article unpublished in between is shown.
4. `ArticleReadsLinks`: relations are joined without looking at the status (`repository.go:174`), and the
   article page links them: titles and slugs of drafts are public.

In the model 1 and 2 need one fault, 3 one concurrent write, 4 nothing at all.
A fifth fact is a design limit rather than an error: nothing looks at `object_deletions` at start, so
after a crash the objects of a deleted article stay until someone repeats the DELETE (which works:
`DeleteFinishes`).

Facts met in AdminForm and Process that nothing in the repository promises otherwise, and that the properties
therefore except by name: a source whose title, publisher or date contains "|" changes when its article is
opened and saved unchanged (its fields shift; `Plain`); a form refused for its token comes back without title,
text and categories and with empty selects, so that saving it publishes a draft (`blanked`); logging out clears
this browser's cookie and leaves copies of it valid; two pages loaded at the same time by a browser without CSRF
cookie draw a token each, the later answer replaces the cookie, and the other page's form is refused when it is
sent, though no cookie was lost (`exposed`; the refusal draws no new token but gives the form the cookie's, so
that sending it again works, with the rest filled in again); of two editors the last one wins; an image
thousands of times longer than wide is scaled to a side of zero and stored (`Fits`); a failed Put leaves
`key.new` behind; the file is not synced before its rename, so a power failure of the machine, unlike a crash of
the process, may lose it.

## 5. Proofs

Every invariant, action property and refinement that a passing run checks is also a theorem, for every value of
the constants that the named assumptions allow. What each rests on follows, module by module.

### MediaStoreProofs

For every set of requests, keys and articles and every `Faults`, from the module's assumptions (the
sentinel values are not members of the sets they stand beside, `Faults` are known kinds):

| theorem | states |
|---|---|
| TypeCorrect | `Spec => []TypeOK` |
| InvAlways | `Spec => []IInv` |
| MediaIsConsistent | `Spec => []RowsOrQueue` |
| CoversStaySingle | `Spec => []OneCover` |
| LookupsHold | `Spec => []LookupsStayTrue` |
| NothingIsForgotten | `Spec => NeverForget` |
| AnswersHold, FailuresCanBeRepeated | `Spec => AnswersAreTrue /\ StorageErrorsAreRetryable` |
| MediaStoreImplementsLedger | `Spec => ImplementsLedger` |
| NothingIsOrphaned | `Faults = {} => (Spec => []NoOrphan)` |
| RowsStayStored | `Faults = {} => (Spec => []RowsAreStored)` |
| RequestsDoNotDisturb | `Faults = {} => (Spec => []NoSpuriousErrors)` |

The argument. None of the properties is inductive: that the row removeMedia found is still there when it
deletes the object depends on nobody else being inside a handler, and that an upload's object is not one
the database knows depends on its key being nobody else's. `IInv` adds exactly this: `OneAtATime`
(whoever is in a critical step holds the mutex), `UploadsAreNew` (keys on their way to CreateMedia are distinct and
unknown to the database), and `Equipped` (a request has the key, article or status its step needs).
`TypedNext` and `InvNext` show each action preserves it, in three lemmas, one per handler
(`UploadSafe`, `RemoveSafe`, `DeleteSafe`), each with one step per action. The action properties and the
refinement follow from `IInv` in the same three groups: for each step, the step of MediaLedger it is,
or that it leaves the ledger's variables alone.

The last three speak of a program whose database and object store answer, as MediaStoreClean does; with faults
they are false (findings 1 and 2), so `Faults = {}` is what they are about. `CleanInv` adds to `IInv` that an
upload is being undone only after its refusal, when no row names its object and the answer will be 422: without
that an undo could delete the object of a committed row, which is finding 1.

### ArticleProofs, ArticleCatalogProofs

For any requests, article and source ids, slugs, categories, urls and inputs, from the assumptions that `None` and
`Nobody` are not among the values they stand beside, that inputs are articles and that the initial
categories are categories:

| theorem | states |
|---|---|
| TypeCorrect | `Spec => []TypeOK` |
| Invariance | `Spec => []IInv` |
| CommittedStaysConsistent | `Spec => []CommittedConsistent` |
| SourcesStayOwned | `Spec => []NoOrphanSources` |
| NoTraceOfFailures | `Spec => FailedWritesLeaveNoTrace` |
| CommitsAreAsSent | `Spec => CommittedAsSent` |
| StoreImplementsCatalog | `Spec => ImplementsCatalog` |

`BaseInv` is about the connection: whoever is in a transaction or has rows open is the one that has it
(`ConnInv`), and while nobody has it, or before the first write, the tables are the committed ones (`QuietInv`).
`TxInv` says for each statement what the transaction has made of the committed tables so far: nothing outside
its article (`OnlyOf`), the article's own row under an old id or one never given (`IdGiven`), of the links of
the input exactly those not left to insert (`LinksDone`), and no source row without a link except the one
between its insert and its link (`RowsOwned`). Each statement takes `WrittenBy` for its step to `WrittenBy` for
the next one, so at `commit` nothing is left and the article is the input (`EntryWritten`): this is the
refinement step. The deletion needs that the trigger of file 004 and the cascades take every link of the article
and nothing else (`RowDeleted`). That a rollback restores what was there holds at whichever statement it
happens.

### ReadProofs

For any number of readers, articles, categories, inputs and writes (`MaxWrites` is any natural number), any
positive limit and any strict order of the articles by age:

| theorem | states |
|---|---|
| CatalogStaysConsistent | `CatalogSpec => []CatalogConsistent` |
| TypeCorrect | `Spec => []TypeOK` |
| Invariance | `Spec => []IInv` |
| ListsStayOfOneMoment | `Spec => []ListsAreOfOneMoment` |
| PartsStayTrue | `Spec => []PartsWereTrue` |
| MissesStayExplained | `Spec => MissesAreExplained` |

The invariant relates a request to its `window`. `SeenInv` and `CurrentInv`: each part of what it has read, or is
reading, is what one catalog of the window held. `ListInv`: what a list has read, is reading and has still to read
are together the list of one catalog of the window (part of it, if a query failed), the one its ids were
selected from. That a miss is explained is said of the step that answers, while `ids` still tells what was to
be read. `ControlInv` ties the next query to the kind of request. A
write only adds to the windows, and there they are monotone (`ReadersSee`); this is why they are stated of the window
instead of the present catalog. A page is found by its slug, which is why slugs have to be unique in every
catalog of the window (`Unique`, from `CatalogConsistent`).

### ProcessProofs

For any processes, keys, data, images, limits and numbers of faults, from the assumptions that sentinel values are
not data or calls, that the limits are positive, and that images are pairs of integers whose JPEGs are data:

| theorem | states |
|---|---|
| ImagesAlwaysFit | `Spec => []StoredImagesFit` |
| LocalStorageKeepsItsPromise | `Spec => ImplementsObjectStore` |
| VersionsStayInOrder | `Spec => []VersionsInOrder` |

The arithmetic comes first: `GateBoundsPixels` (dividing the bound is as good as multiplying the sides),
`ScaledFits` and `GateFits` (whatever the gate accepts, `processImage` makes small enough, and it loses a side
only where `Fits` allows), from `Quotient`, the defining property of integer division. `StorageInv` then carries
this from the upload to the file: what is in `file` was made by the gate, `temp` may be partial, but a process
that is about to rename has written its data to the end. That last part is not a matter of one process: two that
put one key would share a `.new` file, so the invariant needs that keys are drawn once (two Puts at a time have
different keys). The refinement goes by system call: the rename and the removal are `TakesEffect`, the ends of a
call are `Ends`, what happens to `temp` is a stutter. `MigrationInv` adds to the property what each process
knows at its step: one that holds the lock has `work` made from `db` by its own file (`AtItsFile`), one that
looks at a file has all before it applied, although it looked before it had the lock; so a file looked up too
early is found to be there when it is run or recorded.

### UpgradeProofs

For any processes and any old database whose links have their article and their source row (`OldDataAssumption`),
with finitely many articles, numbered, and urls, and any number of faults:

| theorem | states |
|---|---|
| UpgradeInvariance | `Spec => []IInv` |
| ProcessTypeCorrect | `Spec => []TypeOK` |
| UpgradesKeepData | `Spec => []UpgradeKeepsData` |

An article's sources are shown in the order of their ids, and file 004 gives every link a source row of its own,
numbered by `ROW_NUMBER() OVER (ORDER BY article_id, source_id)`. `PlacesAreNumbers` is the lemma about both
orders: counting what is not above an element numbers a finite ordered set, each element once and every number
once (by cardinalities, without induction). `RowNumbersAscend` says that the numbering of the links ascends
along the sources of one article, hence the place of a source among its article's is the same before and after
(`SplitCopies`, `SplitKeepsUrls`). `Kept` says what a database owes to the old one, and holds of the committed
one and of what an open transaction has made of it (`DataInv`): so a crash or a commit anywhere loses nothing.
`MigrationInv` of ProcessProofs supplies that a file is run once and in its turn; without it file 004 would
number twice. The invariant includes `CallsInv`, that only processes past their upgrade call the object store.

### AdminProofs

For any configurations, keys, tokens, names, inputs, lifetimes and numbers of articles, from the assumptions that
`None` is not one of the values it stands beside and that configurations and API inputs have their types:

| theorem | states |
|---|---|
| SessionsStayAsLoggedIn | `Spec => []SessionsAsLoggedIn` |
| ChangesAlwaysAuthorised | `Spec => ChangesAreAuthorised` |
| AgentsNeverDoMore | `Spec => AgentsOnlyWrite` |
| FormsStayUsable | `Spec => []FormsCarryTheToken` |

`AccessInv` says that the running configuration passed `Validate` and that a session is the name, expiry and secret of
its log-in, under a name without "|": that name was checked by the configuration of the log-in, not by
the one that now checks the cookie, which is why the invariant has to remember it. It makes parsing the cookie
exact (`AccessInvUse`). `BrowserWrites` shows that the pages change the article only after `Admitted`,
`ApiIsAuthorised` that the API does so only after `RoleAnswer`; what distinguishes a write from a
deletion is that a row is never `None` (`RowInv`, `ApiStoresRows`). `FormInv` adds to `FormsCarryTheToken` that
a form has a token at all, and that while it is not `exposed` no request sent without cookie is under way: none can be
sent, because the cookie is there, and none was when the form was rendered (`bare`). So every answer either sets no
cookie or is one that `Brought` excludes.

### FormProofs

For all inputs, configurations, texts and lists of every length, and any bounds:

| theorem | states |
|---|---|
| FormInvariance | `Spec => [](ArticleInv /\ FormsInv)` |
| FormsAlwaysHit | `Spec => FormsHitTheirArticle` |
| UntouchedPartsStay | `Spec => UntouchedPartsAreKept` |
| RefusalsLoseNothing | `Spec => RefusedFormsComeBack` |
| FormTypeCorrect | `Spec => []TypeOK` |

The conversions come first. `SourcesComeBack`: parsing what `sourcesText` shows gives as many sources, and the
plain ones unchanged; `RelationsComeBack`: parsing what is shown of relations gives them back. Both need that a
loop over lines skips none that is not empty. `Lines` is that loop, a recursive function, so `FullTextStays` is
an induction over the length of a text. The library's induction theorems take a predicate as a parameter, which
the provers cannot instantiate; `UpToN` has a set in its place and is derived from the existence of a least
element (`WFMin`). `ArticleInv` says that an id is the number of its creation, so it is never given twice, and
that a form's id tells which article it was made for. `FormsInv` says what a form shows wherever it was not
touched (`Shows`): the text of the article it was opened for, even after refusals, which keep the fields, and
after blanking, except where `Kept` says so. Saving then parses what is shown.

Assumptions beside those of AdminProofs: `FormAssumption` (`None` is not a form), `BoundsAssumption` (the bounds are
numbers), and `StringAssumption`, that `""` is a string, which holds in TLA+ but is not known to the provers.

### Only model-checked

Liveness is out of the prover's reach: `EveryRequestAnswered` of MediaStore and of ArticleStore,
`DeleteFinishes`, `RemoveFinishes`, `UpgradeFinishes`. The four properties that are violated are TLC's
counterexamples. Everything else the runs check is proved as well; the runs show that the preconditions of the
theorems are met and that the actions the proofs go through happen.

## 6. What is not modelled

- Media rows inside `get`, the order in which a list is shown, the search by title, the navigation bar and the other
  lists of categories: single queries that change nothing.
- What the image checks look at besides the declared size (MIME type, decoding), and the pixels.
- The R2 client: MediaStore assumes of it what `ObjectStore` promises, with failures that took effect; whether the
  remote service keeps it cannot be read from this code.
- JSON and multipart decoding, body limits, bodies that cannot be parsed (such a form comes back with empty
  texts), spaces and line breaks inside fields, routing,
  cookie attributes, security headers, `requireAdminBasic` (nothing calls it).
- `Repository.Delete`, which nothing calls; it is the mutant `QueueAndDeleteArticle_NoQueue`.
- In AdminForm the deletion of an article that is already gone but has objects left in the queue: it answers 303 or 502
  there and changes no article; MediaStore has it.
- Two processes in the middle of media requests: a draining one and its successor have a `mediaMu` each.
  MediaStore has one process; Process has the object store of both, without the tables.
- A host that loses power between a rename and its reaching the disk.
- Reading the environment; health check, error pages, templates, static files, Markdown: no state changes.

## 7. Plan

Done, in this order: MediaLedger and MediaStore with their runs and proofs; Catalog, ArticleReads,
ArticleStore with their runs; AdminAccess and AdminForm, ObjectStore, LocalStorage, Migrations, ImageGate
and Process with their runs and first proofs; lists in ArticleStore's competition for the connection; the proofs about
articles and their reading, about the form, about the upgrade's data and about media without faults.

Left, most important first:

1. `ArticleReads` takes Catalog's steps because ArticleStore implements Catalog; the composition of readers with
   the statements of ArticleStore in one specification would let the theorem say so of both at once.
2. Two processes in MediaStore, one draining: what the second mutex lets through.
3. The safety part of the liveness arguments as theorems: whoever has the mutex or the connection is inside a handler
   (already in `IInv` and `ConnInv`), and each step of that handler lowers a number: steps left, objects left to
   delete, links left to insert.
