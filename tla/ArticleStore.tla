---------------------------- MODULE ArticleStore ----------------------------
(***************************************************************************)
(* Writing articles.  Repository.Create, Update and DeleteAndQueueMedia    *)
(* change several tables, one statement after another, in a transaction on *)
(* the pool's only connection, and answer 409, 422 or 404 from the middle  *)
(* of it; Create and Update then read the article again, outside it.       *)
(* Lists of articles compete for the connection, which a query keeps as    *)
(* long as its rows are open; what they show is left to ArticleReads.      *)
(* Articles keep their slug and status here, for all columns of a row.     *)
(* Media rows and the deletion queue are MediaStore's.                     *)
(***************************************************************************)
CONSTANTS
  Requests,    \* slots for concurrent HTTP requests
  ArticleIds, Slugs, Categories, InitialCategories, Urls, Inputs, None,   \* as in Catalog
  SourceIds,   \* ids of rows of table sources; one that is free may be used again
  Nobody

ASSUME NobodyAssumption == Nobody \notin Requests

VARIABLES
  tables,      \* the tables as the connection sees them
  committed,   \* the tables without what the open transaction has done
  conn,        \* the request that has the connection for its transaction
  pc,          \* next statement of each request
  id,          \* the article it writes
  input,       \* content.ArticleInput, or None for a deletion
  left,        \* the links replaceLinks has still to insert; the articles a list has still to read
  code         \* HTTP status of a slot's last answer

slotVars == <<pc, id, input, left, code>>
vars     == <<tables, committed, conn, slotVars>>

Row      == [slug : Slugs, status : {"published", "draft"}]
Article  == [slug : Slugs, status : {"published", "draft"}, cats : SUBSET Categories,
             urls : SUBSET Urls, related : SUBSET ArticleIds]
NoLinks  == [cats |-> {}, urls |-> {}, related |-> {}]
LinkSets == [cats : SUBSET Categories, urls : SUBSET Urls, related : SUBSET ArticleIds]

ASSUME InputsAssumption == Inputs \subseteq Article
ASSUME NoneAssumption == None \notin Row \cup Article \cup ArticleIds \cup Urls
ASSUME InitialAssumption == InitialCategories \subseteq Categories

Tables ==
  [articles : [ArticleIds -> Row \cup {None}],
   used : SUBSET ArticleIds,                                \* sqlite_sequence
   categories : SUBSET Categories,
   articleCategories : SUBSET (ArticleIds \X Categories),
   sources : [SourceIds -> Urls \cup {None}],
   articleSources : SUBSET (ArticleIds \X SourceIds),
   relations : SUBSET (ArticleIds \X ArticleIds)]

InTx  == {"insert", "update", "clear_categories", "clear_sources", "clear_relations",
          "categories", "sources", "link_source", "relations", "delete", "commit"}
Steps == {"idle", "create", "change", "drop", "reread", "list", "rows", "articles"} \cup InTx

TypeOK ==
  /\ tables \in Tables
  /\ committed \in Tables
  /\ conn \in Requests \cup {Nobody}
  /\ pc \in [Requests -> Steps]
  /\ id \in [Requests -> ArticleIds \cup {None}]
  /\ input \in [Requests -> Inputs \cup {None}]
  /\ left \in [Requests -> LinkSets]
  /\ code \in [Requests -> {0, 200, 201, 204, 404, 409, 422, 500}]

Exists(a) == tables.articles[a] # None
SlugTaken(s, a) == \E b \in ArticleIds \ {a} : Exists(b) /\ tables.articles[b].slug = s
InputRow(in)   == [slug |-> in.slug, status |-> in.status]
InputLinks(in) == [cats |-> in.cats, urls |-> in.urls, related |-> in.related]

Init ==
  /\ tables = [articles |-> [a \in ArticleIds |-> None], used |-> {},
               categories |-> InitialCategories, articleCategories |-> {},
               sources |-> [s \in SourceIds |-> None], articleSources |-> {}, relations |-> {}]
  /\ committed = tables
  /\ conn = Nobody
  /\ pc = [r \in Requests |-> "idle"]
  /\ id = [r \in Requests |-> None]
  /\ input = [r \in Requests |-> None]
  /\ left = [r \in Requests |-> NoLinks]
  /\ code = [r \in Requests |-> 0]

-----------------------------------------------------------------------------
(* Requests and transactions.                                              *)

Accept(r, first, a, in) ==
  /\ pc[r] = "idle"
  /\ pc' = [pc EXCEPT ![r] = first]
  /\ id' = [id EXCEPT ![r] = a]
  /\ input' = [input EXCEPT ![r] = in]
  /\ code' = [code EXCEPT ![r] = 0]
  /\ UNCHANGED <<tables, committed, conn, left>>

AcceptRequest(r) ==
  \/ \E in \in Inputs : Accept(r, "create", None, in)
  \/ \E a \in ArticleIds, in \in Inputs : Accept(r, "change", a, in)
  \/ \E a \in ArticleIds : Accept(r, "drop", a, None)
  \/ Accept(r, "list", None, None)

Answer(r, status) ==
  /\ pc' = [pc EXCEPT ![r] = "idle"]
  /\ id' = [id EXCEPT ![r] = None]
  /\ input' = [input EXCEPT ![r] = None]
  /\ left' = [left EXCEPT ![r] = NoLinks]
  /\ code' = [code EXCEPT ![r] = status]

Goto(r, step) == pc' = [pc EXCEPT ![r] = step] /\ UNCHANGED <<committed, conn, id, input, left, code>>

FirstStatement == [create |-> "insert", change |-> "update", drop |-> "delete", list |-> "rows"]

\* db.BeginTx, and for a list db.QueryContext, wait until the connection is free.
BeginTx(r) ==
  /\ pc[r] \in DOMAIN FirstStatement
  /\ conn = Nobody
  /\ conn' = r
  /\ pc' = [pc EXCEPT ![r] = FirstStatement[pc[r]]]
  /\ UNCHANGED <<tables, committed, id, input, left, code>>

\* Variant: no deferred tx.Rollback(); what has been written is kept.
Rollback_Keeps(r, status) ==
  /\ committed' = tables
  /\ conn' = Nobody
  /\ Answer(r, status)
  /\ UNCHANGED tables

\* An early return: the deferred tx.Rollback() undoes everything.
Rollback(r, status) ==
  /\ tables' = committed
  /\ conn' = Nobody
  /\ Answer(r, status)
  /\ UNCHANGED committed

\* Variant: an early return that leaves the transaction open.
Fails_LeaksTx(r) ==
  /\ pc[r] \in InTx
  /\ Answer(r, 500)
  /\ UNCHANGED <<tables, committed, conn>>

\* A statement, or the commit, fails.
Fails(r) == pc[r] \in InTx /\ Rollback(r, 500)

-----------------------------------------------------------------------------
(* The statements.                                                         *)

\* Variant: the id of the new row (LastInsertId) is not taken.
InsertArticle_NoId(r) ==
  /\ pc[r] = "insert"
  /\ ~SlugTaken(input[r].slug, None)
  /\ \E a \in ArticleIds \ tables.used :
       tables' = [tables EXCEPT !.articles[a] = InputRow(input[r]), !.used = @ \cup {a}]
  /\ left' = [left EXCEPT ![r] = InputLinks(input[r])]
  /\ pc' = [pc EXCEPT ![r] = "categories"]
  /\ UNCHANGED <<committed, conn, id, input, code>>

InsertArticle(r) ==
  /\ pc[r] = "insert"
  /\ \/ SlugTaken(input[r].slug, None) /\ Rollback(r, 409)
     \/ /\ ~SlugTaken(input[r].slug, None)
        /\ \E a \in ArticleIds \ tables.used :
             /\ tables' = [tables EXCEPT !.articles[a] = InputRow(input[r]), !.used = @ \cup {a}]
             /\ id' = [id EXCEPT ![r] = a]
        /\ left' = [left EXCEPT ![r] = InputLinks(input[r])]
        /\ pc' = [pc EXCEPT ![r] = "categories"]
        /\ UNCHANGED <<committed, conn, input, code>>

UpdateArticle(r) ==
  /\ pc[r] = "update"
  /\ \/ ~Exists(id[r]) /\ Rollback(r, 404)
     \/ Exists(id[r]) /\ SlugTaken(input[r].slug, id[r]) /\ Rollback(r, 409)
     \/ /\ Exists(id[r]) /\ ~SlugTaken(input[r].slug, id[r])
        /\ tables' = [tables EXCEPT !.articles[id[r]] = InputRow(input[r])]
        /\ left' = [left EXCEPT ![r] = InputLinks(input[r])]
        /\ pc' = [pc EXCEPT ![r] = "clear_categories"]
        /\ UNCHANGED <<committed, conn, id, input, code>>

OthersIn(a, links) == {l \in links : l[1] # a}

ClearCategories(r) ==
  /\ pc[r] = "clear_categories"
  /\ tables' = [tables EXCEPT !.articleCategories = OthersIn(id[r], @)]
  /\ Goto(r, "clear_sources")

\* Variant: without trigger cleanup_orphan_source.
UnlinkSources_NoTrigger(t, a) == [t EXCEPT !.articleSources = OthersIn(a, @)]

\* Trigger cleanup_orphan_source: a source row goes with its last link.
UnlinkSources(t, a) ==
  LET links == OthersIn(a, t.articleSources)
      dead  == {s \in SourceIds : <<a, s>> \in t.articleSources /\ \A l \in links : l[2] # s}
  IN [t EXCEPT !.articleSources = links,
               !.sources = [s \in SourceIds |-> IF s \in dead THEN None ELSE @[s]]]

ClearSources(r) ==
  /\ pc[r] = "clear_sources"
  /\ tables' = UnlinkSources(tables, id[r])
  /\ Goto(r, "clear_relations")

\* Variant: Update forgets this table.
ClearRelations_Skipped(r) ==
  /\ pc[r] = "clear_relations"
  /\ Goto(r, "categories")
  /\ UNCHANGED tables

ClearRelations(r) ==
  /\ pc[r] = "clear_relations"
  /\ tables' = [tables EXCEPT !.relations = OthersIn(id[r], @)]
  /\ Goto(r, "categories")

\* Variant: a category that does not exist is passed over.
InsertCategories_SkipsUnknown(r) ==
  /\ pc[r] = "categories"
  /\ \/ /\ left[r].cats = {} /\ Goto(r, "sources") /\ UNCHANGED tables
     \/ \E c \in left[r].cats :
          /\ tables' = [tables EXCEPT !.articleCategories =
                          IF c \in tables.categories THEN @ \cup {<<id[r], c>>} ELSE @]
          /\ left' = [left EXCEPT ![r].cats = @ \ {c}]
          /\ UNCHANGED <<committed, conn, pc, id, input, code>>

\* replaceLinks: categories, then sources, then relations.
InsertCategories(r) ==
  /\ pc[r] = "categories"
  /\ \/ /\ left[r].cats = {} /\ Goto(r, "sources") /\ UNCHANGED tables
     \/ \E c \in left[r].cats :
          \/ c \notin tables.categories /\ Rollback(r, 422)
          \/ /\ c \in tables.categories
             /\ tables' = [tables EXCEPT !.articleCategories = @ \cup {<<id[r], c>>}]
             /\ left' = [left EXCEPT ![r].cats = @ \ {c}]
             /\ UNCHANGED <<committed, conn, pc, id, input, code>>

FreeSource == {s \in SourceIds : tables.sources[s] = None}

InsertSources(r) ==
  /\ pc[r] = "sources"
  /\ \/ left[r].urls = {} /\ Goto(r, "relations") /\ UNCHANGED tables
     \/ \E u \in left[r].urls, s \in FreeSource :
          /\ tables' = [tables EXCEPT !.sources[s] = u]
          /\ left' = [left EXCEPT ![r].urls = @ \ {u}]
          /\ pc' = [pc EXCEPT ![r] = "link_source"]
          /\ UNCHANGED <<committed, conn, id, input, code>>

\* The id comes from LastInsertId: it is the row without a link.
LinkSource(r) ==
  /\ pc[r] = "link_source"
  /\ \E s \in SourceIds \ FreeSource :
       /\ \A l \in tables.articleSources : l[2] # s
       /\ tables' = [tables EXCEPT !.articleSources = @ \cup {<<id[r], s>>}]
  /\ Goto(r, "sources")

InsertRelations(r) ==
  /\ pc[r] = "relations"
  /\ \/ left[r].related = {} /\ Goto(r, "commit") /\ UNCHANGED tables
     \/ \E b \in left[r].related :
          \/ (b = id[r] \/ ~Exists(b)) /\ Rollback(r, 422)
          \/ /\ b # id[r] /\ Exists(b)
             /\ tables' = [tables EXCEPT !.relations = @ \cup {<<id[r], b>>}]
             /\ left' = [left EXCEPT ![r].related = @ \ {b}]
             /\ UNCHANGED <<committed, conn, pc, id, input, code>>

\* Variant: relations to the deleted article stay.
DeleteRow_KeepsRelations(t, a) ==
  [UnlinkSources(t, a) EXCEPT !.articles[a] = None,
                              !.articleCategories = OthersIn(a, @),
                              !.relations = OthersIn(a, @)]

\* ON DELETE CASCADE, in either column of article_relations.
DeleteRow(t, a) ==
  [UnlinkSources(t, a) EXCEPT !.articles[a] = None,
                              !.articleCategories = OthersIn(a, @),
                              !.relations = {l \in @ : l[1] # a /\ l[2] # a}]

\* DeleteAndQueueMedia: the article may be gone already, and then its queue decides
\* (MediaStore) between 404 and going on.
DeleteArticle(r) ==
  /\ pc[r] = "delete"
  /\ \/ Exists(id[r]) /\ tables' = DeleteRow(tables, id[r]) /\ Goto(r, "commit")
     \/ ~Exists(id[r]) /\ Rollback(r, 404)
     \/ ~Exists(id[r]) /\ Goto(r, "commit") /\ UNCHANGED tables

\* A deletion goes on with object storage.
Commit(r) ==
  /\ pc[r] = "commit"
  /\ conn' = Nobody
  /\ \/ input[r] = None /\ Answer(r, 204)
     \/ input[r] # None /\ pc' = [pc EXCEPT ![r] = "reread"] /\ UNCHANGED <<id, input, left, code>>
  /\ committed' = tables
  /\ UNCHANGED tables

\* GetByID after the commit: another request may have deleted the article.
Reread(r) ==
  /\ pc[r] = "reread"
  /\ conn = Nobody
  /\ \/ Exists(id[r]) /\ \E status \in {200, 201} : Answer(r, status)
     \/ ~Exists(id[r]) /\ Answer(r, 404)
     \/ Answer(r, 500)
  /\ UNCHANGED <<tables, committed, conn>>

\* Variant: the loop ends with its rows open, and defer closes them too late.
ReadRows_Open(r) ==
  /\ pc[r] = "rows"
  /\ pc' = [pc EXCEPT ![r] = "articles"]
  /\ left' = [left EXCEPT ![r].related = {a \in ArticleIds : Exists(a)}]
  /\ UNCHANGED <<tables, committed, conn, id, input, code>>

\* List and ListPublished: rows.Next closes the rows at their end, which gives the
\* connection back; after an error the deferred rows.Close() does.
ReadRows(r) ==
  /\ pc[r] = "rows"
  /\ conn' = Nobody
  /\ \/ /\ pc' = [pc EXCEPT ![r] = "articles"]
        /\ left' = [left EXCEPT ![r].related = {a \in ArticleIds : Exists(a)}]
        /\ UNCHANGED <<id, input, code>>
     \/ Answer(r, 500)
  /\ UNCHANGED <<tables, committed>>

\* GetByID of one article after the other, each when the connection is free.
ReadArticle(r) ==
  /\ pc[r] = "articles"
  /\ conn = Nobody
  /\ \/ \E a \in left[r].related :
          \/ Exists(a) /\ left' = [left EXCEPT ![r].related = @ \ {a}] /\ UNCHANGED <<pc, id, input, code>>
          \/ ~Exists(a) /\ \E status \in {404, 500} : Answer(r, status)
     \/ left[r].related = {} /\ Answer(r, 200)
     \/ Answer(r, 500)
  /\ UNCHANGED <<tables, committed, conn>>

\* One INSERT, no transaction.
CreateCategory(c) ==
  /\ conn = Nobody
  /\ c \notin tables.categories
  /\ tables' = [tables EXCEPT !.categories = @ \cup {c}]
  /\ committed' = tables'
  /\ UNCHANGED <<conn, slotVars>>

\* The process dies; SQLite rolls the open transaction back.
Crash ==
  /\ tables' = committed
  /\ conn' = Nobody
  /\ pc' = [r \in Requests |-> "idle"]
  /\ id' = [r \in Requests |-> None]
  /\ input' = [r \in Requests |-> None]
  /\ left' = [r \in Requests |-> NoLinks]
  /\ code' = [r \in Requests |-> 0]
  /\ UNCHANGED committed

Statement(r) ==
  \/ InsertArticle(r) \/ UpdateArticle(r) \/ ClearCategories(r) \/ ClearSources(r)
  \/ ClearRelations(r) \/ InsertCategories(r) \/ InsertSources(r) \/ LinkSource(r)
  \/ InsertRelations(r) \/ DeleteArticle(r) \/ Commit(r) \/ Fails(r) \/ ReadRows(r)

\* What needs the connection to be free.
GetsConnection(r) == BeginTx(r) \/ Reread(r) \/ ReadArticle(r)

Next ==
  \/ \E r \in Requests : AcceptRequest(r) \/ Statement(r) \/ GetsConnection(r)
  \/ \E c \in Categories : CreateCategory(c)
  \/ Crash

Spec == Init /\ [][Next]_vars

\* database/sql hands the connection to waiting requests in the order they asked for
\* it, and a statement returns.
Fairness == \A r \in Requests : SF_vars(GetsConnection(r)) /\ WF_vars(Statement(r))

FairSpec == Spec /\ Fairness

-----------------------------------------------------------------------------
LinkedIn(links, a) == {l[2] : l \in {m \in links : m[1] = a}}

\* The articles in tables t, each with its links.
CatalogOf(t) ==
  [a \in ArticleIds |->
     IF t.articles[a] = None THEN None
     ELSE [slug |-> t.articles[a].slug,
           status |-> t.articles[a].status,
           cats |-> LinkedIn(t.articleCategories, a),
           urls |-> {t.sources[s] : s \in LinkedIn(t.articleSources, a)},
           related |-> LinkedIn(t.relations, a)]]

\* What every other reader of the database sees.
CommittedCatalog == CatalogOf(committed)

C == INSTANCE Catalog WITH catalog <- CommittedCatalog,
                           used <- committed.used,
                           categories <- committed.categories

\* Every write of an article, statement by statement, with its early returns, failures
\* and crashes, is one step of Catalog or none.
ImplementsCatalog == C!CatalogSpec

\* Slugs stay unique and links lead to existing rows.
CommittedConsistent == C!CatalogConsistent

\* In the committed tables every source row belongs to exactly one article, and every
\* link to a source row: updates, deletions and roll-backs leave no orphan sources
\* (TestAdminPreservesSourceMetadata counts them).
NoOrphanSources ==
  \A s \in SourceIds :
    LET owners == {a \in ArticleIds : <<a, s>> \in committed.articleSources}
    IN IF committed.sources[s] = None THEN owners = {} ELSE \E a \in ArticleIds : owners = {a}

\* A write that is answered with an error from inside its transaction leaves no trace.
FailedWritesLeaveNoTrace ==
  [][\A r \in Requests :
       pc[r] \in InTx /\ pc'[r] = "idle" /\ code'[r] # 204 => committed' = committed]_vars

\* What is committed is the input itself: "Categories, sources and relations are
\* replaced with the supplied arrays" (docs/hermes.md:105).
CommittedAsSent ==
  [][\A r \in Requests : pc'[r] = "reread" /\ pc[r] # "reread" =>
       \E a \in ArticleIds : a = id[r] /\ CommittedCatalog'[a] = input[r]]_vars

\* Every request gets the connection and is answered: no early return keeps the
\* transaction, and with it the only connection, open, and no list waits for the
\* connection its own rows keep.
EveryRequestAnswered == \A r \in Requests : pc[r] # "idle" ~> pc[r] = "idle"
=============================================================================
