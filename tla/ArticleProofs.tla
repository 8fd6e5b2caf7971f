---------------------------- MODULE ArticleProofs ----------------------------
(***************************************************************************)
(* Proofs about ArticleStore, for any number of requests, articles,        *)
(* categories and source rows: what a transaction has written at each of   *)
(* its statements, and that the whole implements Catalog.                  *)
(***************************************************************************)
EXTENDS ArticleStore, TLAPS

-----------------------------------------------------------------------------
(* The inductive invariant.                                                *)

Clears    == {"clear_categories", "clear_sources", "clear_relations"}
LinkSteps == Clears \cup {"categories", "sources", "link_source", "relations"}

\* The request that holds the connection is the one inside a transaction or a query.
ConnInv == \A r \in Requests : conn = r <=> pc[r] \in InTx \cup {"rows"}

\* What each step of request r relies on.
Equipped(r) ==
  /\ pc[r] \in {"create", "insert", "change", "update", "reread"} \cup LinkSteps =>
       input[r] \in Inputs
  /\ pc[r] \in {"change", "drop", "update", "delete", "commit", "reread"} \cup LinkSteps =>
       id[r] \in ArticleIds
  /\ pc[r] \in {"drop", "delete"} => input[r] = None

\* Without an open transaction, or before its first write, there is nothing to undo.
QuietInv ==
  /\ conn = Nobody => tables = committed
  /\ \A r \in Requests : pc[r] \in {"insert", "update", "delete", "rows"} => tables = committed

BaseInv == TypeOK /\ ConnInv /\ (\A r \in Requests : Equipped(r)) /\ QuietInv

Present(t) == {a \in ArticleIds : t.articles[a] # None}

\* The constraints of the schema: unique slugs, foreign keys, one link to a source row.
Sound(t) ==
  /\ \A a \in Present(t) : a \in t.used
  /\ \A a, b \in Present(t) : t.articles[a].slug = t.articles[b].slug => a = b
  /\ \A a \in ArticleIds, c \in Categories :
       <<a, c>> \in t.articleCategories => a \in Present(t) /\ c \in t.categories
  /\ \A a \in ArticleIds, s \in SourceIds :
       <<a, s>> \in t.articleSources => a \in Present(t) /\ t.sources[s] # None
  /\ \A a, b \in ArticleIds, s \in SourceIds :
       <<a, s>> \in t.articleSources /\ <<b, s>> \in t.articleSources => a = b
  /\ \A a, b \in ArticleIds :
       <<a, b>> \in t.relations => a \in Present(t) /\ b \in Present(t) /\ a # b

\* Source rows that no article has.
Unowned(t) ==
  {s \in SourceIds : t.sources[s] # None /\ \A a \in ArticleIds : <<a, s>> \notin t.articleSources}

\* From tables c to tables t nothing has changed but what belongs to article a.
OnlyOf(a, c, t) ==
  /\ t.categories = c.categories
  /\ \A b \in ArticleIds \ {a} :
       /\ t.articles[b] = c.articles[b]
       /\ \A x \in Categories : <<b, x>> \in t.articleCategories <=> <<b, x>> \in c.articleCategories
       /\ \A x \in ArticleIds : <<b, x>> \in t.relations <=> <<b, x>> \in c.relations
       /\ \A s \in SourceIds :
            /\ <<b, s>> \in t.articleSources <=> <<b, s>> \in c.articleSources
            /\ <<b, s>> \in t.articleSources => t.sources[s] = c.sources[s]

\* The id is the article's own: an existing one, or one that has never been given.
IdGiven(a, c, t) ==
  \/ a \in Present(c) /\ t.used = c.used
  \/ a \in ArticleIds \ c.used /\ t.used = c.used \cup {a}

\* Article a has the row of input in.
RowWritten(a, c, t, in) ==
  /\ t.articles[a] = InputRow(in)
  /\ IdGiven(a, c, t)
  /\ OnlyOf(a, c, t)

\* Of the links of input in, article a has those that are not left to insert.
CatsDone(a, t, in, l) ==
  l.cats \subseteq in.cats
    /\ \A c \in Categories : <<a, c>> \in t.articleCategories <=> c \in in.cats \ l.cats
UrlsDone(a, t, in, l) ==
  l.urls \subseteq in.urls
    /\ \A u \in Urls : u \in in.urls \ l.urls <=>
         \E s \in SourceIds : t.sources[s] = u /\ (<<a, s>> \in t.articleSources \/ s \in Unowned(t))
RelatedDone(a, t, in, l) ==
  l.related \subseteq in.related
    /\ \A b \in ArticleIds : <<a, b>> \in t.relations <=> b \in in.related \ l.related

LinksDone(a, t, in, l, step) ==
  /\ step \in Clears => l = InputLinks(in)
  /\ step # "clear_categories" => CatsDone(a, t, in, l)
  /\ step \notin {"clear_categories", "clear_sources"} => UrlsDone(a, t, in, l)
  /\ step \notin Clears => RelatedDone(a, t, in, l)
  /\ step \in {"sources", "link_source", "relations", "commit"} => l.cats = {}
  /\ step \in {"relations", "commit"} => l.urls = {}
  /\ step = "commit" => l.related = {}

\* Between the two statements for a source its row has no link.
RowsOwned(t, step) ==
  IF step = "link_source" THEN \E s \in SourceIds : Unowned(t) = {s} ELSE Unowned(t) = {}

\* Tables t, when the transaction that began with tables c is about to do step.
WrittenBy(a, c, t, in, l, step) ==
  /\ Sound(t)
  /\ RowsOwned(t, step)
  /\ RowWritten(a, c, t, in)
  /\ LinksDone(a, t, in, l, step)

Writing(r) == pc[r] \in LinkSteps \/ (pc[r] = "commit" /\ input[r] # None)
Deleting(r) == pc[r] = "commit" /\ input[r] = None

Written(r) == WrittenBy(id[r], committed, tables, input[r], left[r], pc[r])

Deleted(r) ==
  \/ tables = committed
  \/ id[r] \in Present(committed) /\ tables = DeleteRow(committed, id[r])

TxInv ==
  /\ Sound(committed) /\ Unowned(committed) = {}
  /\ \A r \in Requests : (Writing(r) => Written(r)) /\ (Deleting(r) => Deleted(r))

IInv == BaseInv /\ TxInv

-----------------------------------------------------------------------------
(* What the updates of a record of tables do to its fields.                *)

\* A row and the used ids, set in the tables.
LEMMA SetArticle ==
  ASSUME NEW t \in Tables, NEW a \in ArticleIds, NEW x \in Row \cup {None}, NEW u \in SUBSET ArticleIds,
         NEW n, n = [t EXCEPT !.articles[a] = x, !.used = u]
  PROVE  /\ n \in Tables
         /\ n.articles = [t.articles EXCEPT ![a] = x]
         /\ n.used = u
         /\ n.categories = t.categories
         /\ n.articleCategories = t.articleCategories
         /\ n.sources = t.sources
         /\ n.articleSources = t.articleSources
         /\ n.relations = t.relations
BY DEF Tables

\* A row alone.
LEMMA SetArticleOnly ==
  ASSUME NEW t \in Tables, NEW a \in ArticleIds, NEW x \in Row \cup {None}, 
         NEW n, n = [t EXCEPT !.articles[a] = x]
  PROVE  /\ n \in Tables
         /\ n.articles = [t.articles EXCEPT ![a] = x]
         /\ n.used = t.used
         /\ n.categories = t.categories
         /\ n.articleCategories = t.articleCategories
         /\ n.sources = t.sources
         /\ n.articleSources = t.articleSources
         /\ n.relations = t.relations
BY DEF Tables

\* The category links.
LEMMA SetArticleCategories ==
  ASSUME NEW t \in Tables, NEW x \in SUBSET (ArticleIds \X Categories),
         NEW n, n = [t EXCEPT !.articleCategories = x]
  PROVE  /\ n \in Tables
         /\ n.articles = t.articles
         /\ n.used = t.used
         /\ n.categories = t.categories
         /\ n.articleCategories = x
         /\ n.sources = t.sources
         /\ n.articleSources = t.articleSources
         /\ n.relations = t.relations
BY DEF Tables

\* The trigger of file 004 takes the links and rows of an article's sources.
LEMMA UnlinkFields ==
  ASSUME NEW t \in Tables, NEW a \in ArticleIds,
         NEW n, n = UnlinkSources(t, a)
  PROVE  /\ n \in Tables
         /\ n.articles = t.articles
         /\ n.used = t.used
         /\ n.categories = t.categories
         /\ n.articleCategories = t.articleCategories
         /\ n.articleSources = OthersIn(a, t.articleSources)
         /\ n.relations = t.relations
         /\ \A s \in SourceIds : 
               n.sources[s] = IF <<a, s>> \in t.articleSources /\ \A l \in OthersIn(a, t.articleSources) : l[2] # s 
                            THEN None ELSE t.sources[s]
<1> DEFINE links == OthersIn(a, t.articleSources)
           dead  == {s \in SourceIds : <<a, s>> \in t.articleSources /\ \A l \in links : l[2] # s}
           src == [s \in SourceIds |-> IF s \in dead THEN None ELSE t.sources[s]]
<1>1. n = [t EXCEPT !.articleSources = links, !.sources = src]
  BY DEF UnlinkSources
<1>2. links \in SUBSET (ArticleIds \X SourceIds)
  BY DEF Tables, OthersIn
<1>3. src \in [SourceIds -> Urls \cup {None}]
  BY DEF Tables
<1>4. \A s \in SourceIds : src[s] = IF s \in dead THEN None ELSE t.sources[s]
  OBVIOUS
<1> HIDE DEF src, links
<1>5. n.sources = src
  BY <1>1 DEF Tables
<1>6. /\ n \in Tables
         /\ n.articles = t.articles
         /\ n.used = t.used
         /\ n.categories = t.categories
         /\ n.articleCategories = t.articleCategories
         /\ n.articleSources = links
         /\ n.relations = t.relations
  BY <1>1, <1>2, <1>3 DEF Tables
<1> QED
  BY <1>4, <1>5, <1>6 DEF links

\* Deleting a row with its cascades.
LEMMA DeleteFields ==
  ASSUME NEW t \in Tables, NEW a \in ArticleIds, NEW n, n = DeleteRow(t, a)
  PROVE  /\ n \in Tables
         /\ n.articles = [t.articles EXCEPT ![a] = None]
         /\ n.used = t.used
         /\ n.categories = t.categories
         /\ n.articleCategories = OthersIn(a, t.articleCategories)
         /\ n.sources = UnlinkSources(t, a).sources
         /\ n.articleSources = OthersIn(a, t.articleSources)
         /\ n.relations = {l \in t.relations : l[1] # a /\ l[2] # a}
<1> DEFINE m == UnlinkSources(t, a)
           cats == OthersIn(a, m.articleCategories)
           rels == {l \in m.relations : l[1] # a /\ l[2] # a}
<1>1. n = [m EXCEPT !.articles[a] = None, !.articleCategories = cats, !.relations = rels]
  BY DEF DeleteRow
<1>2. /\ m \in Tables
      /\ m.articles = t.articles
      /\ m.used = t.used
      /\ m.categories = t.categories
      /\ m.articleCategories = t.articleCategories
      /\ m.articleSources = OthersIn(a, t.articleSources)
      /\ m.relations = t.relations
  BY UnlinkFields
<1>3. cats \in SUBSET (ArticleIds \X Categories)
  BY <1>2 DEF OthersIn, Tables
<1>4. rels \in SUBSET (ArticleIds \X ArticleIds)
  BY <1>2 DEF Tables
<1>5. /\ cats = OthersIn(a, t.articleCategories)
      /\ rels = {l \in t.relations : l[1] # a /\ l[2] # a}
  BY <1>2
<1> HIDE DEF m, cats, rels
<1>6. n = [m EXCEPT !.articles = [m.articles EXCEPT ![a] = None], !.articleCategories = cats,
                    !.relations = rels]
  BY <1>1
<1>7. PICK f \in [ArticleIds -> Row \cup {None}] : f = [m.articles EXCEPT ![a] = None]
  BY <1>2 DEF Tables
<1>8. n = [m EXCEPT !.articles = f, !.articleCategories = cats, !.relations = rels]
  BY <1>6, <1>7
<1>9. m \in Tables
  BY <1>2
<1>10. /\ n \in Tables
       /\ n.articles = f
       /\ n.used = m.used
       /\ n.categories = m.categories
       /\ n.articleCategories = cats
       /\ n.sources = m.sources
       /\ n.articleSources = m.articleSources
       /\ n.relations = rels
  BY <1>8, <1>9, <1>3, <1>4 DEF Tables
<1> QED
  BY <1>2, <1>5, <1>7, <1>10 DEF m

-----------------------------------------------------------------------------
(* The requests and what they hold: BaseInv.                               *)

\* The basic invariant holds at the start.
LEMMA BaseInit == Init => BaseInv
<1> SUFFICES ASSUME Init PROVE BaseInv
  OBVIOUS
<1>1. TypeOK
  BY InitialAssumption DEF Init, TypeOK, Tables, NoLinks, LinkSets, Steps
<1> QED
  BY <1>1, NobodyAssumption DEF Init, BaseInv, ConnInv, Equipped, QuietInv, InTx, LinkSteps, Clears

\* An input is a row and its links.
LEMMA InputParts ==
  ASSUME NEW in \in Inputs
  PROVE  InputRow(in) \in Row /\ InputLinks(in) \in LinkSets /\ in # None
BY InputsAssumption, NoneAssumption DEF InputRow, InputLinks, Row, LinkSets, Article

\* An answer leaves the connection to the others, or gives it back.
LEMMA AnswerBase ==
  ASSUME BaseInv, NEW r \in Requests, NEW status \in {0, 200, 201, 204, 404, 409, 422, 500},
         Answer(r, status),
         \/ conn' = conn /\ conn # r /\ UNCHANGED <<tables, committed>>
         \/ conn' = Nobody /\ conn = r /\ tables' = committed' /\ committed' \in {tables, committed}
  PROVE  BaseInv'
<1>1. TypeOK'
  BY DEF Answer, BaseInv, TypeOK, NoLinks, LinkSets, Steps
<1>2. pc'[r] = "idle" /\ \A q \in Requests \ {r} : pc'[q] = pc[q] /\ id'[q] = id[q] /\ input'[q] = input[q]
  BY DEF Answer, BaseInv, TypeOK
<1>3. ConnInv'
  BY <1>2, NobodyAssumption DEF BaseInv, ConnInv, InTx
<1>4. \A q \in Requests : Equipped(q)'
  BY <1>2 DEF BaseInv, Equipped, LinkSteps, Clears
<1>5. QuietInv'
  BY <1>2, <1>3, NobodyAssumption DEF BaseInv, QuietInv, ConnInv, InTx
<1> QED
  BY <1>1, <1>3, <1>4, <1>5 DEF BaseInv

\* A rollback brings the committed tables back.
LEMMA RollbackBase ==
  ASSUME BaseInv, NEW r \in Requests, pc[r] \in InTx, NEW status \in {404, 409, 422, 500}, Rollback(r, status)
  PROVE  BaseInv'
<1>1. conn = r
  BY DEF BaseInv, ConnInv
<1> QED
  BY <1>1, AnswerBase DEF Rollback

\* A statement that goes on: the connection stays with the request.
LEMMA StatementBase ==
  ASSUME BaseInv, NEW r \in Requests, pc[r] \in InTx, NEW step \in LinkSteps \cup {"commit"},
         tables' \in Tables, UNCHANGED <<committed, conn, input, code>>,
         left' \in [Requests -> LinkSets],
         NEW a \in ArticleIds, id' = [id EXCEPT ![r] = a],
         pc' = [pc EXCEPT ![r] = step],
         step \in LinkSteps => input[r] \in Inputs
  PROVE  BaseInv'
<1>1. TypeOK'
  BY DEF BaseInv, TypeOK, LinkSteps, Clears, Steps, InTx
<1>2. \A q \in Requests : pc'[q] = IF q = r THEN step ELSE pc[q]
  BY DEF BaseInv, TypeOK
<1>3. \A q \in Requests : id'[q] = IF q = r THEN a ELSE id[q]
  BY DEF BaseInv, TypeOK
<1>4. ConnInv'
  BY <1>2 DEF BaseInv, ConnInv, InTx, LinkSteps, Clears
<1>5. \A q \in Requests : Equipped(q)'
  BY <1>2, <1>3 DEF BaseInv, Equipped, LinkSteps, Clears, InTx
<1>6. QuietInv'
  BY <1>2, <1>4, NobodyAssumption DEF BaseInv, QuietInv, ConnInv, LinkSteps, Clears, InTx
<1> QED
  BY <1>1, <1>4, <1>5, <1>6 DEF BaseInv

LEMMA AcceptBase ==
  ASSUME BaseInv, NEW r \in Requests, AcceptRequest(r)
  PROVE  BaseInv'
<1>1. PICK first \in {"create", "change", "drop", "list"}, a \in ArticleIds \cup {None},
           in \in Inputs \cup {None} :
        /\ Accept(r, first, a, in)
        /\ first \in {"create", "change"} => in \in Inputs
        /\ first \in {"change", "drop"} => a \in ArticleIds
        /\ first = "drop" => in = None
  BY DEF AcceptRequest
<1>2. TypeOK'
  BY <1>1 DEF Accept, BaseInv, TypeOK, Steps
<1>3. /\ pc[r] = "idle" /\ pc'[r] = first /\ id'[r] = a /\ input'[r] = in
      /\ \A q \in Requests \ {r} : pc'[q] = pc[q] /\ id'[q] = id[q] /\ input'[q] = input[q]
      /\ UNCHANGED <<tables, committed, conn>>
  BY <1>1 DEF Accept, BaseInv, TypeOK
<1>4. ConnInv'
  BY <1>3 DEF BaseInv, ConnInv, InTx
<1>5. \A q \in Requests : Equipped(q)'
  BY <1>1, <1>3 DEF BaseInv, Equipped, LinkSteps, Clears
<1>6. QuietInv'
  BY <1>3 DEF BaseInv, QuietInv
<1> QED
  BY <1>2, <1>4, <1>5, <1>6 DEF BaseInv

\* The first statements of the requests.
LEMMA FirstStatements ==
  ASSUME NEW step \in DOMAIN FirstStatement
  PROVE  FirstStatement[step] \in {"insert", "update", "delete", "rows"}
BY DEF FirstStatement

LEMMA BeginTxBase ==
  ASSUME BaseInv, NEW r \in Requests, BeginTx(r)
  PROVE  BaseInv'
<1>1. PICK first \in {"insert", "update", "delete", "rows"} :
        /\ pc' = [pc EXCEPT ![r] = first]
        /\ \/ pc[r] = "create" /\ first = "insert"
           \/ pc[r] = "change" /\ first = "update"
           \/ pc[r] = "drop" /\ first = "delete"
           \/ pc[r] = "list" /\ first = "rows"
  <2>1. pc[r] \in {"create", "change", "drop", "list"}
    BY DEF BeginTx, FirstStatement
  <2>2. /\ FirstStatement["create"] = "insert" /\ FirstStatement["change"] = "update"
        /\ FirstStatement["drop"] = "delete" /\ FirstStatement["list"] = "rows"
    BY DEF FirstStatement
  <2>3. pc' = [pc EXCEPT ![r] = FirstStatement[pc[r]]]
    BY DEF BeginTx
  <2> QED
    BY <2>1, <2>2, <2>3
<1>2. TypeOK'
  BY <1>1 DEF BeginTx, BaseInv, TypeOK, Steps, InTx
<1>3. /\ pc'[r] = first /\ conn = Nobody /\ conn' = r
      /\ \A q \in Requests \ {r} : pc'[q] = pc[q]
      /\ UNCHANGED <<tables, committed, id, input>>
  BY <1>1 DEF BeginTx, BaseInv, TypeOK
<1>4. ConnInv'
  BY <1>3, NobodyAssumption DEF BaseInv, ConnInv, InTx
<1>5. \A q \in Requests : Equipped(q)'
  BY <1>1, <1>3 DEF BaseInv, Equipped, LinkSteps, Clears
<1>6. QuietInv'
  BY <1>3, NobodyAssumption DEF BaseInv, QuietInv
<1> QED
  BY <1>2, <1>4, <1>5, <1>6 DEF BaseInv

LEMMA InsertArticleBase ==
  ASSUME BaseInv, NEW r \in Requests, InsertArticle(r)
  PROVE  BaseInv'
<1>1. pc[r] = "insert" /\ pc[r] \in InTx /\ tables \in Tables /\ input[r] \in Inputs
  BY DEF InsertArticle, InTx, BaseInv, TypeOK, Equipped
<1>2. CASE Rollback(r, 409)
  BY <1>1, <1>2, RollbackBase
<1>3. ASSUME NEW a \in ArticleIds \ tables.used,
             tables' = [tables EXCEPT !.articles[a] = InputRow(input[r]), !.used = @ \cup {a}],
             id' = [id EXCEPT ![r] = a],
             left' = [left EXCEPT ![r] = InputLinks(input[r])],
             pc' = [pc EXCEPT ![r] = "categories"],
             UNCHANGED <<committed, conn, input, code>>
      PROVE  BaseInv'
  <2>1. tables' \in Tables
    <3> DEFINE u == tables.used \cup {a}
    <3>1. u \in SUBSET ArticleIds
      BY <1>1 DEF Tables
    <3> QED
      BY <1>1, <1>3, <3>1, SetArticle, InputParts
  <2>2. left' \in [Requests -> LinkSets]
    BY <1>1, <1>3, InputParts DEF BaseInv, TypeOK
  <2> QED
    BY <1>1, <1>3, <2>1, <2>2, StatementBase DEF LinkSteps
<1> QED
  BY <1>2, <1>3 DEF InsertArticle

\* Requests that have their article keep it.
LEMMA SameId ==
  ASSUME BaseInv, NEW r \in Requests
  PROVE  id = [id EXCEPT ![r] = id[r]]
BY DEF BaseInv, TypeOK

LEMMA UpdateArticleBase ==
  ASSUME BaseInv, NEW r \in Requests, UpdateArticle(r)
  PROVE  BaseInv'
<1>1. /\ pc[r] = "update" /\ pc[r] \in InTx /\ tables \in Tables
      /\ input[r] \in Inputs /\ id[r] \in ArticleIds
  BY DEF UpdateArticle, InTx, BaseInv, TypeOK, Equipped
<1>2. CASE Rollback(r, 404)
  BY <1>1, <1>2, RollbackBase
<1>3. CASE Rollback(r, 409)
  BY <1>1, <1>3, RollbackBase
<1>4. CASE /\ tables' = [tables EXCEPT !.articles[id[r]] = InputRow(input[r])]
           /\ left' = [left EXCEPT ![r] = InputLinks(input[r])]
           /\ pc' = [pc EXCEPT ![r] = "clear_categories"]
           /\ UNCHANGED <<committed, conn, id, input, code>>
  <2>1. tables' \in Tables
    BY <1>1, <1>4, SetArticleOnly, InputParts
  <2>2. left' \in [Requests -> LinkSets]
    BY <1>1, <1>4, InputParts DEF BaseInv, TypeOK
  <2> QED
    BY <1>1, <1>4, <2>1, <2>2, SameId, StatementBase DEF LinkSteps, Clears
<1> QED
  BY <1>2, <1>3, <1>4 DEF UpdateArticle

\* A statement inside a transaction that ends at another.
LEMMA GotoBase ==
  ASSUME BaseInv, NEW r \in Requests, pc[r] \in InTx, NEW step \in LinkSteps \cup {"commit"},
         Goto(r, step), tables' \in Tables, id[r] \in ArticleIds,
         step \in LinkSteps => input[r] \in Inputs
  PROVE  BaseInv'
<1>1. left' \in [Requests -> LinkSets]
  BY DEF Goto, BaseInv, TypeOK
<1> QED
  BY <1>1, SameId, StatementBase DEF Goto

\* The steps that change links: what they find and what they may do next.
LEMMA LinkStepFacts ==
  ASSUME BaseInv, NEW r \in Requests, pc[r] \in LinkSteps
  PROVE  /\ pc[r] \in InTx /\ conn = r
         /\ input[r] \in Inputs /\ id[r] \in ArticleIds /\ left[r] \in LinkSets
         /\ tables \in Tables /\ committed \in Tables
BY DEF BaseInv, TypeOK, Equipped, ConnInv, LinkSteps, Clears, InTx

LEMMA ClearBase ==
  ASSUME BaseInv, NEW r \in Requests, ClearCategories(r) \/ ClearSources(r) \/ ClearRelations(r)
  PROVE  BaseInv'
<1>1. pc[r] \in LinkSteps
  BY DEF ClearCategories, ClearSources, ClearRelations, LinkSteps, Clears
<1>2. CASE ClearCategories(r)
  <2>1. OthersIn(id[r], tables.articleCategories) \in SUBSET (ArticleIds \X Categories)
    BY <1>1, LinkStepFacts DEF OthersIn, Tables
  <2>2. tables' \in Tables
    BY <1>1, <1>2, <2>1, LinkStepFacts, SetArticleCategories DEF ClearCategories
  <2> QED
    BY <1>1, <1>2, <2>2, LinkStepFacts, GotoBase DEF ClearCategories, LinkSteps, Clears
<1>3. CASE ClearSources(r)
  BY <1>1, <1>3, LinkStepFacts, UnlinkFields, GotoBase DEF ClearSources, LinkSteps, Clears
<1>4. CASE ClearRelations(r)
  <2>1. OthersIn(id[r], tables.relations) \in SUBSET (ArticleIds \X ArticleIds)
    BY <1>1, LinkStepFacts DEF OthersIn, Tables
  <2>2. tables' \in Tables
    BY <1>1, <1>4, <2>1, LinkStepFacts DEF ClearRelations, Tables
  <2> QED
    BY <1>1, <1>4, <2>2, LinkStepFacts, GotoBase DEF ClearRelations, LinkSteps, Clears
<1> QED
  BY <1>2, <1>3, <1>4

\* A statement of replaceLinks that inserts a link and stays where it is.
LEMMA InsertsBase ==
  ASSUME BaseInv, NEW r \in Requests, pc[r] \in LinkSteps, tables' \in Tables,
         left' \in [Requests -> LinkSets], UNCHANGED <<committed, conn, pc, id, input, code>>
  PROVE  BaseInv'
<1>1. pc' = [pc EXCEPT ![r] = pc[r]]
  BY DEF BaseInv, TypeOK
<1> QED
  BY <1>1, LinkStepFacts, SameId, StatementBase

LEMMA InsertCategoriesBase ==
  ASSUME BaseInv, NEW r \in Requests, InsertCategories(r)
  PROVE  BaseInv'
<1>1. pc[r] \in LinkSteps
  BY DEF InsertCategories, LinkSteps
<1>2. CASE Goto(r, "sources") /\ UNCHANGED tables
  BY <1>1, <1>2, LinkStepFacts, GotoBase DEF LinkSteps
<1>3. CASE Rollback(r, 422)
  BY <1>1, <1>3, LinkStepFacts, RollbackBase
<1>4. ASSUME NEW c \in left[r].cats,
             tables' = [tables EXCEPT !.articleCategories = @ \cup {<<id[r], c>>}],
             left' = [left EXCEPT ![r].cats = @ \ {c}],
             UNCHANGED <<committed, conn, pc, id, input, code>>
      PROVE  BaseInv'
  <2>1. tables.articleCategories \cup {<<id[r], c>>} \in SUBSET (ArticleIds \X Categories)
    BY <1>1, LinkStepFacts DEF Tables, LinkSets
  <2>2. tables' \in Tables
    BY <1>1, <1>4, <2>1, LinkStepFacts, SetArticleCategories
  <2>3. left' \in [Requests -> LinkSets]
    BY <1>4 DEF BaseInv, TypeOK, LinkSets
  <2> QED
    BY <1>1, <1>4, <2>2, <2>3, InsertsBase
<1> QED
  BY <1>2, <1>3, <1>4 DEF InsertCategories

LEMMA InsertSourcesBase ==
  ASSUME BaseInv, NEW r \in Requests, InsertSources(r)
  PROVE  BaseInv'
<1>1. pc[r] \in LinkSteps
  BY DEF InsertSources, LinkSteps
<1>2. CASE Goto(r, "relations") /\ UNCHANGED tables
  BY <1>1, <1>2, LinkStepFacts, GotoBase DEF LinkSteps
<1>3. ASSUME NEW u \in left[r].urls, NEW s \in FreeSource,
             tables' = [tables EXCEPT !.sources[s] = u],
             left' = [left EXCEPT ![r].urls = @ \ {u}],
             pc' = [pc EXCEPT ![r] = "link_source"],
             UNCHANGED <<committed, conn, id, input, code>>
      PROVE  BaseInv'
  <2>1. tables' \in Tables
    BY <1>1, <1>3, LinkStepFacts DEF Tables, LinkSets, FreeSource
  <2>2. left' \in [Requests -> LinkSets]
    <3>1. left' = [left EXCEPT ![r] = [left[r] EXCEPT !.urls = @ \ {u}]]
      BY <1>3
    <3>2. [left[r] EXCEPT !.urls = @ \ {u}] \in LinkSets
      BY <1>1, LinkStepFacts DEF LinkSets
    <3> QED
      BY <3>1, <3>2 DEF BaseInv, TypeOK
  <2> QED
    BY <1>1, <1>3, <2>1, <2>2, LinkStepFacts, SameId, StatementBase DEF LinkSteps
<1> QED
  BY <1>2, <1>3 DEF InsertSources

LEMMA LinkSourceBase ==
  ASSUME BaseInv, NEW r \in Requests, LinkSource(r)
  PROVE  BaseInv'
<1>1. pc[r] \in LinkSteps
  BY DEF LinkSource, LinkSteps
<1>2. PICK s \in SourceIds : tables' = [tables EXCEPT !.articleSources = @ \cup {<<id[r], s>>}]
  BY DEF LinkSource
<1>3. tables' \in Tables
  BY <1>1, <1>2, LinkStepFacts DEF Tables
<1> QED
  BY <1>1, <1>3, LinkStepFacts, GotoBase DEF LinkSource, LinkSteps

LEMMA InsertRelationsBase ==
  ASSUME BaseInv, NEW r \in Requests, InsertRelations(r)
  PROVE  BaseInv'
<1>1. pc[r] \in LinkSteps
  BY DEF InsertRelations, LinkSteps
<1>2. CASE Goto(r, "commit") /\ UNCHANGED tables
  BY <1>1, <1>2, LinkStepFacts, GotoBase DEF LinkSteps
<1>3. CASE Rollback(r, 422)
  BY <1>1, <1>3, LinkStepFacts, RollbackBase
<1>4. ASSUME NEW b \in left[r].related,
             tables' = [tables EXCEPT !.relations = @ \cup {<<id[r], b>>}],
             left' = [left EXCEPT ![r].related = @ \ {b}],
             UNCHANGED <<committed, conn, pc, id, input, code>>
      PROVE  BaseInv'
  <2>1. tables' \in Tables
    BY <1>1, <1>4, LinkStepFacts DEF Tables, LinkSets
  <2>2. left' \in [Requests -> LinkSets]
    <3>1. left' = [left EXCEPT ![r] = [left[r] EXCEPT !.related = @ \ {b}]]
      BY <1>4
    <3>2. [left[r] EXCEPT !.related = @ \ {b}] \in LinkSets
      BY <1>1, LinkStepFacts DEF LinkSets
    <3> QED
      BY <3>1, <3>2 DEF BaseInv, TypeOK
  <2> QED
    BY <1>1, <1>4, <2>1, <2>2, InsertsBase
<1> QED
  BY <1>2, <1>3, <1>4 DEF InsertRelations

LEMMA DeleteArticleBase ==
  ASSUME BaseInv, NEW r \in Requests, DeleteArticle(r)
  PROVE  BaseInv'
<1>1. pc[r] = "delete" /\ pc[r] \in InTx /\ id[r] \in ArticleIds /\ tables \in Tables
  BY DEF DeleteArticle, BaseInv, TypeOK, Equipped, InTx
<1>2. CASE tables' = DeleteRow(tables, id[r]) /\ Goto(r, "commit")
  BY <1>1, <1>2, DeleteFields, GotoBase DEF LinkSteps, Clears
<1>3. CASE Rollback(r, 404)
  BY <1>1, <1>3, RollbackBase
<1>4. CASE Goto(r, "commit") /\ UNCHANGED tables
  BY <1>1, <1>4, GotoBase DEF LinkSteps, Clears
<1> QED
  BY <1>2, <1>3, <1>4 DEF DeleteArticle

LEMMA CommitBase ==
  ASSUME BaseInv, NEW r \in Requests, Commit(r)
  PROVE  BaseInv'
<1>1. pc[r] = "commit" /\ conn = r /\ id[r] \in ArticleIds
  BY DEF Commit, BaseInv, ConnInv, Equipped, InTx
<1>2. CASE Answer(r, 204)
  BY <1>1, <1>2, AnswerBase DEF Commit
<1>3. CASE input[r] # None /\ pc' = [pc EXCEPT ![r] = "reread"] /\ UNCHANGED <<id, input, left, code>>
  <2>1. TypeOK'
    BY <1>3 DEF Commit, BaseInv, TypeOK, Steps
  <2>2. pc'[r] = "reread" /\ \A q \in Requests \ {r} : pc'[q] = pc[q]
    BY <1>3 DEF BaseInv, TypeOK
  <2>3. ConnInv'
    BY <1>1, <2>2, NobodyAssumption DEF Commit, BaseInv, ConnInv, InTx
  <2>4. input[r] \in Inputs
    BY <1>3 DEF BaseInv, TypeOK
  <2>5. \A q \in Requests : Equipped(q)'
    BY <1>1, <1>3, <2>2, <2>4 DEF BaseInv, Equipped, LinkSteps, Clears
  <2>6. QuietInv'
    BY <1>1, <2>2, <2>3, NobodyAssumption DEF Commit, BaseInv, QuietInv, ConnInv, InTx
  <2> QED
    BY <2>1, <2>3, <2>5, <2>6 DEF BaseInv
<1> QED
  BY <1>2, <1>3 DEF Commit

LEMMA FailsBase ==
  ASSUME BaseInv, NEW r \in Requests, Fails(r)
  PROVE  BaseInv'
BY RollbackBase DEF Fails

LEMMA ReadsBase ==
  ASSUME BaseInv, NEW r \in Requests, ReadRows(r) \/ Reread(r) \/ ReadArticle(r)
  PROVE  BaseInv'
<1>1. CASE ReadRows(r)
  <2>1. pc[r] = "rows" /\ conn = r /\ tables = committed /\ tables' = tables /\ committed' = committed
    BY <1>1 DEF ReadRows, BaseInv, ConnInv, QuietInv
  <2>2. CASE Answer(r, 500)
    BY <1>1, <2>1, <2>2, AnswerBase DEF ReadRows
  <2>3. CASE /\ pc' = [pc EXCEPT ![r] = "articles"]
             /\ left' = [left EXCEPT ![r].related = {a \in ArticleIds : Exists(a)}]
             /\ UNCHANGED <<id, input, code>>
    <3>1. left' \in [Requests -> LinkSets]
      BY <2>3 DEF BaseInv, TypeOK, LinkSets
    <3>2. TypeOK'
      BY <1>1, <2>3, <3>1 DEF ReadRows, BaseInv, TypeOK, Steps
    <3>3. pc'[r] = "articles" /\ \A q \in Requests \ {r} : pc'[q] = pc[q]
      BY <2>3 DEF BaseInv, TypeOK
    <3>4. ConnInv'
      BY <1>1, <2>1, <3>3, NobodyAssumption DEF ReadRows, BaseInv, ConnInv, InTx
    <3>5. \A q \in Requests : Equipped(q)'
      BY <2>3, <3>3 DEF BaseInv, Equipped, LinkSteps, Clears
    <3>6. QuietInv'
      BY <2>1, <3>3 DEF BaseInv, QuietInv
    <3> QED
      BY <3>2, <3>4, <3>5, <3>6 DEF BaseInv
  <2> QED
    BY <1>1, <2>2, <2>3 DEF ReadRows
<1>2. CASE Reread(r)
  BY <1>2, NobodyAssumption, AnswerBase DEF Reread
<1>3. CASE ReadArticle(r)
  <2>1. conn # r /\ UNCHANGED <<tables, committed, conn>>
    BY <1>3, NobodyAssumption DEF ReadArticle
  <2>2. ASSUME NEW status \in {200, 404, 500}, Answer(r, status)
        PROVE  BaseInv'
    BY <2>1, <2>2, AnswerBase
  <2>3. ASSUME NEW a \in ArticleIds, left' = [left EXCEPT ![r].related = @ \ {a}],
               UNCHANGED <<pc, id, input, code>>
        PROVE  BaseInv'
    <3>1. left' \in [Requests -> LinkSets]
      BY <2>3 DEF BaseInv, TypeOK, LinkSets
    <3> QED
      BY <2>1, <2>3, <3>1 DEF BaseInv, TypeOK, ConnInv, Equipped, QuietInv
  <2>4. left[r].related \subseteq ArticleIds
    BY DEF BaseInv, TypeOK, LinkSets
  <2> QED
    BY <1>3, <2>2, <2>3, <2>4 DEF ReadArticle
<1> QED
  BY <1>1, <1>2, <1>3

LEMMA CreateCategoryBase ==
  ASSUME BaseInv, NEW c \in Categories, CreateCategory(c)
  PROVE  BaseInv'
<1>1. conn = Nobody /\ tables' = committed' /\ UNCHANGED <<conn, pc, id, input, left, code>>
  BY DEF CreateCategory, slotVars
<1>2. tables' \in Tables
  BY DEF CreateCategory, BaseInv, TypeOK, Tables
<1> QED
  BY <1>1, <1>2 DEF BaseInv, TypeOK, ConnInv, Equipped, QuietInv

LEMMA CrashBase ==
  ASSUME BaseInv, Crash
  PROVE  BaseInv'
<1>1. TypeOK'
  BY DEF Crash, BaseInv, TypeOK, NoLinks, LinkSets, Steps
<1> QED
  BY <1>1, NobodyAssumption
  DEF Crash, BaseInv, ConnInv, Equipped, QuietInv, InTx, LinkSteps, Clears

\* Every step keeps the basic invariant.
LEMMA BaseStep ==
  ASSUME BaseInv, [Next]_vars
  PROVE  BaseInv'
<1>1. ASSUME NEW r \in Requests, Statement(r)
      PROVE  BaseInv'
  BY <1>1, InsertArticleBase, UpdateArticleBase, ClearBase, InsertCategoriesBase,
     InsertSourcesBase, LinkSourceBase, InsertRelationsBase, DeleteArticleBase, CommitBase,
     FailsBase, ReadsBase
  DEF Statement
<1>2. ASSUME NEW r \in Requests, GetsConnection(r)
      PROVE  BaseInv'
  BY <1>2, BeginTxBase, ReadsBase DEF GetsConnection
<1>3. CASE UNCHANGED vars
  BY <1>3 DEF vars, slotVars, BaseInv, TypeOK, ConnInv, Equipped, QuietInv
<1> QED
  BY <1>1, <1>2, <1>3, AcceptBase, CreateCategoryBase, CrashBase DEF Next

\* Every value stays in its set.
THEOREM TypeCorrect == Spec => []TypeOK
<1>1. BaseInv => TypeOK
  BY DEF BaseInv
<1> QED
  BY <1>1, BaseInit, BaseStep, PTL DEF Spec

-----------------------------------------------------------------------------
(* What the statements do to sound tables.                                 *)

\* As a source row has one link, unlinking an article deletes all of its source rows.
LEMMA UnlinkRows ==
  ASSUME NEW t \in Tables, Sound(t), NEW a \in ArticleIds, NEW n, n = UnlinkSources(t, a),
         NEW s \in SourceIds
  PROVE  n.sources[s] = IF <<a, s>> \in t.articleSources THEN None ELSE t.sources[s]
<1> DEFINE links == OthersIn(a, t.articleSources)
<1>1. n.sources[s] = IF <<a, s>> \in t.articleSources /\ \A l \in links : l[2] # s
                     THEN None ELSE t.sources[s]
  BY UnlinkFields
<1>2. ASSUME <<a, s>> \in t.articleSources, NEW l \in links, l[2] = s
      PROVE  FALSE
  <2>1. PICK b \in ArticleIds : l = <<b, s>> /\ b # a
    BY <1>2 DEF OthersIn, Tables
  <2>2. <<b, s>> \in t.articleSources
    BY <1>2, <2>1 DEF OthersIn
  <2> QED
    BY <1>2, <2>1, <2>2 DEF Sound
<1> QED
  BY <1>1, <1>2

\* A row under a new id has no links yet: there is nothing to clear.
LEMMA InsertedRow ==
  ASSUME NEW t \in Tables, Sound(t), Unowned(t) = {}, NEW in \in Inputs,
         NEW a \in ArticleIds \ t.used,
         \A b \in Present(t) : t.articles[b].slug # in.slug,
         NEW n,
         n.articles = [t.articles EXCEPT ![a] = InputRow(in)],
         n.used = t.used \cup {a},
         n.categories = t.categories,
         n.articleCategories = t.articleCategories,
         n.sources = t.sources,
         n.articleSources = t.articleSources,
         n.relations = t.relations
  PROVE  /\ Sound(n) /\ Unowned(n) = {}
         /\ RowWritten(a, t, n, in)
         /\ CatsDone(a, n, in, InputLinks(in))
         /\ UrlsDone(a, n, in, InputLinks(in))
         /\ RelatedDone(a, n, in, InputLinks(in))
<1>2. /\ n.articles[a] = InputRow(in) /\ InputRow(in) # None /\ InputRow(in).slug = in.slug
      /\ \A b \in ArticleIds \ {a} : n.articles[b] = t.articles[b]
      /\ a \notin Present(t)
  BY InputParts, NoneAssumption DEF Tables, InputRow, Sound
<1>3. Present(n) = Present(t) \cup {a}
  BY <1>2 DEF Present
<1>4. Sound(n)
  <2>1. \A b \in Present(n) : b \in n.used
    BY <1>3 DEF Sound
  <2>2. \A b, c \in Present(n) : n.articles[b].slug = n.articles[c].slug => b = c
    BY <1>2, <1>3 DEF Sound, Present
  <2>3. /\ \A b \in ArticleIds, c \in Categories :
             <<b, c>> \in n.articleCategories => b \in Present(n) /\ c \in n.categories
        /\ \A b \in ArticleIds, s \in SourceIds :
             <<b, s>> \in n.articleSources => b \in Present(n) /\ n.sources[s] # None
        /\ \A b, c \in ArticleIds, s \in SourceIds :
             <<b, s>> \in n.articleSources /\ <<c, s>> \in n.articleSources => b = c
        /\ \A b, c \in ArticleIds :
             <<b, c>> \in n.relations => b \in Present(n) /\ c \in Present(n) /\ b # c
    BY <1>3 DEF Sound
  <2> QED
    BY <2>1, <2>2, <2>3 DEF Sound
<1>5. Unowned(n) = {}
  BY DEF Unowned
<1>6. RowWritten(a, t, n, in)
  BY <1>2 DEF RowWritten, IdGiven, OnlyOf
<1>7. /\ \A c \in Categories : <<a, c>> \notin n.articleCategories
      /\ \A s \in SourceIds : <<a, s>> \notin n.articleSources
      /\ \A b \in ArticleIds : <<a, b>> \notin n.relations
  BY <1>2 DEF Sound
<1>8. /\ InputLinks(in).cats = in.cats /\ InputLinks(in).urls = in.urls
      /\ InputLinks(in).related = in.related
  BY DEF InputLinks
<1> QED
  BY <1>4, <1>5, <1>6, <1>7, <1>8 DEF CatsDone, UrlsDone, RelatedDone

\* An existing row is written; its links are still those from before.
LEMMA UpdatedRow ==
  ASSUME NEW t \in Tables, Sound(t), Unowned(t) = {}, NEW in \in Inputs,
         NEW a \in Present(t),
         \A b \in Present(t) \ {a} : t.articles[b].slug # in.slug,
         NEW n,
         n.articles = [t.articles EXCEPT ![a] = InputRow(in)],
         n.used = t.used,
         n.categories = t.categories,
         n.articleCategories = t.articleCategories,
         n.sources = t.sources,
         n.articleSources = t.articleSources,
         n.relations = t.relations
  PROVE  Sound(n) /\ Unowned(n) = {} /\ RowWritten(a, t, n, in)
<1>2. /\ n.articles[a] = InputRow(in) /\ InputRow(in) # None /\ InputRow(in).slug = in.slug
      /\ \A b \in ArticleIds \ {a} : n.articles[b] = t.articles[b]
  BY InputParts, NoneAssumption DEF Tables, InputRow, Present
<1>3. Present(n) = Present(t)
  BY <1>2 DEF Present
<1>4. Sound(n)
  <2>1. \A b, c \in Present(n) : n.articles[b].slug = n.articles[c].slug => b = c
    BY <1>2, <1>3 DEF Sound, Present
  <2> QED
    BY <1>3, <2>1 DEF Sound
<1>5. Unowned(n) = {}
  BY DEF Unowned
<1> QED
  BY <1>2, <1>4, <1>5 DEF RowWritten, IdGiven, OnlyOf

\* Who owns which source depends on two tables only.
LEMMA SameSources ==
  ASSUME NEW t, NEW n, n.sources = t.sources, n.articleSources = t.articleSources,
         NEW a, NEW in, NEW l
  PROVE  Unowned(n) = Unowned(t) /\ (UrlsDone(a, n, in, l) <=> UrlsDone(a, t, in, l))
<1>1. Unowned(n) = Unowned(t)
  BY DEF Unowned
<1> QED
  BY <1>1 DEF UrlsDone

\* An article whose row is written is present.
LEMMA RowPresent ==
  ASSUME NEW a \in ArticleIds, NEW c, NEW t, NEW in \in Inputs, RowWritten(a, c, t, in)
  PROVE  a \in Present(t)
BY InputParts, NoneAssumption DEF RowWritten, Present

\* The category links are cleared.
LEMMA CategoriesCleared ==
  ASSUME NEW t \in Tables, NEW c \in Tables, NEW a \in ArticleIds, NEW in \in Inputs, NEW l,
         WrittenBy(a, c, t, in, l, "clear_categories"),
         NEW n,
         n.articles = t.articles,
         n.used = t.used,
         n.categories = t.categories,
         n.articleCategories = OthersIn(a, t.articleCategories),
         n.sources = t.sources,
         n.articleSources = t.articleSources,
         n.relations = t.relations
  PROVE  WrittenBy(a, c, n, in, l, "clear_sources")
<1>1. Sound(t) /\ Unowned(t) = {} /\ RowWritten(a, c, t, in) /\ l = InputLinks(in)
  BY DEF WrittenBy, RowsOwned, LinksDone, Clears
<1>2. \A b \in ArticleIds, x \in Categories :
        <<b, x>> \in n.articleCategories <=> <<b, x>> \in t.articleCategories /\ b # a
  BY DEF OthersIn
<1>3. Present(n) = Present(t)
  BY DEF Present
<1>4. Sound(n)
  BY <1>1, <1>2, <1>3 DEF Sound
<1>5. Unowned(n) = {}
  BY <1>1, SameSources
<1>6. RowWritten(a, c, n, in)
  BY <1>1, <1>2 DEF RowWritten, IdGiven, OnlyOf
<1>7. CatsDone(a, n, in, l)
  BY <1>1, <1>2 DEF CatsDone, InputLinks
<1> QED
  BY <1>1, <1>4, <1>5, <1>6, <1>7 DEF WrittenBy, RowsOwned, LinksDone, Clears

\* The sources are cleared, and with them their rows.
LEMMA SourcesCleared ==
  ASSUME NEW t \in Tables, NEW c \in Tables, NEW a \in ArticleIds, NEW in \in Inputs, NEW l,
         WrittenBy(a, c, t, in, l, "clear_sources"),
         NEW n, n = UnlinkSources(t, a)
  PROVE  WrittenBy(a, c, n, in, l, "clear_relations")
<1>1. /\ Sound(t) /\ Unowned(t) = {} /\ RowWritten(a, c, t, in) /\ l = InputLinks(in)
      /\ CatsDone(a, t, in, l)
  BY DEF WrittenBy, RowsOwned, LinksDone, Clears
<1>2. /\ n \in Tables
      /\ n.articles = t.articles
      /\ n.used = t.used
      /\ n.categories = t.categories
      /\ n.articleCategories = t.articleCategories
      /\ n.articleSources = OthersIn(a, t.articleSources)
      /\ n.relations = t.relations
  BY UnlinkFields
<1>3. \A s \in SourceIds : n.sources[s] = IF <<a, s>> \in t.articleSources THEN None ELSE t.sources[s]
  BY <1>1, UnlinkRows
<1>4. \A b \in ArticleIds, s \in SourceIds :
        <<b, s>> \in n.articleSources <=> <<b, s>> \in t.articleSources /\ b # a
  BY <1>2 DEF OthersIn
<1>5. Present(n) = Present(t)
  BY <1>2 DEF Present
<1>6. Sound(n)
  <2>1. \A b \in ArticleIds, s \in SourceIds :
          <<b, s>> \in n.articleSources => b \in Present(n) /\ n.sources[s] # None
    BY <1>1, <1>3, <1>4, <1>5 DEF Sound
  <2>2. \A b, d \in ArticleIds, s \in SourceIds :
          <<b, s>> \in n.articleSources /\ <<d, s>> \in n.articleSources => b = d
    BY <1>1, <1>4 DEF Sound
  <2> QED
    BY <1>1, <1>2, <1>5, <2>1, <2>2 DEF Sound
<1>7. Unowned(n) = {}
  BY <1>1, <1>3, <1>4 DEF Unowned
<1>8. RowWritten(a, c, n, in)
  <2>1. \A b \in ArticleIds \ {a}, s \in SourceIds :
          <<b, s>> \in n.articleSources => n.sources[s] = t.sources[s]
    BY <1>1, <1>3, <1>4 DEF Sound
  <2> QED
    BY <1>1, <1>2, <1>4, <2>1 DEF RowWritten, IdGiven, OnlyOf
<1>9. CatsDone(a, n, in, l)
  BY <1>1, <1>2 DEF CatsDone
<1>10. UrlsDone(a, n, in, l)
  <2>1. l.urls = in.urls
    BY <1>1 DEF InputLinks
  <2> QED
    BY <1>4, <1>7, <2>1 DEF UrlsDone
<1> QED
  BY <1>1, <1>6, <1>7, <1>8, <1>9, <1>10 DEF WrittenBy, RowsOwned, LinksDone, Clears

\* The relations are cleared.
LEMMA RelationsCleared ==
  ASSUME NEW t \in Tables, NEW c \in Tables, NEW a \in ArticleIds, NEW in \in Inputs, NEW l,
         WrittenBy(a, c, t, in, l, "clear_relations"),
         NEW n,
         n.articles = t.articles,
         n.used = t.used,
         n.categories = t.categories,
         n.articleCategories = t.articleCategories,
         n.sources = t.sources,
         n.articleSources = t.articleSources,
         n.relations = OthersIn(a, t.relations)
  PROVE  WrittenBy(a, c, n, in, l, "categories")
<1>1. /\ Sound(t) /\ Unowned(t) = {} /\ RowWritten(a, c, t, in) /\ l = InputLinks(in)
      /\ CatsDone(a, t, in, l) /\ UrlsDone(a, t, in, l)
  BY DEF WrittenBy, RowsOwned, LinksDone, Clears
<1>2. \A b, x \in ArticleIds :
        <<b, x>> \in n.relations <=> <<b, x>> \in t.relations /\ b # a
  BY DEF OthersIn
<1>3. Present(n) = Present(t)
  BY DEF Present
<1>4. Sound(n)
  BY <1>1, <1>2, <1>3 DEF Sound
<1>5. Unowned(n) = {} /\ UrlsDone(a, n, in, l)
  BY <1>1, SameSources
<1>6. RowWritten(a, c, n, in)
  BY <1>1, <1>2 DEF RowWritten, IdGiven, OnlyOf
<1>7. CatsDone(a, n, in, l)
  BY <1>1 DEF CatsDone
<1>8. RelatedDone(a, n, in, l)
  BY <1>1, <1>2 DEF RelatedDone, InputLinks
<1> QED
  BY <1>1, <1>4, <1>5, <1>6, <1>7, <1>8 DEF WrittenBy, RowsOwned, LinksDone, Clears

\* One category is linked.
LEMMA CategoryLinked ==
  ASSUME NEW t \in Tables, NEW c \in Tables, NEW a \in ArticleIds, NEW in \in Inputs,
         NEW l \in LinkSets,
         WrittenBy(a, c, t, in, l, "categories"),
         NEW x \in l.cats, x \in t.categories,
         NEW k, k.cats = l.cats \ {x}, k.urls = l.urls, k.related = l.related,
         NEW n,
         n.articles = t.articles,
         n.used = t.used,
         n.categories = t.categories,
         n.articleCategories = t.articleCategories \cup {<<a, x>>},
         n.sources = t.sources,
         n.articleSources = t.articleSources,
         n.relations = t.relations
  PROVE  WrittenBy(a, c, n, in, k, "categories")
<1>1. /\ Sound(t) /\ Unowned(t) = {} /\ RowWritten(a, c, t, in)
      /\ CatsDone(a, t, in, l) /\ UrlsDone(a, t, in, l) /\ RelatedDone(a, t, in, l)
  BY DEF WrittenBy, RowsOwned, LinksDone, Clears
<1>2. \A b \in ArticleIds, y \in Categories :
        <<b, y>> \in n.articleCategories <=> <<b, y>> \in t.articleCategories \/ (b = a /\ y = x)
  OBVIOUS
<1>3. Present(n) = Present(t) /\ a \in Present(t)
  BY <1>1, RowPresent DEF Present
<1>4. Sound(n)
  BY <1>1, <1>2, <1>3 DEF Sound
<1>5. Unowned(n) = {} /\ UrlsDone(a, n, in, l)
  BY <1>1, SameSources
<1>6. RowWritten(a, c, n, in)
  BY <1>1, <1>2 DEF RowWritten, IdGiven, OnlyOf
<1>7. CatsDone(a, n, in, k)
  BY <1>1, <1>2 DEF CatsDone
<1>8. UrlsDone(a, n, in, k) /\ RelatedDone(a, n, in, k)
  BY <1>1, <1>5 DEF UrlsDone, RelatedDone
<1> QED
  BY <1>4, <1>5, <1>6, <1>7, <1>8 DEF WrittenBy, RowsOwned, LinksDone, Clears

\* One source row is inserted, and nobody's yet.
LEMMA SourceInserted ==
  ASSUME NEW t \in Tables, NEW c \in Tables, NEW a \in ArticleIds, NEW in \in Inputs,
         NEW l \in LinkSets,
         WrittenBy(a, c, t, in, l, "sources"),
         NEW u \in l.urls, NEW s \in SourceIds, t.sources[s] = None,
         NEW k, k.cats = l.cats, k.urls = l.urls \ {u}, k.related = l.related,
         NEW n,
         n.articles = t.articles,
         n.used = t.used,
         n.categories = t.categories,
         n.articleCategories = t.articleCategories,
         n.sources[s] = u, \A x \in SourceIds \ {s} : n.sources[x] = t.sources[x],
         n.articleSources = t.articleSources,
         n.relations = t.relations
  PROVE  WrittenBy(a, c, n, in, k, "link_source")
<1>1. /\ Sound(t) /\ Unowned(t) = {} /\ RowWritten(a, c, t, in)
      /\ CatsDone(a, t, in, l) /\ UrlsDone(a, t, in, l) /\ RelatedDone(a, t, in, l)
      /\ l.cats = {}
  BY DEF WrittenBy, RowsOwned, LinksDone, Clears
<1>2. u \in Urls /\ u # None
  BY NoneAssumption DEF LinkSets
<1>3. Present(n) = Present(t)
  BY DEF Present
<1>4. \A b \in ArticleIds : <<b, s>> \notin t.articleSources
  BY <1>1 DEF Sound
<1>5. Sound(n)
  <2>1. \A b \in ArticleIds, x \in SourceIds :
          <<b, x>> \in n.articleSources => b \in Present(n) /\ n.sources[x] # None
    BY <1>1, <1>2, <1>3, <1>4 DEF Sound
  <2> QED
    BY <1>1, <1>3, <2>1 DEF Sound
<1>6. Unowned(n) = {s}
  BY <1>1, <1>2, <1>4 DEF Unowned
<1>7. RowWritten(a, c, n, in)
  <2>1. \A b \in ArticleIds, x \in SourceIds :
          <<b, x>> \in n.articleSources => n.sources[x] = t.sources[x]
    BY <1>2, <1>4
  <2> QED
    BY <1>1, <2>1 DEF RowWritten, IdGiven, OnlyOf
<1>8. UrlsDone(a, n, in, k)
  <2> DEFINE Had(v) == \E x \in SourceIds : t.sources[x] = v /\ <<a, x>> \in t.articleSources
             Has(v) == \E x \in SourceIds :
                         n.sources[x] = v /\ (<<a, x>> \in n.articleSources \/ x \in Unowned(n))
  <2>1. l.urls \subseteq in.urls /\ \A v \in Urls : v \in in.urls \ l.urls <=> Had(v)
    BY <1>1 DEF UrlsDone
  <2>2. \A v \in Urls : Has(v) <=> v = u \/ Had(v)
    BY <1>2, <1>4, <1>6
  <2> HIDE DEF Had, Has
  <2>3. k.urls \subseteq in.urls /\ \A v \in Urls : v \in in.urls \ k.urls <=> Has(v)
    BY <2>1, <2>2
  <2> QED
    BY <2>3 DEF UrlsDone, Has
<1>9. CatsDone(a, n, in, k) /\ RelatedDone(a, n, in, k)
  BY <1>1 DEF CatsDone, RelatedDone
<1> QED
  BY <1>1, <1>5, <1>6, <1>7, <1>8, <1>9 DEF WrittenBy, RowsOwned, LinksDone, Clears

\* It is linked to the article.
LEMMA SourceLinked ==
  ASSUME NEW t \in Tables, NEW c \in Tables, NEW a \in ArticleIds, NEW in \in Inputs,
         NEW l \in LinkSets,
         WrittenBy(a, c, t, in, l, "link_source"),
         NEW s \in SourceIds, t.sources[s] # None, \A m \in t.articleSources : m[2] # s,
         NEW n,
         n.articles = t.articles,
         n.used = t.used,
         n.categories = t.categories,
         n.articleCategories = t.articleCategories,
         n.sources = t.sources,
         n.articleSources = t.articleSources \cup {<<a, s>>},
         n.relations = t.relations
  PROVE  WrittenBy(a, c, n, in, l, "sources")
<1>1. /\ Sound(t) /\ RowWritten(a, c, t, in)
      /\ CatsDone(a, t, in, l) /\ UrlsDone(a, t, in, l) /\ RelatedDone(a, t, in, l)
      /\ l.cats = {}
  BY DEF WrittenBy, LinksDone, Clears
<1>2. \A b \in ArticleIds : <<b, s>> \notin t.articleSources
  OBVIOUS
<1>3. Unowned(t) = {s}
  BY <1>2 DEF WrittenBy, RowsOwned, Unowned
<1>4. \A b \in ArticleIds, x \in SourceIds :
        <<b, x>> \in n.articleSources <=> <<b, x>> \in t.articleSources \/ (b = a /\ x = s)
  OBVIOUS
<1>5. Present(n) = Present(t) /\ a \in Present(t)
  BY <1>1, RowPresent DEF Present
<1>6. Sound(n)
  <2>1. \A b \in ArticleIds, x \in SourceIds :
          <<b, x>> \in n.articleSources => b \in Present(n) /\ n.sources[x] # None
    BY <1>1, <1>4, <1>5 DEF Sound
  <2>2. \A b, d \in ArticleIds, x \in SourceIds :
          <<b, x>> \in n.articleSources /\ <<d, x>> \in n.articleSources => b = d
    BY <1>1, <1>2, <1>4 DEF Sound
  <2> QED
    BY <1>1, <1>5, <2>1, <2>2 DEF Sound
<1>7. Unowned(n) = {}
  BY <1>3, <1>4 DEF Unowned
<1>8. RowWritten(a, c, n, in)
  BY <1>1, <1>4 DEF RowWritten, IdGiven, OnlyOf
<1>9. UrlsDone(a, n, in, l)
  BY <1>1, <1>3, <1>4, <1>7 DEF UrlsDone
<1>10. CatsDone(a, n, in, l) /\ RelatedDone(a, n, in, l)
  BY <1>1 DEF CatsDone, RelatedDone
<1> QED
  BY <1>1, <1>6, <1>7, <1>8, <1>9, <1>10 DEF WrittenBy, RowsOwned, LinksDone, Clears

\* One relation is linked.
LEMMA RelationLinked ==
  ASSUME NEW t \in Tables, NEW c \in Tables, NEW a \in ArticleIds, NEW in \in Inputs,
         NEW l \in LinkSets,
         WrittenBy(a, c, t, in, l, "relations"),
         NEW x \in l.related, x # a, x \in Present(t),
         NEW k, k.cats = l.cats, k.urls = l.urls, k.related = l.related \ {x},
         NEW n,
         n.articles = t.articles,
         n.used = t.used,
         n.categories = t.categories,
         n.articleCategories = t.articleCategories,
         n.sources = t.sources,
         n.articleSources = t.articleSources,
         n.relations = t.relations \cup {<<a, x>>}
  PROVE  WrittenBy(a, c, n, in, k, "relations")
<1>1. /\ Sound(t) /\ Unowned(t) = {} /\ RowWritten(a, c, t, in)
      /\ CatsDone(a, t, in, l) /\ UrlsDone(a, t, in, l) /\ RelatedDone(a, t, in, l)
      /\ l.cats = {} /\ l.urls = {}
  BY DEF WrittenBy, RowsOwned, LinksDone, Clears
<1>2. \A b, y \in ArticleIds :
        <<b, y>> \in n.relations <=> <<b, y>> \in t.relations \/ (b = a /\ y = x)
  OBVIOUS
<1>3. Present(n) = Present(t) /\ a \in Present(t)
  BY <1>1, RowPresent DEF Present
<1>4. Sound(n)
  BY <1>1, <1>2, <1>3 DEF Sound
<1>5. Unowned(n) = {} /\ UrlsDone(a, n, in, l)
  BY <1>1, SameSources
<1>6. RowWritten(a, c, n, in)
  BY <1>1, <1>2 DEF RowWritten, IdGiven, OnlyOf
<1>7. RelatedDone(a, n, in, k)
  BY <1>1, <1>2 DEF RelatedDone
<1>8. UrlsDone(a, n, in, k) /\ CatsDone(a, n, in, k)
  BY <1>1, <1>5 DEF UrlsDone, CatsDone
<1> QED
  BY <1>1, <1>4, <1>5, <1>6, <1>7, <1>8 DEF WrittenBy, RowsOwned, LinksDone, Clears

\* A deletion takes the article and every link to it, and nothing else.
LEMMA RowDeleted ==
  ASSUME NEW t \in Tables, Sound(t), Unowned(t) = {}, NEW a \in ArticleIds,
         NEW n, n = DeleteRow(t, a)
  PROVE  /\ Sound(n) /\ Unowned(n) = {}
         /\ Present(n) = Present(t) \ {a}
<1>1. /\ n \in Tables
      /\ n.articles = [t.articles EXCEPT ![a] = None]
      /\ n.used = t.used
      /\ n.categories = t.categories
      /\ n.articleCategories = OthersIn(a, t.articleCategories)
      /\ n.sources = UnlinkSources(t, a).sources
      /\ n.articleSources = OthersIn(a, t.articleSources)
      /\ n.relations = {l \in t.relations : l[1] # a /\ l[2] # a}
  BY DeleteFields
<1>2. \A s \in SourceIds : n.sources[s] = IF <<a, s>> \in t.articleSources THEN None ELSE t.sources[s]
  BY <1>1, UnlinkRows
<1>3. \A b \in ArticleIds, x \in Categories :
        <<b, x>> \in n.articleCategories <=> <<b, x>> \in t.articleCategories /\ b # a
  BY <1>1 DEF OthersIn
<1>4. \A b \in ArticleIds, s \in SourceIds :
        <<b, s>> \in n.articleSources <=> <<b, s>> \in t.articleSources /\ b # a
  BY <1>1 DEF OthersIn
<1>5. \A b, x \in ArticleIds :
        <<b, x>> \in n.relations <=> <<b, x>> \in t.relations /\ b # a /\ x # a
  BY <1>1
<1>6. \A b \in ArticleIds : n.articles[b] = IF b = a THEN None ELSE t.articles[b]
  BY <1>1 DEF Tables
<1>7. Present(n) = Present(t) \ {a}
  BY <1>6 DEF Present
<1>8. Sound(n)
  <2>1. \A b, d \in Present(n) : n.articles[b].slug = n.articles[d].slug => b = d
    BY <1>6, <1>7 DEF Sound, Present
  <2>2. \A b \in ArticleIds, x \in Categories :
          <<b, x>> \in n.articleCategories => b \in Present(n) /\ x \in n.categories
    BY <1>1, <1>3, <1>7 DEF Sound
  <2>3. \A b \in ArticleIds, s \in SourceIds :
          <<b, s>> \in n.articleSources => b \in Present(n) /\ n.sources[s] # None
    BY <1>2, <1>4, <1>7 DEF Sound
  <2>4. \A b, d \in ArticleIds, s \in SourceIds :
          <<b, s>> \in n.articleSources /\ <<d, s>> \in n.articleSources => b = d
    BY <1>4 DEF Sound
  <2>5. \A b, d \in ArticleIds :
          <<b, d>> \in n.relations => b \in Present(n) /\ d \in Present(n) /\ b # d
    BY <1>5, <1>7 DEF Sound
  <2>6. \A b \in Present(n) : b \in n.used
    BY <1>1, <1>7 DEF Sound
  <2> QED
    BY <2>1, <2>2, <2>3, <2>4, <2>5, <2>6 DEF Sound
<1>9. Unowned(n) = {}
  BY <1>2, <1>4 DEF Unowned
<1> QED
  BY <1>7, <1>8, <1>9

-----------------------------------------------------------------------------
(* The transactions: TxInv.                                                *)

\* The invariant of transactions holds at the start.
LEMMA TxInit == Init => TxInv
<1> SUFFICES ASSUME Init PROVE TxInv
  OBVIOUS
<1>1. Sound(committed) /\ Unowned(committed) = {}
  BY DEF Init, Sound, Unowned, Present
<1> QED
  BY <1>1 DEF Init, TxInv, Writing, Deleting, LinkSteps, Clears

\* Steps after which no transaction has written anything yet.
LEMMA TxNone ==
  ASSUME Sound(committed'), (Unowned(committed) = {})',
         \A r \in Requests : pc'[r] \notin LinkSteps \cup {"commit"}
  PROVE  TxInv'
BY DEF TxInv, Writing, Deleting

\* ... as when the connection is free.
LEMMA TxFree ==
  ASSUME BaseInv', conn' = Nobody, Sound(committed'), (Unowned(committed) = {})'
  PROVE  TxInv'
<1>1. \A r \in Requests : pc'[r] \notin LinkSteps \cup {"commit"}
  BY NobodyAssumption DEF BaseInv, ConnInv, LinkSteps, Clears, InTx
<1> QED
  BY <1>1, TxNone

\* After a rollback nothing is written.
LEMMA TxRollback ==
  ASSUME TxInv, BaseInv', NEW r \in Requests, NEW status, Rollback(r, status)
  PROVE  TxInv'
BY TxFree DEF TxInv, Rollback

\* A statement after which request r goes on to step.
LEMMA TxStatement ==
  ASSUME TxInv, BaseInv, BaseInv', NEW r \in Requests, conn = r, conn' = conn, committed' = committed,
         NEW step \in LinkSteps \cup {"commit"}, pc'[r] = step, input'[r] # None,
         WrittenBy(id'[r], committed, tables', input'[r], left'[r], step)
  PROVE  TxInv'
<1>1. \A q \in Requests \ {r} : pc'[q] \notin LinkSteps \cup {"commit"}
  BY DEF BaseInv, ConnInv, LinkSteps, Clears, InTx
<1>2. Written(r)'
  BY DEF Written
<1> QED
  BY <1>1, <1>2 DEF TxInv, Writing, Deleting

\* Where WrittenBy is the same for two steps, because nothing is left of a kind of link.
LEMMA NextStep ==
  ASSUME NEW a, NEW c, NEW t, NEW in, NEW l
  PROVE  /\ WrittenBy(a, c, t, in, l, "categories") /\ l.cats = {} =>
              WrittenBy(a, c, t, in, l, "sources")
         /\ WrittenBy(a, c, t, in, l, "sources") /\ l.urls = {} =>
              WrittenBy(a, c, t, in, l, "relations")
         /\ WrittenBy(a, c, t, in, l, "relations") /\ l.related = {} =>
              WrittenBy(a, c, t, in, l, "commit")
BY DEF WrittenBy, RowsOwned, LinksDone, Clears

LEMMA InsertArticleTx ==
  ASSUME BaseInv, TxInv, BaseInv', NEW r \in Requests, InsertArticle(r)
  PROVE  TxInv'
<1>1. /\ pc[r] = "insert" /\ conn = r /\ tables = committed /\ tables \in Tables
      /\ input[r] \in Inputs
  BY DEF InsertArticle, InTx, BaseInv, TypeOK, Equipped, ConnInv, QuietInv
<1>2. CASE Rollback(r, 409)
  BY <1>2, TxRollback
<1>3. ASSUME NEW a \in ArticleIds \ tables.used, ~SlugTaken(input[r].slug, None),
             tables' = [tables EXCEPT !.articles[a] = InputRow(input[r]), !.used = @ \cup {a}],
             id' = [id EXCEPT ![r] = a],
             left' = [left EXCEPT ![r] = InputLinks(input[r])],
             pc' = [pc EXCEPT ![r] = "categories"],
             UNCHANGED <<committed, conn, input, code>>
      PROVE  TxInv'
  <2>1. tables' = [tables EXCEPT !.articles[a] = InputRow(input[r]), !.used = @ \cup {a}]
    BY <1>3
  <2>2. /\ tables'.articles = [tables.articles EXCEPT ![a] = InputRow(input[r])]
        /\ tables'.used = tables.used \cup {a}
        /\ tables'.categories = tables.categories
        /\ tables'.articleCategories = tables.articleCategories
        /\ tables'.sources = tables.sources
        /\ tables'.articleSources = tables.articleSources
        /\ tables'.relations = tables.relations
    BY <1>1, <2>1 DEF Tables
  <2>3. \A b \in Present(tables) : tables.articles[b].slug # input[r].slug
    BY <1>3, NoneAssumption DEF SlugTaken, Exists, Present
  <2>4. Sound(tables) /\ Unowned(tables) = {}
    BY <1>1 DEF TxInv
  <2>5. /\ Sound(tables') /\ (Unowned(tables) = {})'
        /\ RowWritten(a, tables, tables', input[r])
        /\ CatsDone(a, tables', input[r], InputLinks(input[r]))
        /\ UrlsDone(a, tables', input[r], InputLinks(input[r]))
        /\ RelatedDone(a, tables', input[r], InputLinks(input[r]))
    BY <1>1, <2>2, <2>3, <2>4, InsertedRow
  <2>6. WrittenBy(a, committed, tables', input[r], InputLinks(input[r]), "categories")
    BY <1>1, <2>5 DEF WrittenBy, RowsOwned, LinksDone, Clears
  <2>7. /\ pc'[r] = "categories" /\ id'[r] = a /\ input'[r] = input[r] /\ input'[r] # None
        /\ left'[r] = InputLinks(input[r])
    BY <1>1, <1>3, InputParts DEF BaseInv, TypeOK
  <2> QED
    BY <1>1, <1>3, <2>6, <2>7, TxStatement DEF LinkSteps
<1> QED
  BY <1>2, <1>3 DEF InsertArticle

LEMMA UpdateArticleTx ==
  ASSUME BaseInv, TxInv, BaseInv', NEW r \in Requests, UpdateArticle(r)
  PROVE  TxInv'
<1>1. /\ pc[r] = "update" /\ conn = r /\ tables = committed /\ tables \in Tables
      /\ input[r] \in Inputs /\ id[r] \in ArticleIds
  BY DEF UpdateArticle, InTx, BaseInv, TypeOK, Equipped, ConnInv, QuietInv
<1>2. CASE Rollback(r, 404)
  BY <1>2, TxRollback
<1>3. CASE Rollback(r, 409)
  BY <1>3, TxRollback
<1>4. ASSUME Exists(id[r]), ~SlugTaken(input[r].slug, id[r]),
             tables' = [tables EXCEPT !.articles[id[r]] = InputRow(input[r])],
             left' = [left EXCEPT ![r] = InputLinks(input[r])],
             pc' = [pc EXCEPT ![r] = "clear_categories"],
             UNCHANGED <<committed, conn, id, input, code>>
      PROVE  TxInv'
  <2>1. tables' = [tables EXCEPT !.articles[id[r]] = InputRow(input[r])]
    BY <1>4
  <2>2. /\ tables'.articles = [tables.articles EXCEPT ![id[r]] = InputRow(input[r])]
        /\ tables'.used = tables.used
        /\ tables'.categories = tables.categories
        /\ tables'.articleCategories = tables.articleCategories
        /\ tables'.sources = tables.sources
        /\ tables'.articleSources = tables.articleSources
        /\ tables'.relations = tables.relations
    BY <1>1, <2>1 DEF Tables
  <2>3. id[r] \in Present(tables)
    BY <1>1, <1>4 DEF Exists, Present
  <2>4. \A b \in Present(tables) \ {id[r]} : tables.articles[b].slug # input[r].slug
    BY <1>4 DEF SlugTaken, Exists, Present
  <2>5. Sound(tables) /\ Unowned(tables) = {}
    BY <1>1 DEF TxInv
  <2>6. /\ Sound(tables') /\ (Unowned(tables) = {})'
        /\ RowWritten(id[r], tables, tables', input[r])
    BY <1>1, <2>2, <2>3, <2>4, <2>5, UpdatedRow
  <2>7. WrittenBy(id[r], committed, tables', input[r], InputLinks(input[r]), "clear_categories")
    BY <1>1, <2>6 DEF WrittenBy, RowsOwned, LinksDone, Clears
  <2>8. /\ pc'[r] = "clear_categories" /\ id'[r] = id[r]
        /\ input'[r] = input[r] /\ input'[r] # None /\ left'[r] = InputLinks(input[r])
    BY <1>1, <1>4, InputParts DEF BaseInv, TypeOK
  <2> QED
    BY <1>1, <1>4, <2>7, <2>8, TxStatement DEF LinkSteps, Clears
<1> QED
  BY <1>2, <1>3, <1>4 DEF UpdateArticle

\* What the steps that change links find, and what they have to show.
LEMMA LinkTx ==
  ASSUME BaseInv, TxInv, BaseInv', NEW r \in Requests, pc[r] \in LinkSteps
  PROVE  /\ WrittenBy(id[r], committed, tables, input[r], left[r], pc[r])
         /\ \A step \in LinkSteps \cup {"commit"} :
              /\ UNCHANGED <<committed, conn, id, input>>
              /\ pc' = [pc EXCEPT ![r] = step]
              /\ WrittenBy(id[r], committed, tables', input[r], left'[r], step)
              => TxInv'
<1>1. WrittenBy(id[r], committed, tables, input[r], left[r], pc[r])
  BY DEF TxInv, Writing, Written
<1>2. ASSUME NEW step \in LinkSteps \cup {"commit"}, UNCHANGED <<committed, conn, id, input>>,
             pc' = [pc EXCEPT ![r] = step],
             WrittenBy(id[r], committed, tables', input[r], left'[r], step)
      PROVE  TxInv'
  <2>1. conn = r /\ input'[r] # None /\ pc'[r] = step
    BY <1>2, LinkStepFacts, InputParts DEF BaseInv, TypeOK
  <2> QED
    BY <1>2, <2>1, TxStatement
<1> QED
  BY <1>1, <1>2

LEMMA ClearTx ==
  ASSUME BaseInv, TxInv, BaseInv', NEW r \in Requests,
         ClearCategories(r) \/ ClearSources(r) \/ ClearRelations(r)
  PROVE  TxInv'
<1>1. pc[r] \in LinkSteps
  BY DEF ClearCategories, ClearSources, ClearRelations, LinkSteps, Clears
<1>2. CASE ClearCategories(r)
  <2>1. /\ tables'.articles = tables.articles
        /\ tables'.used = tables.used
        /\ tables'.categories = tables.categories
        /\ tables'.articleCategories = OthersIn(id[r], tables.articleCategories)
        /\ tables'.sources = tables.sources
        /\ tables'.articleSources = tables.articleSources
        /\ tables'.relations = tables.relations
    BY <1>1, <1>2, LinkStepFacts DEF ClearCategories, Tables
  <2>2. WrittenBy(id[r], committed, tables', input[r], left[r], "clear_sources")
    BY <1>1, <1>2, <2>1, LinkStepFacts, LinkTx, CategoriesCleared DEF ClearCategories
  <2> QED
    BY <1>1, <1>2, <2>2, LinkTx DEF ClearCategories, Goto, LinkSteps, Clears
<1>3. CASE ClearSources(r)
  <2>1. WrittenBy(id[r], committed, tables', input[r], left[r], "clear_relations")
    BY <1>1, <1>3, LinkStepFacts, LinkTx, SourcesCleared DEF ClearSources
  <2> QED
    BY <1>1, <1>3, <2>1, LinkTx DEF ClearSources, Goto, LinkSteps, Clears
<1>4. CASE ClearRelations(r)
  <2>1. /\ tables'.articles = tables.articles
        /\ tables'.used = tables.used
        /\ tables'.categories = tables.categories
        /\ tables'.articleCategories = tables.articleCategories
        /\ tables'.sources = tables.sources
        /\ tables'.articleSources = tables.articleSources
        /\ tables'.relations = OthersIn(id[r], tables.relations)
    BY <1>1, <1>4, LinkStepFacts DEF ClearRelations, Tables
  <2>2. WrittenBy(id[r], committed, tables', input[r], left[r], "categories")
    BY <1>1, <1>4, <2>1, LinkStepFacts, LinkTx, RelationsCleared DEF ClearRelations
  <2> QED
    BY <1>1, <1>4, <2>2, LinkTx DEF ClearRelations, Goto, LinkSteps
<1> QED
  BY <1>2, <1>3, <1>4

LEMMA InsertCategoriesTx ==
  ASSUME BaseInv, TxInv, BaseInv', NEW r \in Requests, InsertCategories(r)
  PROVE  TxInv'
<1>1. pc[r] = "categories" /\ pc[r] \in LinkSteps
  BY DEF InsertCategories, LinkSteps
<1>2. CASE left[r].cats = {} /\ Goto(r, "sources") /\ UNCHANGED tables
  BY <1>1, <1>2, LinkTx, NextStep DEF Goto, LinkSteps
<1>3. CASE Rollback(r, 422)
  BY <1>3, TxRollback
<1>4. ASSUME NEW x \in left[r].cats, x \in tables.categories,
             tables' = [tables EXCEPT !.articleCategories = @ \cup {<<id[r], x>>}],
             left' = [left EXCEPT ![r].cats = @ \ {x}],
             UNCHANGED <<committed, conn, pc, id, input, code>>
      PROVE  TxInv'
  <2>1. /\ tables'.articles = tables.articles
        /\ tables'.used = tables.used
        /\ tables'.categories = tables.categories
        /\ tables'.articleCategories = tables.articleCategories \cup {<<id[r], x>>}
        /\ tables'.sources = tables.sources
        /\ tables'.articleSources = tables.articleSources
        /\ tables'.relations = tables.relations
    BY <1>1, <1>4, LinkStepFacts DEF Tables
  <2>2. /\ left'[r].cats = left[r].cats \ {x}
        /\ left'[r].urls = left[r].urls
        /\ left'[r].related = left[r].related
    BY <1>4 DEF BaseInv, TypeOK, LinkSets
  <2> DEFINE k == left'[r]
             n == tables'
  <2>3. /\ WrittenBy(id[r], committed, tables, input[r], left[r], "categories")
        /\ tables \in Tables /\ committed \in Tables /\ id[r] \in ArticleIds
        /\ input[r] \in Inputs /\ left[r] \in LinkSets
    BY <1>1, LinkStepFacts, LinkTx
  <2> HIDE DEF k, n
  <2>4. WrittenBy(id[r], committed, n, input[r], k, "categories")
    BY <1>4, <2>1, <2>2, <2>3, CategoryLinked DEF k, n
  <2>5. pc' = [pc EXCEPT ![r] = "categories"]
    BY <1>1, <1>4 DEF BaseInv, TypeOK
  <2> QED
    BY <1>1, <1>4, <2>4, <2>5, LinkTx DEF k, n
<1> QED
  BY <1>1, <1>2, <1>3, <1>4 DEF InsertCategories

LEMMA InsertSourcesTx ==
  ASSUME BaseInv, TxInv, BaseInv', NEW r \in Requests, InsertSources(r)
  PROVE  TxInv'
<1>1. pc[r] = "sources" /\ pc[r] \in LinkSteps
  BY DEF InsertSources, LinkSteps
<1>2. CASE left[r].urls = {} /\ Goto(r, "relations") /\ UNCHANGED tables
  BY <1>1, <1>2, LinkTx, NextStep DEF Goto, LinkSteps
<1>3. ASSUME NEW u \in left[r].urls, NEW s \in FreeSource,
             tables' = [tables EXCEPT !.sources[s] = u],
             left' = [left EXCEPT ![r].urls = @ \ {u}],
             pc' = [pc EXCEPT ![r] = "link_source"],
             UNCHANGED <<committed, conn, id, input, code>>
      PROVE  TxInv'
  <2> DEFINE k == left'[r]
             n == tables'
  <2>1. tables \in Tables /\ n = [tables EXCEPT !.sources[s] = u]
    BY <1>1, <1>3, LinkStepFacts
  <2>2. /\ n.articles = tables.articles
        /\ n.used = tables.used
        /\ n.categories = tables.categories
        /\ n.articleCategories = tables.articleCategories
        /\ n.sources[s] = u
        /\ \A x \in SourceIds \ {s} : n.sources[x] = tables.sources[x]
        /\ n.articleSources = tables.articleSources
        /\ n.relations = tables.relations
    BY <2>1 DEF Tables, FreeSource
  <2>3. k.cats = left[r].cats /\ k.urls = left[r].urls \ {u} /\ k.related = left[r].related
    BY <1>3 DEF BaseInv, TypeOK, LinkSets
  <2>4. /\ WrittenBy(id[r], committed, tables, input[r], left[r], "sources")
        /\ tables \in Tables /\ committed \in Tables /\ id[r] \in ArticleIds
        /\ input[r] \in Inputs /\ left[r] \in LinkSets
    BY <1>1, LinkStepFacts, LinkTx
  <2>5. s \in SourceIds /\ tables.sources[s] = None
    BY DEF FreeSource
  <2> HIDE DEF k, n
  <2>6. WrittenBy(id[r], committed, n, input[r], k, "link_source")
    BY <2>2, <2>3, <2>4, <2>5, SourceInserted
  <2> QED
    BY <1>1, <1>3, <2>6, LinkTx DEF k, n, LinkSteps
<1> QED
  BY <1>1, <1>2, <1>3 DEF InsertSources

LEMMA LinkSourceTx ==
  ASSUME BaseInv, TxInv, BaseInv', NEW r \in Requests, LinkSource(r)
  PROVE  TxInv'
<1>1. pc[r] = "link_source" /\ pc[r] \in LinkSteps
  BY DEF LinkSource, LinkSteps
<1> DEFINE n == tables'
<1>2. PICK s \in SourceIds \ FreeSource :
        /\ \A l \in tables.articleSources : l[2] # s
        /\ n = [tables EXCEPT !.articleSources = @ \cup {<<id[r], s>>}]
  BY DEF LinkSource
<1>3. /\ WrittenBy(id[r], committed, tables, input[r], left[r], "link_source")
      /\ tables \in Tables /\ committed \in Tables /\ id[r] \in ArticleIds
      /\ input[r] \in Inputs /\ left[r] \in LinkSets
  BY <1>1, LinkStepFacts, LinkTx
<1>4. /\ n.articles = tables.articles
      /\ n.used = tables.used
      /\ n.categories = tables.categories
      /\ n.articleCategories = tables.articleCategories
      /\ n.sources = tables.sources
      /\ n.articleSources = tables.articleSources \cup {<<id[r], s>>}
      /\ n.relations = tables.relations
  BY <1>2, <1>3 DEF Tables
<1>5. s \in SourceIds /\ tables.sources[s] # None
  BY DEF FreeSource
<1> HIDE DEF n
<1>6. WrittenBy(id[r], committed, n, input[r], left[r], "sources")
  BY <1>2, <1>3, <1>4, <1>5, SourceLinked
<1> QED
  BY <1>1, <1>6, LinkTx DEF n, LinkSource, Goto, LinkSteps

LEMMA InsertRelationsTx ==
  ASSUME BaseInv, TxInv, BaseInv', NEW r \in Requests, InsertRelations(r)
  PROVE  TxInv'
<1>1. pc[r] = "relations" /\ pc[r] \in LinkSteps
  BY DEF InsertRelations, LinkSteps
<1>2. CASE left[r].related = {} /\ Goto(r, "commit") /\ UNCHANGED tables
  BY <1>1, <1>2, LinkTx, NextStep DEF Goto, LinkSteps
<1>3. CASE Rollback(r, 422)
  BY <1>3, TxRollback
<1>4. ASSUME NEW x \in left[r].related, x # id[r], Exists(x),
             tables' = [tables EXCEPT !.relations = @ \cup {<<id[r], x>>}],
             left' = [left EXCEPT ![r].related = @ \ {x}],
             UNCHANGED <<committed, conn, pc, id, input, code>>
      PROVE  TxInv'
  <2> DEFINE k == left'[r]
             n == tables'
  <2>1. tables \in Tables /\ n = [tables EXCEPT !.relations = @ \cup {<<id[r], x>>}]
    BY <1>1, <1>4, LinkStepFacts
  <2>2. /\ n.articles = tables.articles
        /\ n.used = tables.used
        /\ n.categories = tables.categories
        /\ n.articleCategories = tables.articleCategories
        /\ n.sources = tables.sources
        /\ n.articleSources = tables.articleSources
        /\ n.relations = tables.relations \cup {<<id[r], x>>}
    BY <2>1 DEF Tables
  <2>3. k.cats = left[r].cats /\ k.urls = left[r].urls /\ k.related = left[r].related \ {x}
    BY <1>4 DEF BaseInv, TypeOK, LinkSets
  <2>4. /\ WrittenBy(id[r], committed, tables, input[r], left[r], "relations")
        /\ committed \in Tables /\ id[r] \in ArticleIds
        /\ input[r] \in Inputs /\ left[r] \in LinkSets
    BY <1>1, LinkStepFacts, LinkTx
  <2>5. x \in Present(tables)
    BY <1>4, <2>4 DEF Exists, Present, LinkSets
  <2> HIDE DEF k, n
  <2>6. WrittenBy(id[r], committed, n, input[r], k, "relations")
    BY <1>4, <2>1, <2>2, <2>3, <2>4, <2>5, RelationLinked
  <2>7. pc' = [pc EXCEPT ![r] = "relations"]
    BY <1>1, <1>4 DEF BaseInv, TypeOK
  <2> QED
    BY <1>1, <1>4, <2>6, <2>7, LinkTx DEF k, n
<1> QED
  BY <1>1, <1>2, <1>3, <1>4 DEF InsertRelations

LEMMA DeleteArticleTx ==
  ASSUME BaseInv, TxInv, BaseInv', NEW r \in Requests, DeleteArticle(r)
  PROVE  TxInv'
<1>1. /\ pc[r] = "delete" /\ conn = r /\ tables = committed /\ tables \in Tables
      /\ id[r] \in ArticleIds /\ input[r] = None
  BY DEF DeleteArticle, InTx, BaseInv, TypeOK, Equipped, ConnInv, QuietInv
<1>2. CASE Rollback(r, 404)
  BY <1>2, TxRollback
<1>3. CASE Goto(r, "commit")
  <2>1. pc'[r] = "commit" /\ UNCHANGED <<committed, conn, id, input>>
    BY <1>3 DEF Goto, BaseInv, TypeOK
  <2>2. \A q \in Requests \ {r} : pc'[q] \notin LinkSteps \cup {"commit"}
    BY <1>1, <2>1 DEF BaseInv, ConnInv, LinkSteps, Clears, InTx
  <2>3. tables' = tables \/ (Exists(id[r]) /\ tables' = DeleteRow(tables, id[r]))
    BY <1>1, <1>3, <2>1 DEF DeleteArticle, Rollback, Answer, BaseInv, TypeOK
  <2>4. Deleted(r)'
    BY <1>1, <2>1, <2>3 DEF Deleted, Exists, Present
  <2>5. ~Writing(r)'
    BY <1>1, <2>1 DEF Writing, LinkSteps, Clears
  <2> QED
    BY <2>1, <2>2, <2>4, <2>5 DEF TxInv, Writing, Deleting
<1> QED
  BY <1>2, <1>3 DEF DeleteArticle

\* What a transaction commits is sound, whichever it is.
LEMMA CommitSound ==
  ASSUME BaseInv, TxInv, NEW r \in Requests, pc[r] = "commit"
  PROVE  Sound(tables) /\ Unowned(tables) = {}
<1>1. tables \in Tables /\ committed \in Tables /\ id[r] \in ArticleIds
  BY DEF BaseInv, TypeOK, Equipped
<1>2. CASE input[r] = None
  BY <1>1, <1>2, RowDeleted DEF TxInv, Deleting, Deleted
<1>3. CASE input[r] # None
  BY <1>3 DEF TxInv, Writing, Written, WrittenBy, RowsOwned
<1> QED
  BY <1>2, <1>3

LEMMA CommitTx ==
  ASSUME BaseInv, TxInv, BaseInv', NEW r \in Requests, Commit(r)
  PROVE  TxInv'
<1>1. Sound(committed') /\ (Unowned(committed) = {})'
  BY CommitSound DEF Commit
<1> QED
  BY <1>1, TxFree DEF Commit

LEMMA CreateCategoryTx ==
  ASSUME BaseInv, TxInv, BaseInv', NEW c \in Categories, CreateCategory(c)
  PROVE  TxInv'
<1>1. conn' = Nobody /\ tables = committed /\ tables \in Tables
  BY DEF CreateCategory, BaseInv, QuietInv, TypeOK
<1> DEFINE n == tables'
<1>2. n = [tables EXCEPT !.categories = @ \cup {c}] /\ n = committed'
  BY DEF CreateCategory
<1>3. /\ n.articles = tables.articles
      /\ n.used = tables.used
      /\ n.categories = tables.categories \cup {c}
      /\ n.articleCategories = tables.articleCategories
      /\ n.sources = tables.sources
      /\ n.articleSources = tables.articleSources
      /\ n.relations = tables.relations
  BY <1>1, <1>2 DEF Tables
<1>4. Sound(tables) /\ Unowned(tables) = {}
  BY <1>1 DEF TxInv
<1> HIDE DEF n
<1>5. Sound(n) /\ Unowned(n) = {}
  BY <1>3, <1>4 DEF Sound, Unowned, Present
<1> QED
  BY <1>1, <1>2, <1>5, TxFree

\* Every step keeps the invariant of transactions.
LEMMA TxStep ==
  ASSUME BaseInv, TxInv, BaseInv', [Next]_vars
  PROVE  TxInv'
<1>1. ASSUME NEW r \in Requests, AcceptRequest(r)
      PROVE  TxInv'
  <2>1. /\ UNCHANGED <<tables, committed, conn, left>>
        /\ pc'[r] \notin LinkSteps \cup {"commit"}
        /\ \A q \in Requests \ {r} : pc'[q] = pc[q] /\ id'[q] = id[q] /\ input'[q] = input[q]
    BY <1>1 DEF AcceptRequest, Accept, BaseInv, TypeOK, LinkSteps, Clears
  <2>2. ~Writing(r)' /\ ~Deleting(r)'
    BY <2>1 DEF Writing, Deleting
  <2>3. \A q \in Requests \ {r} :
          /\ Writing(q)' = Writing(q) /\ Deleting(q)' = Deleting(q)
          /\ Written(q)' = Written(q) /\ Deleted(q)' = Deleted(q)
    BY <2>1 DEF Writing, Deleting, Written, Deleted
  <2> QED
    BY <2>1, <2>2, <2>3 DEF TxInv
<1>2. ASSUME NEW r \in Requests, BeginTx(r)
      PROVE  TxInv'
  <2>1. \A q \in Requests : pc'[q] \notin LinkSteps \cup {"commit"}
    <3>1. \A q \in Requests : pc[q] \notin InTx
      BY <1>2, NobodyAssumption DEF BeginTx, BaseInv, ConnInv
    <3>2. pc'[r] \in {"insert", "update", "delete", "rows"} /\ \A q \in Requests \ {r} : pc'[q] = pc[q]
      BY <1>2 DEF BeginTx, FirstStatement, BaseInv, TypeOK
    <3> QED
      BY <3>1, <3>2 DEF LinkSteps, Clears, InTx
  <2> QED
    BY <1>2, <2>1, TxNone DEF BeginTx, TxInv
<1>3. ASSUME NEW r \in Requests, ReadRows(r) \/ Reread(r) \/ ReadArticle(r)
      PROVE  TxInv'
  BY <1>3, TxFree DEF ReadRows, Reread, ReadArticle, TxInv
<1>4. ASSUME NEW r \in Requests, Fails(r)
      PROVE  TxInv'
  BY <1>4, TxRollback DEF Fails
<1>5. ASSUME NEW r \in Requests, Statement(r)
      PROVE  TxInv'
  BY <1>3, <1>4, <1>5, InsertArticleTx, UpdateArticleTx, ClearTx, InsertCategoriesTx,
     InsertSourcesTx, LinkSourceTx, InsertRelationsTx, DeleteArticleTx, CommitTx
  DEF Statement
<1>6. CASE Crash
  BY <1>6, TxFree DEF Crash, TxInv
<1>7. CASE UNCHANGED vars
  BY <1>7 DEF vars, slotVars, TxInv, Writing, Written, Deleting, Deleted
<1> QED
  BY <1>1, <1>2, <1>3, <1>5, <1>6, <1>7, CreateCategoryTx DEF Next, GetsConnection

\* At every statement the connection's tables are those of the begun transaction plus
\* what it has written of its input.
THEOREM Invariance == Spec => []IInv
<1>1. Init => IInv
  BY BaseInit, TxInit DEF IInv
<1>2. IInv /\ [Next]_vars => IInv'
  BY BaseStep, TxStep DEF IInv
<1> QED
  BY <1>1, <1>2, PTL DEF Spec
=============================================================================
