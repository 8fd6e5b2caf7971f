------------------------ MODULE ArticleCatalogProofs ------------------------
(***************************************************************************)
(* From the invariant of ArticleProofs: the properties of ArticleStore,    *)
(* and that it implements Catalog.                                         *)
(***************************************************************************)
EXTENDS ArticleProofs

-----------------------------------------------------------------------------
(* The tables as a catalog.                                                *)

\* The links of one article in a link table.
LEMMA Linked ==
  ASSUME NEW S, NEW links \in SUBSET (ArticleIds \X S), NEW a \in ArticleIds
  PROVE  /\ LinkedIn(links, a) \subseteq S
         /\ \A x \in S : x \in LinkedIn(links, a) <=> <<a, x>> \in links
BY DEF LinkedIn

\* The same for the three link tables.
LEMMA TableLinks ==
  ASSUME NEW t \in Tables, NEW a \in ArticleIds
  PROVE  /\ LinkedIn(t.articleCategories, a) = {x \in Categories : <<a, x>> \in t.articleCategories}
         /\ LinkedIn(t.articleSources, a) = {s \in SourceIds : <<a, s>> \in t.articleSources}
         /\ LinkedIn(t.relations, a) = {b \in ArticleIds : <<a, b>> \in t.relations}
<1>1. /\ t.articleCategories \in SUBSET (ArticleIds \X Categories)
      /\ t.articleSources \in SUBSET (ArticleIds \X SourceIds)
      /\ t.relations \in SUBSET (ArticleIds \X ArticleIds)
  BY DEF Tables
<1>2. LinkedIn(t.articleCategories, a) = {x \in Categories : <<a, x>> \in t.articleCategories}
  BY <1>1, Linked
<1>3. LinkedIn(t.articleSources, a) = {s \in SourceIds : <<a, s>> \in t.articleSources}
  BY <1>1, Linked
<1>4. LinkedIn(t.relations, a) = {b \in ArticleIds : <<a, b>> \in t.relations}
  BY <1>1, Linked
<1> QED
  BY <1>2, <1>3, <1>4

Entry(t, a) ==
  [slug |-> t.articles[a].slug, status |-> t.articles[a].status,
   cats |-> {x \in Categories : <<a, x>> \in t.articleCategories},
   urls |-> {t.sources[s] : s \in {x \in SourceIds : <<a, x>> \in t.articleSources}},
   related |-> {b \in ArticleIds : <<a, b>> \in t.relations}]

\* The catalog of some tables: an entry for each row.
LEMMA Entries ==
  ASSUME NEW t \in Tables
  PROVE  CatalogOf(t) = [a \in ArticleIds |-> IF a \in Present(t) THEN Entry(t, a) ELSE None]
BY TableLinks DEF CatalogOf, Entry, Present

\* An article in sound tables is an article of the catalog.
LEMMA EntryTyped ==
  ASSUME NEW t \in Tables, Sound(t), NEW a \in Present(t)
  PROVE  Entry(t, a) \in Article /\ Entry(t, a) # None
<1>1. t.articles[a] \in Row
  BY DEF Tables, Present
<1>2. \A s \in SourceIds : <<a, s>> \in t.articleSources => t.sources[s] \in Urls
  BY DEF Sound, Present, Tables
<1>3. Entry(t, a) \in Article
  BY <1>1, <1>2 DEF Entry, Article, Row
<1> QED
  BY <1>3, NoneAssumption

\* The articles of the catalog are those with a row.
LEMMA ExistingPresent ==
  ASSUME NEW t \in Tables, Sound(t), NEW a \in ArticleIds
  PROVE  /\ a \in Present(t) => CatalogOf(t)[a] = Entry(t, a) /\ CatalogOf(t)[a] # None
         /\ a \notin Present(t) => CatalogOf(t)[a] = None
BY Entries, EntryTyped

\* What does not change of the tables does not change of the catalog.
LEMMA SameEntry ==
  ASSUME NEW c \in Tables, NEW t \in Tables, NEW a \in ArticleIds, OnlyOf(a, c, t),
         NEW b \in ArticleIds \ {a}
  PROVE  (b \in Present(t) <=> b \in Present(c)) /\ Entry(t, b) = Entry(c, b)
<1>1. t.articles[b] = c.articles[b]
  BY DEF OnlyOf
<1>2. {x \in Categories : <<b, x>> \in t.articleCategories} = {x \in Categories : <<b, x>> \in c.articleCategories}
  BY DEF OnlyOf
<1>3. {x \in ArticleIds : <<b, x>> \in t.relations} = {x \in ArticleIds : <<b, x>> \in c.relations}
  BY DEF OnlyOf
<1>4. {t.sources[s] : s \in {x \in SourceIds : <<b, x>> \in t.articleSources}} =
      {c.sources[s] : s \in {x \in SourceIds : <<b, x>> \in c.articleSources}}
  <2>1. \A s \in SourceIds : <<b, s>> \in t.articleSources <=> <<b, s>> \in c.articleSources
    BY DEF OnlyOf
  <2>2. \A s \in SourceIds : <<b, s>> \in t.articleSources => t.sources[s] = c.sources[s]
    BY DEF OnlyOf
  <2> QED
    BY <2>1, <2>2
<1> QED
  BY <1>1, <1>2, <1>3, <1>4 DEF Entry, Present

\* When everything is written, the article is the input.
LEMMA EntryWritten ==
  ASSUME NEW c \in Tables, NEW t \in Tables, NEW a \in ArticleIds, NEW in \in Inputs, NEW l,
         WrittenBy(a, c, t, in, l, "commit")
  PROVE  Entry(t, a) = in /\ a \in Present(t)
<1>1. /\ Sound(t) /\ Unowned(t) = {} /\ RowWritten(a, c, t, in)
      /\ CatsDone(a, t, in, l) /\ UrlsDone(a, t, in, l) /\ RelatedDone(a, t, in, l)
      /\ l.cats = {} /\ l.urls = {} /\ l.related = {}
  BY DEF WrittenBy, RowsOwned, LinksDone, Clears
<1>2. in \in Article
  BY InputsAssumption
<1>3. in.cats \subseteq Categories /\ in.urls \subseteq Urls /\ in.related \subseteq ArticleIds
  BY <1>2 DEF Article
<1>4. {x \in Categories : <<a, x>> \in t.articleCategories} = in.cats
  BY <1>1, <1>3 DEF CatsDone
<1>5. {x \in ArticleIds : <<a, x>> \in t.relations} = in.related
  BY <1>1, <1>3 DEF RelatedDone
<1>6. {t.sources[s] : s \in {x \in SourceIds : <<a, x>> \in t.articleSources}} = in.urls
  <2>1. \A u \in Urls : u \in in.urls <=>
          \E s \in SourceIds : t.sources[s] = u /\ <<a, s>> \in t.articleSources
    BY <1>1 DEF UrlsDone
  <2>2. \A s \in SourceIds : <<a, s>> \in t.articleSources => t.sources[s] \in Urls
    BY <1>1 DEF Sound, Tables
  <2> QED
    BY <1>3, <2>1, <2>2
<1>7. t.articles[a].slug = in.slug /\ t.articles[a].status = in.status
  BY <1>1 DEF RowWritten, InputRow
<1>8. Entry(t, a) = [slug |-> in.slug, status |-> in.status, cats |-> in.cats,
                     urls |-> in.urls, related |-> in.related]
  BY <1>4, <1>5, <1>6, <1>7 DEF Entry
<1>9. Entry(t, a) = in
  BY <1>2, <1>8 DEF Article
<1> QED
  BY <1>1, <1>9, RowPresent

-----------------------------------------------------------------------------
(* The properties.                                                         *)

\* The committed tables satisfy the schema, and own all their sources.
LEMMA CommittedFacts ==
  ASSUME IInv
  PROVE  /\ committed \in Tables /\ Sound(committed) /\ Unowned(committed) = {}
         /\ C!Existing = Present(committed)
         /\ \A a \in Present(committed) :
              a \in ArticleIds /\ CommittedCatalog[a] = Entry(committed, a)
<1>1. committed \in Tables /\ Sound(committed) /\ Unowned(committed) = {}
  BY DEF IInv, BaseInv, TypeOK, TxInv
<1>2. \A a \in ArticleIds :
        /\ a \in Present(committed) => CommittedCatalog[a] = Entry(committed, a) /\ CommittedCatalog[a] # None
        /\ a \notin Present(committed) => CommittedCatalog[a] = None
  BY <1>1, ExistingPresent DEF CommittedCatalog
<1>3. Present(committed) \subseteq ArticleIds
  BY DEF Present
<1> QED
  BY <1>1, <1>2, <1>3 DEF C!Existing

\* The invariant implies that the committed tables are consistent.
LEMMA ConsistentStates == IInv => CommittedConsistent
<1> SUFFICES ASSUME IInv PROVE CommittedConsistent
  OBVIOUS
<1>1. C!Existing \subseteq committed.used
  BY CommittedFacts DEF Sound
<1>2. ASSUME NEW a \in C!Existing, NEW b \in C!Existing, CommittedCatalog[a].slug = CommittedCatalog[b].slug
      PROVE  a = b
  <2>1. CommittedCatalog[a] = Entry(committed, a) /\ CommittedCatalog[b] = Entry(committed, b)
    BY CommittedFacts
  <2>2. committed.articles[a].slug = committed.articles[b].slug
    BY <1>2, <2>1 DEF Entry
  <2> QED
    BY <2>2, CommittedFacts DEF Sound
<1>3. ASSUME NEW a \in C!Existing
      PROVE  /\ CommittedCatalog[a].cats \subseteq committed.categories
             /\ CommittedCatalog[a].related \subseteq C!Existing \ {a}
  <2>1. /\ CommittedCatalog[a].cats = {x \in Categories : <<a, x>> \in committed.articleCategories}
        /\ CommittedCatalog[a].related = {b \in ArticleIds : <<a, b>> \in committed.relations}
    <3>1. CommittedCatalog[a] = Entry(committed, a)
      BY CommittedFacts
    <3> QED
      BY <3>1 DEF Entry
  <2>2. a \in ArticleIds
    BY CommittedFacts
  <2>3. CommittedCatalog[a].cats \subseteq committed.categories
    BY <2>1, <2>2, CommittedFacts DEF Sound
  <2>4. CommittedCatalog[a].related \subseteq Present(committed) \ {a}
    BY <2>1, <2>2, CommittedFacts DEF Sound
  <2> QED
    BY <2>3, <2>4, CommittedFacts
<1> QED
  BY <1>1, <1>2, <1>3 DEF CommittedConsistent, C!CatalogConsistent

\* Slugs stay unique, ids are not given twice, links lead to existing rows.
THEOREM CommittedStaysConsistent == Spec => []CommittedConsistent
BY Invariance, ConsistentStates, PTL

\* It implies that sources are owned.
LEMMA OwnedStates == IInv => NoOrphanSources
<1> SUFFICES ASSUME IInv, NEW s \in SourceIds
             PROVE  LET owners == {a \in ArticleIds : <<a, s>> \in committed.articleSources}
                    IN IF committed.sources[s] = None THEN owners = {}
                       ELSE \E a \in ArticleIds : owners = {a}
  BY DEF NoOrphanSources
<1>1. CASE committed.sources[s] = None
  BY <1>1, CommittedFacts DEF Sound
<1>2. CASE committed.sources[s] # None
  <2>1. PICK a \in ArticleIds : <<a, s>> \in committed.articleSources
    BY <1>2, CommittedFacts DEF Unowned
  <2>2. {b \in ArticleIds : <<b, s>> \in committed.articleSources} = {a}
    BY <2>1, CommittedFacts DEF Sound
  <2> QED
    BY <1>2, <2>2
<1> QED
  BY <1>1, <1>2

\* Updates, deletions and roll-backs leave no source row without its one article.
THEOREM SourcesStayOwned == Spec => []NoOrphanSources
BY Invariance, OwnedStates, PTL

\* Only a commit and a new category change what is committed.
LEMMA CommittedChanges ==
  ASSUME IInv, [Next]_vars
  PROVE  \/ committed' = committed
         \/ \E r \in Requests : Commit(r)
         \/ \E c \in Categories : CreateCategory(c)
<1>1. ASSUME NEW r \in Requests, AcceptRequest(r) \/ GetsConnection(r)
      PROVE  committed' = committed
  BY <1>1 DEF AcceptRequest, Accept, GetsConnection, BeginTx, Reread, ReadArticle
<1>2. ASSUME NEW r \in Requests, Statement(r), ~Commit(r)
      PROVE  committed' = committed
  BY <1>2 DEF Statement, InsertArticle, UpdateArticle, ClearCategories, ClearSources, ClearRelations,
     InsertCategories, InsertSources, LinkSource, InsertRelations, DeleteArticle, Fails, ReadRows,
     Rollback, Goto
<1>3. CASE Crash
  BY <1>3 DEF Crash
<1>4. CASE UNCHANGED vars
  BY <1>4 DEF vars
<1> QED
  BY <1>1, <1>2, <1>3, <1>4 DEF Next

NoTrace ==
  \A r \in Requests :
    pc[r] \in InTx /\ pc'[r] = "idle" /\ code'[r] # 204 => committed' = committed

\* No step that answers with an error changes the committed tables.
LEMMA NoTraceStep == IInv /\ [Next]_vars => NoTrace
<1> SUFFICES ASSUME IInv, [Next]_vars, NEW r \in Requests,
                    pc[r] \in InTx, pc'[r] = "idle", code'[r] # 204
             PROVE  committed' = committed
  BY DEF NoTrace
<1>1. ASSUME NEW q \in Requests, Commit(q)
      PROVE  FALSE
  <2>1. TypeOK
    BY DEF IInv, BaseInv
  <2>2. CASE q = r
    BY <1>1, <2>1, <2>2 DEF Commit, Answer, TypeOK
  <2>3. CASE q # r
    BY <1>1, <2>1, <2>3 DEF Commit, Answer, TypeOK, InTx
  <2> QED
    BY <2>2, <2>3
<1>2. ASSUME NEW c \in Categories, CreateCategory(c)
      PROVE  FALSE
  BY <1>2 DEF CreateCategory, slotVars, InTx
<1> QED
  BY <1>1, <1>2, CommittedChanges

\* A write that is answered with an error from inside its transaction leaves no trace.
THEOREM NoTraceOfFailures == Spec => FailedWritesLeaveNoTrace
<1>1. IInv /\ [Next]_vars => [NoTrace]_vars
  BY NoTraceStep
<1> QED
  BY <1>1, Invariance, PTL DEF Spec, FailedWritesLeaveNoTrace, NoTrace

\* The commit of a written article: it is the input, and nothing else has changed.
LEMMA CommitWritten ==
  ASSUME IInv, NEW r \in Requests, Commit(r), input[r] # None
  PROVE  /\ input[r] \in Inputs /\ id[r] \in ArticleIds
         /\ tables \in Tables /\ Sound(tables)
         /\ RowWritten(id[r], committed, tables, input[r])
         /\ Entry(tables, id[r]) = input[r] /\ id[r] \in Present(tables)
         /\ CommittedCatalog' = [CommittedCatalog EXCEPT ![id[r]] = input[r]]
<1>1. /\ input[r] \in Inputs /\ id[r] \in ArticleIds
      /\ tables \in Tables /\ committed \in Tables
      /\ WrittenBy(id[r], committed, tables, input[r], left[r], "commit")
  BY DEF Commit, IInv, BaseInv, TypeOK, Equipped, TxInv, Writing, Written
<1>2. Sound(tables) /\ RowWritten(id[r], committed, tables, input[r])
  BY <1>1 DEF WrittenBy
<1>3. Entry(tables, id[r]) = input[r] /\ id[r] \in Present(tables)
  BY <1>1, EntryWritten
<1>4. \A b \in ArticleIds \ {id[r]} :
        (b \in Present(tables) <=> b \in Present(committed)) /\ Entry(tables, b) = Entry(committed, b)
  BY <1>1, <1>2, SameEntry DEF RowWritten
<1>5. CatalogOf(tables) = [a \in ArticleIds |-> IF a \in Present(tables) THEN Entry(tables, a) ELSE None]
  BY <1>1, Entries
<1>6. CatalogOf(committed) = [a \in ArticleIds |-> IF a \in Present(committed) THEN Entry(committed, a) ELSE None]
  BY <1>1, Entries
<1>7. CatalogOf(tables) = [CatalogOf(committed) EXCEPT ![id[r]] = input[r]]
  BY <1>1, <1>3, <1>4, <1>5, <1>6
<1>8. committed' = tables
  BY DEF Commit
<1>9. CommittedCatalog' = CatalogOf(tables)
  BY <1>8 DEF CommittedCatalog, CatalogOf
<1> QED
  BY <1>1, <1>2, <1>3, <1>7, <1>9 DEF CommittedCatalog

\* The commit of a deletion: the article is gone, from the relations of the others too.
LEMMA CommitDeleted ==
  ASSUME IInv, NEW r \in Requests, Commit(r), input[r] = None
  PROVE  \/ committed' = committed
         \/ /\ id[r] \in Present(committed)
            /\ committed'.used = committed.used /\ committed'.categories = committed.categories
            /\ CommittedCatalog' = [b \in ArticleIds |->
                 IF b = id[r] THEN None ELSE C!Unrelate(CommittedCatalog[b], id[r])]
<1> DEFINE a == id[r]
           t == committed
<1>1. /\ tables = committed \/ (a \in Present(t) /\ tables = DeleteRow(t, a))
      /\ a \in ArticleIds /\ committed' = tables
  BY DEF Commit, IInv, BaseInv, Equipped, TxInv, Deleting, Deleted
<1>2. t \in Tables /\ Sound(t) /\ Unowned(t) = {}
  BY CommittedFacts
<1> SUFFICES ASSUME a \in Present(t), tables = DeleteRow(t, a)
             PROVE  /\ tables.used = t.used /\ tables.categories = t.categories
                    /\ CatalogOf(tables) = [b \in ArticleIds |->
                         IF b = a THEN None ELSE C!Unrelate(CatalogOf(t)[b], a)]
  BY <1>1 DEF CommittedCatalog, CatalogOf
<1> DEFINE n == tables
<1>3. /\ n \in Tables
      /\ n.articles = [t.articles EXCEPT ![a] = None]
      /\ n.used = t.used
      /\ n.categories = t.categories
      /\ n.articleCategories = OthersIn(a, t.articleCategories)
      /\ n.sources = UnlinkSources(t, a).sources
      /\ n.articleSources = OthersIn(a, t.articleSources)
      /\ n.relations = {l \in t.relations : l[1] # a /\ l[2] # a}
  BY <1>1, <1>2, DeleteFields
<1>4. Sound(n) /\ Present(n) = Present(t) \ {a}
  BY <1>1, <1>2, RowDeleted
<1>5. \A s \in SourceIds : n.sources[s] = IF <<a, s>> \in t.articleSources THEN None ELSE t.sources[s]
  BY <1>1, <1>2, <1>3, UnlinkRows
<1> HIDE DEF n
<1>6. ASSUME NEW b \in Present(n)
      PROVE  Entry(n, b) = C!Unrelate(Entry(t, b), a)
  <2>1. b \in ArticleIds /\ b # a /\ b \in Present(t)
    BY <1>4 DEF Present
  <2>2. n.articles[b] = t.articles[b]
    BY <1>1, <1>2, <1>3, <2>1 DEF Tables
  <2>3. {x \in Categories : <<b, x>> \in n.articleCategories} = {x \in Categories : <<b, x>> \in t.articleCategories}
    BY <1>3, <2>1 DEF OthersIn
  <2>4. {n.sources[s] : s \in {x \in SourceIds : <<b, x>> \in n.articleSources}} =
        {t.sources[s] : s \in {x \in SourceIds : <<b, x>> \in t.articleSources}}
    <3>1. \A s \in SourceIds : <<b, s>> \in n.articleSources <=> <<b, s>> \in t.articleSources
      BY <1>3, <2>1 DEF OthersIn
    <3>2. \A s \in SourceIds : <<b, s>> \in t.articleSources => n.sources[s] = t.sources[s]
      BY <1>1, <1>2, <1>5, <2>1 DEF Sound
    <3> QED
      BY <3>1, <3>2
  <2>5. {x \in ArticleIds : <<b, x>> \in n.relations} = {x \in ArticleIds : <<b, x>> \in t.relations} \ {a}
    BY <1>3, <2>1
  <2>6. C!Unrelate(Entry(t, b), a) = [Entry(t, b) EXCEPT !.related = @ \ {a}]
    BY <1>2, <2>1, EntryTyped DEF C!Unrelate
  <2> QED
    BY <2>2, <2>3, <2>4, <2>5, <2>6 DEF Entry
<1>7. CatalogOf(n) = [b \in ArticleIds |-> IF b \in Present(n) THEN Entry(n, b) ELSE None]
  BY <1>3, Entries
<1>8. CatalogOf(t) = [b \in ArticleIds |-> IF b \in Present(t) THEN Entry(t, b) ELSE None]
  BY <1>2, Entries
<1>9. ASSUME NEW b \in ArticleIds
      PROVE  CatalogOf(n)[b] = IF b = a THEN None ELSE C!Unrelate(CatalogOf(t)[b], a)
  <2>1. CASE b \in Present(n)
    BY <1>4, <1>6, <1>7, <1>8, <2>1
  <2>2. CASE b \notin Present(n) /\ b # a
    BY <1>4, <1>7, <1>8, <2>2 DEF C!Unrelate
  <2>3. CASE b = a
    BY <1>4, <1>7, <2>3
  <2> QED
    BY <2>1, <2>2, <2>3
<1>10. CatalogOf(n) = [b \in ArticleIds |-> IF b = a THEN None ELSE C!Unrelate(CatalogOf(t)[b], a)]
  BY <1>7, <1>9
<1> QED
  BY <1>3, <1>10 DEF n

AsSent ==
  \A r \in Requests : pc'[r] = "reread" /\ pc[r] # "reread" =>
    \E a \in ArticleIds : a = id[r] /\ CommittedCatalog'[a] = input[r]

\* A commit makes the input visible.
LEMMA AsSentStep == IInv /\ [Next]_vars => AsSent
<1> SUFFICES ASSUME IInv, [Next]_vars, NEW r \in Requests, pc'[r] = "reread", pc[r] # "reread"
             PROVE  id[r] \in ArticleIds /\ CommittedCatalog'[id[r]] = input[r]
  BY DEF AsSent
<1>1. TypeOK
  BY DEF IInv, BaseInv
<1>2. CASE Commit(r)
  <2>1. input[r] # None
    BY <1>1, <1>2 DEF Commit, Answer, TypeOK
  <2>2. /\ id[r] \in ArticleIds
        /\ CommittedCatalog' = [CommittedCatalog EXCEPT ![id[r]] = input[r]]
    BY <1>2, <2>1, CommitWritten
  <2>3. DOMAIN CommittedCatalog = ArticleIds
    BY DEF CommittedCatalog, CatalogOf
  <2> QED
    BY <2>2, <2>3
<1>3. ASSUME NEW q \in Requests, AcceptRequest(q)
      PROVE  FALSE
  BY <1>1, <1>3 DEF AcceptRequest, Accept, TypeOK
<1>4. ASSUME NEW q \in Requests, GetsConnection(q)
      PROVE  FALSE
  <2>1. CASE BeginTx(q)
    <3>1. /\ pc' = [pc EXCEPT ![q] = FirstStatement[pc[q]]]
          /\ FirstStatement[pc[q]] \in {"insert", "update", "delete", "rows"}
      BY <2>1, FirstStatements DEF BeginTx
    <3> QED
      BY <1>1, <3>1 DEF TypeOK
  <2>2. CASE Reread(q) \/ ReadArticle(q)
    BY <1>1, <2>2 DEF Reread, ReadArticle, Answer, TypeOK
  <2> QED
    BY <1>4, <2>1, <2>2 DEF GetsConnection
<1>5. ASSUME NEW q \in Requests, Statement(q), q # r \/ ~Commit(q)
      PROVE  FALSE
  <2>1. CASE Commit(q)
    BY <1>1, <1>5, <2>1 DEF Commit, Answer, TypeOK
  <2>2. CASE ReadRows(q)
    BY <1>1, <2>2 DEF ReadRows, Answer, TypeOK
  <2>3. CASE DeleteArticle(q)
    BY <1>1, <2>3 DEF DeleteArticle, Rollback, Goto, Answer, TypeOK
  <2>4. CASE Fails(q)
    BY <1>1, <2>4 DEF Fails, Rollback, Answer, TypeOK
  <2>5. CASE InsertArticle(q)
    <3>1. \E step \in {"categories", "idle"} : pc' = [pc EXCEPT ![q] = step]
      BY <2>5 DEF InsertArticle, Rollback, Answer
    <3> QED
      BY <1>1, <3>1 DEF TypeOK
  <2>6. CASE UpdateArticle(q)
    BY <1>1, <2>6 DEF UpdateArticle, Rollback, Answer, TypeOK
  <2>7. CASE ClearCategories(q) \/ ClearSources(q) \/ ClearRelations(q) \/ LinkSource(q)
    BY <1>1, <2>7 DEF ClearCategories, ClearSources, ClearRelations, LinkSource, Goto, TypeOK
  <2>8. CASE InsertCategories(q)
    <3>1. pc' = pc \/ \E step \in {"sources", "idle"} : pc' = [pc EXCEPT ![q] = step]
      BY <2>8 DEF InsertCategories, Rollback, Goto, Answer
    <3> QED
      BY <1>1, <3>1 DEF TypeOK
  <2>9. CASE InsertSources(q)
    BY <1>1, <2>9 DEF InsertSources, Goto, TypeOK
  <2>10. CASE InsertRelations(q)
    <3>1. pc' = pc \/ \E step \in {"commit", "idle"} : pc' = [pc EXCEPT ![q] = step]
      BY <2>10 DEF InsertRelations, Rollback, Goto, Answer
    <3> QED
      BY <1>1, <3>1 DEF TypeOK
  <2> QED
    BY <1>5, <2>1, <2>2, <2>3, <2>4, <2>5, <2>6, <2>7, <2>8, <2>9, <2>10 DEF Statement
<1>6. ASSUME NEW c \in Categories, CreateCategory(c)
      PROVE  FALSE
  BY <1>6 DEF CreateCategory, slotVars
<1>7. CASE Crash
  BY <1>7 DEF Crash
<1>8. CASE UNCHANGED vars
  BY <1>8 DEF vars, slotVars
<1> QED
  BY <1>2, <1>3, <1>4, <1>5, <1>6, <1>7, <1>8 DEF Next, Statement

\* What a write commits is the input itself.
THEOREM CommitsAreAsSent == Spec => CommittedAsSent
<1>1. IInv /\ [Next]_vars => [AsSent]_vars
  BY AsSentStep
<1> QED
  BY <1>1, Invariance, PTL DEF Spec, CommittedAsSent, AsSent

-----------------------------------------------------------------------------
(* ArticleStore implements Catalog.                                        *)

\* The empty tables are the empty catalog.
LEMMA CatalogStart == Init => C!CatalogInit
<1> SUFFICES ASSUME Init PROVE C!CatalogInit
  OBVIOUS
<1>1. committed.used = {} /\ committed.categories = InitialCategories
  BY DEF Init
<1>2. \A a \in ArticleIds : committed.articles[a] = None
  BY DEF Init
<1> QED
  BY <1>1, <1>2 DEF C!CatalogInit, CommittedCatalog, CatalogOf

\* The commit of a create or update is the catalog's write.
LEMMA WriteIsOneStep ==
  ASSUME IInv, NEW r \in Requests, Commit(r), input[r] # None
  PROVE  C!CatalogNext
<1> DEFINE a == id[r]
           in == input[r]
<1>1. /\ in \in Inputs /\ a \in ArticleIds
      /\ tables \in Tables /\ Sound(tables)
      /\ RowWritten(a, committed, tables, in)
      /\ Entry(tables, a) = in /\ a \in Present(tables)
      /\ CommittedCatalog' = [CommittedCatalog EXCEPT ![a] = in]
  BY CommitWritten
<1>2. committed' = tables
  BY DEF Commit
<1>3. OnlyOf(a, committed, tables) /\ IdGiven(a, committed, tables) /\ tables.articles[a] = InputRow(in)
  BY <1>1 DEF RowWritten
<1>4. committed'.categories = committed.categories
  BY <1>2, <1>3 DEF OnlyOf
<1>5. \A b \in ArticleIds \ {a} :
        tables.articles[b] = committed.articles[b] /\ (b \in Present(tables) <=> b \in Present(committed))
  BY <1>3 DEF OnlyOf, Present
<1>6. C!Acceptable(a, in)
  <2>1. ASSUME NEW b \in C!Existing \ {a}
        PROVE  CommittedCatalog[b].slug # in.slug
    <3>1. /\ b \in ArticleIds /\ b \in Present(tables)
          /\ CommittedCatalog[b] = Entry(committed, b)
      BY <1>5, CommittedFacts
    <3>2. CommittedCatalog[b].slug = tables.articles[b].slug
      BY <1>5, <3>1 DEF Entry
    <3>3. tables.articles[a].slug = in.slug
      BY <1>3 DEF InputRow
    <3> QED
      BY <1>1, <3>1, <3>2, <3>3 DEF Sound
  <2>2. in.cats = {x \in Categories : <<a, x>> \in tables.articleCategories}
    BY <1>1 DEF Entry
  <2>3. in.related = {b \in ArticleIds : <<a, b>> \in tables.relations}
    BY <1>1 DEF Entry
  <2>4. in.cats \subseteq committed.categories
    BY <1>1, <1>2, <1>4, <2>2 DEF Sound
  <2>5. in.related \subseteq Present(tables) \ {a}
    BY <1>1, <2>3 DEF Sound
  <2>6. Present(tables) \ {a} \subseteq C!Existing \ {a}
    BY <1>5, CommittedFacts DEF Present
  <2> QED
    BY <2>1, <2>4, <2>5, <2>6 DEF C!Acceptable
<1>7. CASE a \in Present(committed) /\ tables.used = committed.used
  BY <1>1, <1>2, <1>4, <1>6, <1>7, CommittedFacts DEF C!CatalogNext, C!WriteArticle, C!UpdateArticle
<1>8. CASE a \in ArticleIds \ committed.used /\ tables.used = committed.used \cup {a}
  BY <1>1, <1>2, <1>4, <1>6, <1>8 DEF C!CatalogNext, C!WriteArticle, C!CreateArticle
<1> QED
  BY <1>3, <1>7, <1>8 DEF IdGiven

\* Every step is a step of the catalog or leaves it alone.
LEMMA CatalogStep ==
  ASSUME IInv, [Next]_vars
  PROVE  [C!CatalogNext]_(C!catalogVars)
<1>1. CASE committed' = committed
  BY <1>1 DEF C!catalogVars, CommittedCatalog, CatalogOf
<1>2. ASSUME NEW r \in Requests, Commit(r)
      PROVE  [C!CatalogNext]_(C!catalogVars)
  <2>1. CASE input[r] # None
    BY <1>2, <2>1, WriteIsOneStep
  <2>2. CASE input[r] = None /\ committed' # committed
    <3>1. /\ id[r] \in Present(committed)
          /\ committed'.used = committed.used /\ committed'.categories = committed.categories
          /\ CommittedCatalog' = [b \in ArticleIds |->
               IF b = id[r] THEN None ELSE C!Unrelate(CommittedCatalog[b], id[r])]
      BY <1>2, <2>2, CommitDeleted
    <3>2. C!DeleteArticle(id[r]) /\ id[r] \in ArticleIds
      BY <3>1, CommittedFacts DEF C!DeleteArticle
    <3> QED
      BY <3>2 DEF C!CatalogNext, C!WriteArticle
  <2> QED
    BY <1>1, <2>1, <2>2
<1>3. ASSUME NEW c \in Categories, CreateCategory(c)
      PROVE  [C!CatalogNext]_(C!catalogVars)
  <2>1. tables = committed /\ committed \in Tables /\ c \notin committed.categories
    BY <1>3 DEF CreateCategory, IInv, BaseInv, QuietInv, TypeOK
  <2>2. committed' = [committed EXCEPT !.categories = @ \cup {c}]
    BY <1>3, <2>1 DEF CreateCategory
  <2>3. /\ committed'.articles = committed.articles
        /\ committed'.used = committed.used
        /\ committed'.categories = committed.categories \cup {c}
        /\ committed'.articleCategories = committed.articleCategories
        /\ committed'.sources = committed.sources
        /\ committed'.articleSources = committed.articleSources
        /\ committed'.relations = committed.relations
    BY <2>1, <2>2 DEF Tables
  <2>4. CommittedCatalog' = CommittedCatalog
    BY <2>3 DEF CommittedCatalog, CatalogOf
  <2> QED
    BY <2>1, <2>3, <2>4 DEF C!CatalogNext, C!CreateCategory
<1> QED
  BY <1>1, <1>2, <1>3, CommittedChanges

\* Statement by statement, with its early returns, failures and crashes, a write of an
\* article is one step of the catalog or none.
THEOREM StoreImplementsCatalog == Spec => ImplementsCatalog
<1>1. IInv /\ [Next]_vars => [C!CatalogNext]_(C!catalogVars)
  BY CatalogStep
<1> QED
  BY <1>1, CatalogStart, Invariance, PTL DEF Spec, ImplementsCatalog, C!CatalogSpec
=============================================================================
