---------------------------- MODULE ArticleReads ----------------------------
(***************************************************************************)
(* Reading articles.  An article is assembled from five queries, a list    *)
(* from one query for ids and five more for each (repository.go: get, List *)
(* and ListPublished).  The single connection is free between two queries, *)
(* so writes, each a transaction and here one step of Catalog, fall in     *)
(* between.  The requests that read are                                    *)
(*   get       GET /api/v1/articles/{key}                                  *)
(*   list      GET /api/v1/articles                                        *)
(*   admin     the admin's list of articles                                *)
(*   page      the public page of an article                               *)
(*   home      the public home page                                        *)
(*   category  the public page of a category                               *)
(* The fifth query, for media rows, is left out, and so are the order in   *)
(* which a list is shown, its filter by title and the navigation bar's     *)
(* categories.                                                             *)
(***************************************************************************)
EXTENDS Catalog, Naturals, FiniteSets

CONSTANTS
  Readers,     \* requests that read
  Newer,       \* the pairs of articles of which the first has the later created_at, or the
               \* greater id if they are equal; no update changes either, and clocks may be
               \* set back between two articles
  Limit,       \* the articles a list has at most: 100
  MaxWrites    \* bound: number of writes of articles in a behaviour

ASSUME MaxWritesAssumption == MaxWrites \in Nat
ASSUME LimitAssumption == Limit \in Nat \ {0}
ASSUME NewerAssumption ==
  /\ \A a, b \in ArticleIds : a # b <=> <<a, b>> \in Newer \/ <<b, a>> \in Newer
  /\ \A a, b, c \in ArticleIds : <<a, b>> \in Newer /\ <<b, c>> \in Newer => <<a, c>> \in Newer

VARIABLES
  writes,    \* number of writes so far
  at,        \* next query of each reader
  kind,      \* what it reads
  wanted,    \* by slug, or of which category, or None
  ids,       \* the articles it has still to read
  current,   \* the article it is reading
  shown,     \* the articles it has read
  status,    \* HTTP status its request ended with, 0 while it runs
  faulted,   \* a query of it failed, reported or not
  window     \* history: the catalogs there have been while it ran

readVars == <<kind, wanted, ids, current, shown, status, faulted>>
vars     == <<catalogVars, writes, at, readVars, window>>

Kinds       == {"get", "list", "admin", "page", "home", "category"}
PublicLists == {"home", "category"}
Lists       == {"list", "admin"} \cup PublicLists
Queries     == {"idle", "category", "select", "slug", "row", "cats", "urls", "related"}

\* content.Article: the article with its id.
View == [id : ArticleIds, slug : Slugs, status : Statuses, cats : SUBSET Categories,
         urls : SUBSET Urls, related : SUBSET ArticleIds]

TypeOK ==
  /\ CatalogTypeOK
  /\ writes \in 0 .. MaxWrites
  /\ at \in [Readers -> Queries]
  /\ kind \in [Readers -> Kinds]
  /\ wanted \in [Readers -> Slugs \cup Categories \cup {None}]
  /\ ids \in [Readers -> SUBSET ArticleIds]
  /\ current \in [Readers -> View \cup {None}]
  /\ shown \in [Readers -> SUBSET View]
  /\ status \in [Readers -> {0, 200, 404, 500}]
  /\ faulted \in [Readers -> BOOLEAN]
  /\ window \in [Readers -> SUBSET [ArticleIds -> Article \cup {None}]]

Init ==
  /\ CatalogInit
  /\ writes = 0
  /\ at = [r \in Readers |-> "idle"]
  /\ kind = [r \in Readers |-> "get"]
  /\ wanted = [r \in Readers |-> None]
  /\ ids = [r \in Readers |-> {}]
  /\ current = [r \in Readers |-> None]
  /\ shown = [r \in Readers |-> {}]
  /\ status = [r \in Readers |-> 0]
  /\ faulted = [r \in Readers |-> FALSE]
  /\ window = [r \in Readers |-> {}]

\* The articles of catalog c that the query of a request of kind k asks for.
Matching(k, w, c) ==
  {a \in ArticleIds :
     /\ c[a] # None
     /\ k \in {"page", "home", "category"} => c[a].status = "published"
     /\ k = "category" => w \in c[a].cats
     /\ k \in {"get", "list", "page"} /\ w # None => c[a].slug = w}

\* ORDER BY created_at DESC, id DESC LIMIT 100
Newest(all) == {a \in all : Cardinality({b \in all : <<b, a>> \in Newer}) < Limit}

\* The articles the request is about: in a list, only the newest.
Selected(k, w, c) == IF k \in Lists THEN Newest(Matching(k, w, c)) ELSE Matching(k, w, c)

-----------------------------------------------------------------------------
\* An editor's write, seen by every request that is running.
Write ==
  /\ writes < MaxWrites
  /\ WriteArticle
  /\ writes' = writes + 1
  /\ window' = [r \in Readers |->
                  IF at[r] = "idle" THEN window[r] ELSE window[r] \cup {catalog'}]
  /\ UNCHANGED <<at, readVars>>

AddCategory ==
  /\ \E c \in Categories : CreateCategory(c)
  /\ UNCHANGED <<writes, at, readVars, window>>

Begin(r, k, w, first, todo) ==
  /\ at[r] = "idle"
  /\ at' = [at EXCEPT ![r] = first]
  /\ kind' = [kind EXCEPT ![r] = k]
  /\ wanted' = [wanted EXCEPT ![r] = w]
  /\ ids' = [ids EXCEPT ![r] = todo]
  /\ current' = [current EXCEPT ![r] = None]
  /\ shown' = [shown EXCEPT ![r] = {}]
  /\ status' = [status EXCEPT ![r] = 0]
  /\ faulted' = [faulted EXCEPT ![r] = FALSE]
  /\ window' = [window EXCEPT ![r] = {catalog}]
  /\ UNCHANGED <<catalogVars, writes>>

BeginRead(r) ==
  \/ \E a \in ArticleIds : Begin(r, "get", None, "row", {a})
  \/ \E s \in Slugs, k \in {"get", "page"} : Begin(r, k, s, "slug", {})
  \/ \E w \in Slugs \cup {None} : Begin(r, "list", w, "select", {})
  \/ \E k \in {"admin", "home"} : Begin(r, k, None, "select", {})
  \/ \E c \in Categories : Begin(r, "category", c, "category", {})

unreadVars == <<catalogVars, writes, kind, wanted, window>>

End(r, code) ==
  /\ at' = [at EXCEPT ![r] = "idle"]
  /\ status' = [status EXCEPT ![r] = code]
  /\ UNCHANGED <<unreadVars, ids, current, shown>>

\* Variant: a missing row is answered like an input that is not valid.
MissStatus_Invalid(k) == IF k \in PublicLists \cup {"admin"} THEN 500 ELSE 422

\* A row that is not there: ErrNotFound, which the lists of pages answer like any error.
MissStatus(k) == IF k \in PublicLists \cup {"admin"} THEN 500 ELSE 404

-----------------------------------------------------------------------------
(* The queries, one step each.                                             *)

LookupCategory(r) ==
  /\ at[r] = "category"
  /\ \/ /\ wanted[r] \in categories
        /\ at' = [at EXCEPT ![r] = "select"]
        /\ UNCHANGED <<unreadVars, ids, current, shown, status>>
     \/ wanted[r] \notin categories /\ End(r, 404)
  /\ UNCHANGED faulted

\* The ids of a list.  The loops over the rows do not ask rows.Err(): a query that
\* fails on its way just yields fewer rows.
Select(r) ==
  /\ at[r] = "select"
  /\ LET all == Selected(kind[r], wanted[r], catalog) IN
       \E some \in SUBSET all :
         /\ ids' = [ids EXCEPT ![r] = some]
         /\ faulted' = [faulted EXCEPT ![r] = some # all]
  /\ at' = [at EXCEPT ![r] = "row"]
  /\ UNCHANGED <<unreadVars, current, shown, status>>

RowOf(a) == [id |-> a, slug |-> catalog[a].slug, status |-> catalog[a].status,
             cats |-> {}, urls |-> {}, related |-> {}]

ReadSlug(r) ==
  /\ at[r] = "slug"
  /\ \/ \E a \in Existing :
          /\ catalog[a].slug = wanted[r]
          /\ current' = [current EXCEPT ![r] = RowOf(a)]
          /\ at' = [at EXCEPT ![r] = "cats"]
          /\ UNCHANGED <<unreadVars, ids, shown, status>>
     \/ /\ \A a \in Existing : catalog[a].slug # wanted[r]
        /\ End(r, 404)
  /\ UNCHANGED faulted

\* Variant: a list goes on without an article that is gone.
ReadRow_Skip(r) ==
  /\ at[r] = "row"
  /\ \E a \in ids[r] :
       \/ /\ a \in Existing
          /\ ids' = [ids EXCEPT ![r] = @ \ {a}]
          /\ current' = [current EXCEPT ![r] = RowOf(a)]
          /\ at' = [at EXCEPT ![r] = "cats"]
          /\ UNCHANGED <<unreadVars, shown, status>>
       \/ /\ a \notin Existing /\ kind[r] \in Lists
          /\ ids' = [ids EXCEPT ![r] = @ \ {a}]
          /\ UNCHANGED <<unreadVars, at, current, shown, status>>
       \/ a \notin Existing /\ kind[r] \notin Lists /\ End(r, 404)
  /\ UNCHANGED faulted

\* Variant: a row that is no longer published counts as missing.
ReadRow_Recheck(r) ==
  /\ at[r] = "row"
  /\ \E a \in ids[r] :
       \/ /\ a \in Existing
          /\ kind[r] \in PublicLists => catalog[a].status = "published"
          /\ ids' = [ids EXCEPT ![r] = @ \ {a}]
          /\ current' = [current EXCEPT ![r] = RowOf(a)]
          /\ at' = [at EXCEPT ![r] = "cats"]
          /\ UNCHANGED <<unreadVars, shown, status>>
       \/ /\ a \in Existing => kind[r] \in PublicLists /\ catalog[a].status # "published"
          /\ End(r, MissStatus(kind[r]))
  /\ UNCHANGED faulted

\* GetByID, for one article or for the next of a list.  One that is gone fails the list.
ReadRow(r) ==
  /\ at[r] = "row"
  /\ \E a \in ids[r] :
       \/ /\ a \in Existing
          /\ ids' = [ids EXCEPT ![r] = @ \ {a}]
          /\ current' = [current EXCEPT ![r] = RowOf(a)]
          /\ at' = [at EXCEPT ![r] = "cats"]
          /\ UNCHANGED <<unreadVars, shown, status>>
       \/ a \notin Existing /\ End(r, MissStatus(kind[r]))
  /\ UNCHANGED faulted

\* Variant: the query forgets its WHERE clause.
LinkedTo_Any(a, field) == UNION {IF catalog[b] = None THEN {} ELSE catalog[b][field] : b \in ArticleIds}

\* The rows that link tables hold for an article; a deleted one has none.
LinkedTo(a, field) == IF catalog[a] = None THEN {} ELSE catalog[a][field]

\* One of the three queries for links, and what follows it.
ReadLinks(r, field, next) ==
  /\ at[r] = field
  /\ LET all == LinkedTo(current[r].id, field) IN
       \E some \in SUBSET all :
         /\ current' = [current EXCEPT ![r][field] = some]
         /\ faulted' = [faulted EXCEPT ![r] = @ \/ some # all]
  /\ at' = [at EXCEPT ![r] = next]
  /\ UNCHANGED <<unreadVars, ids, shown, status>>

ReadCategories(r) == ReadLinks(r, "cats", "urls")
ReadSources(r)    == ReadLinks(r, "urls", "related")

\* The last query.  GetPublishedBySlug looks at the status of what it has read.
ReadRelations(r) ==
  /\ at[r] = "related"
  /\ \E some \in SUBSET LinkedTo(current[r].id, "related") :
       LET article == [current[r] EXCEPT !.related = some] IN
       /\ faulted' = [faulted EXCEPT ![r] = @ \/ some # LinkedTo(current[r].id, "related")]
       /\ \/ /\ kind[r] = "page" /\ article.status # "published"
             /\ End(r, 404)
          \/ /\ ~(kind[r] = "page" /\ article.status # "published")
             /\ shown' = [shown EXCEPT ![r] = @ \cup {article}]
             /\ current' = [current EXCEPT ![r] = None]
             /\ at' = [at EXCEPT ![r] = "row"]
             /\ UNCHANGED <<unreadVars, ids, status>>

\* Nothing is left to read.
Finish(r) ==
  /\ at[r] = "row"
  /\ ids[r] = {}
  /\ End(r, 200)
  /\ UNCHANGED faulted

\* A query reports an error.
ReadFails(r) ==
  /\ at[r] # "idle"
  /\ End(r, 500)
  /\ faulted' = [faulted EXCEPT ![r] = TRUE]

Read(r) == \/ LookupCategory(r) \/ Select(r) \/ ReadSlug(r) \/ ReadRow(r) \/ ReadCategories(r)
           \/ ReadSources(r) \/ ReadRelations(r) \/ Finish(r) \/ ReadFails(r)

Next == Write \/ AddCategory \/ \E r \in Readers : BeginRead(r) \/ Read(r)

Spec == Init /\ [][Next]_vars

-----------------------------------------------------------------------------
Done(r)     == at[r] = "idle" /\ status[r] = 200
ShownIds(r) == {x.id : x \in shown[r]}
Sometime(r) == {a \in ArticleIds : \E c \in window[r] : a \in Selected(kind[r], wanted[r], c)}

\* A list, whatever is written while it is put together article by article, has exactly
\* the articles that belonged to it at one moment of the request (some of them, if a query
\* failed): a write in between adds none and leaves none out.  A single article that is
\* shown was the one asked for at some moment: a page shows none that was a draft
\* throughout.
ListsAreOfOneMoment ==
  \A r \in Readers : Done(r) =>
    IF kind[r] \in Lists
    THEN \E c \in window[r] : /\ ShownIds(r) \subseteq Selected(kind[r], wanted[r], c)
                              /\ ~faulted[r] => Selected(kind[r], wanted[r], c) \subseteq ShownIds(r)
    ELSE ShownIds(r) \subseteq Sometime(r)

\* An article may be a mixture of what it was before and after a write, but each part
\* is what it was at some moment of the request; if nothing was written meanwhile, the
\* article is exact.
PartsWereTrue ==
  \A r \in Readers : Done(r) /\ ~faulted[r] =>
    \A x \in shown[r] :
      /\ \E c \in window[r] :
           c[x.id] # None /\ x.slug = c[x.id].slug /\ x.status = c[x.id].status
      /\ \A field \in {"cats", "urls", "related"} : \E c \in window[r] :
           x[field] = IF c[x.id] = None THEN {} ELSE c[x.id][field]

\* The articles of catalog c that a request for one article, by slug or by id, may find.
Candidates(r, c) == {a \in Selected(kind[r], wanted[r], c) : wanted[r] = None => a \in ids[r]}

\* Request r is answered in this step, and none of its queries has failed.
Answered(r) == at[r] # "idle" /\ at'[r] = "idle" /\ ~faulted'[r]

MissIsExplained(r) ==
  /\ kind[r] \in Lists /\ status'[r] = MissStatus(kind[r]) =>
       \E a \in ids[r] \ Existing, c \in window[r] : a \in Selected(kind[r], wanted[r], c)
  /\ kind[r] \in {"get", "page"} /\ status'[r] = 404 =>
       \E c \in window[r] : Candidates(r, c) = {}
  /\ kind[r] \in {"get", "list", "page"} => status'[r] # 500

\* Without a failing query, a list is answered with an error only when one of its own
\* articles, which it had at some moment of the request, is deleted by then, and a missing
\* article was missing at some moment of the request.
MissesAreExplained == [][\A r \in Readers : Answered(r) => MissIsExplained(r)]_vars

-----------------------------------------------------------------------------
(* "public pages expose only published articles" (README.md).              *)

\* No public list shows an article whose status says draft.
ListsShowPublishedOnly ==
  \A r \in Readers : Done(r) /\ kind[r] \in PublicLists => \A x \in shown[r] : x.status = "published"

\* The public page of an article names no other that was a draft all the time.
LinksNamePublishedOnly ==
  \A r \in Readers : Done(r) /\ kind[r] = "page" =>
    \A x \in shown[r], b \in ArticleIds :
      b \in x.related => \E c \in window[r] : c[b] # None /\ c[b].status = "published"
=============================================================================
