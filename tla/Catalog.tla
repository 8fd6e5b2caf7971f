------------------------------ MODULE Catalog ------------------------------
(***************************************************************************)
(* The articles of the blog as an editor thinks of them: each article with *)
(* its categories, sources and relations is one value, written and deleted *)
(* in one step (docs/hermes.md, "Create/update is transactional").         *)
(* ArticleStore is shown to implement this; ArticleReads reads it.         *)
(***************************************************************************)
CONSTANTS
  ArticleIds,
  Slugs,        \* article slugs
  Categories,   \* category slugs
  InitialCategories,   \* those the migrations create
  Urls,         \* source urls
  Inputs,       \* what clients may send to create or update an article
  None          \* no article

Statuses == {"published", "draft"}   \* "draft": any status but published

Article == [slug : Slugs, status : Statuses, cats : SUBSET Categories,
            urls : SUBSET Urls, related : SUBSET ArticleIds]

\* content.ArticleInput after ValidateArticle: no duplicates, but slugs of
\* categories and ids of articles that need not exist.
ASSUME InputsAssumption == Inputs \subseteq Article
ASSUME NoneAssumption == None \notin Article \cup Slugs
ASSUME InitialAssumption == InitialCategories \subseteq Categories

VARIABLES
  catalog,     \* article id -> article, or None
  used,        \* ids of the articles there have ever been
  categories   \* slugs of the existing categories

catalogVars == <<catalog, used, categories>>

CatalogTypeOK ==
  /\ catalog \in [ArticleIds -> Article \cup {None}]
  /\ used \subseteq ArticleIds
  /\ categories \subseteq Categories

Existing == {a \in ArticleIds : catalog[a] # None}

CatalogInit ==
  /\ catalog = [a \in ArticleIds |-> None]
  /\ used = {}
  /\ categories = InitialCategories

\* The slug is free, the categories exist, and so do the related articles, which do
\* not include the article itself.
Acceptable(a, in) ==
  /\ \A b \in Existing \ {a} : catalog[b].slug # in.slug
  /\ in.cats \subseteq categories
  /\ in.related \subseteq Existing \ {a}

\* An id is given once (AUTOINCREMENT).
CreateArticle(a, in) ==
  /\ a \notin used
  /\ Acceptable(a, in)
  /\ catalog' = [catalog EXCEPT ![a] = in]
  /\ used' = used \cup {a}
  /\ UNCHANGED categories

UpdateArticle(a, in) ==
  /\ a \in Existing
  /\ Acceptable(a, in)
  /\ catalog' = [catalog EXCEPT ![a] = in]
  /\ UNCHANGED <<used, categories>>

\* What deleting article a makes of article x.
Unrelate(x, a) == IF x = None THEN None ELSE [x EXCEPT !.related = @ \ {a}]

DeleteArticle(a) ==
  /\ a \in Existing
  /\ catalog' = [b \in ArticleIds |-> IF b = a THEN None ELSE Unrelate(catalog[b], a)]
  /\ UNCHANGED <<used, categories>>

CreateCategory(c) ==
  /\ c \notin categories
  /\ categories' = categories \cup {c}
  /\ UNCHANGED <<catalog, used>>

WriteArticle ==
  \/ \E a \in ArticleIds, in \in Inputs : CreateArticle(a, in) \/ UpdateArticle(a, in)
  \/ \E a \in ArticleIds : DeleteArticle(a)

CatalogNext == WriteArticle \/ \E c \in Categories : CreateCategory(c)

CatalogSpec == CatalogInit /\ [][CatalogNext]_catalogVars

\* No two articles have one slug, and articles are related to existing articles only,
\* never to themselves.
CatalogConsistent ==
  /\ Existing \subseteq used
  /\ \A a, b \in Existing : catalog[a].slug = catalog[b].slug => a = b
  /\ \A a \in Existing : /\ catalog[a].cats \subseteq categories
                        /\ catalog[a].related \subseteq Existing \ {a}
=============================================================================
