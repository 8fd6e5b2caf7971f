----------------------------- MODULE ReadProofs -----------------------------
(***************************************************************************)
(* Proofs about Catalog and ArticleReads, for any number of readers,       *)
(* articles and writes: what an article or a list that was put together    *)
(* query by query shows of the catalogs there have been meanwhile.         *)
(***************************************************************************)
EXTENDS ArticleReads, TLAPS

-----------------------------------------------------------------------------
(* The inductive invariant.  Below, W is the window of a request, k and w  *)
(* its kind and what it wants.                                             *)

Unique(c) ==
  \A a, b \in ArticleIds : c[a] # None /\ c[b] # None /\ c[a].slug = c[b].slug => a = b

Reading == {"cats", "urls", "related"}

\* Slug and status of x are those of one moment.
RowTrue(x, W) ==
  \E c \in W : c[x.id] # None /\ x.slug = c[x.id].slug /\ x.status = c[x.id].status

FieldTrue(x, f, W) ==
  \E c \in W : x[f] = IF c[x.id] = None THEN {} ELSE c[x.id][f]

In(k, w, W) == {a \in ArticleIds : \E c \in W : a \in Selected(k, w, c)}

Ids(seen) == {x.id : x \in seen}

\* The articles a list has: still to be read, being read, and read.
Have(step, todo, cur, seen) ==
  todo \cup Ids(seen) \cup (IF step \in Reading THEN {cur.id} ELSE {})

\* What the control state of a request tells of its kind.
ControlInv(step, k, w, todo, seen) ==
  /\ step = "category" => k = "category"
  /\ step = "select" => k \in Lists
  /\ step = "slug" => k \in {"get", "page"} /\ w # None
  /\ step \in {"category", "select", "slug"} => todo = {} /\ seen = {}
  /\ k = "page" => w # None
  /\ k \in {"get", "page"} /\ todo # {} => w = None /\ \E a \in ArticleIds : todo = {a}

\* The articles a request has read.
SeenInv(k, w, seen, fault, W) ==
  \A x \in seen :
    /\ RowTrue(x, W)
    /\ x.id \in In(k, w, W)
    /\ ~fault => FieldTrue(x, "cats", W) /\ FieldTrue(x, "urls", W) /\ FieldTrue(x, "related", W)

\* The article it is reading.
CurrentInv(step, k, w, cur, fault, W) ==
  step \in Reading =>
    /\ cur \in View
    /\ RowTrue(cur, W)
    /\ IF k \in Lists THEN cur.id \in In(k, w, W) ELSE w # None => cur.slug = w
    /\ ~fault => /\ step # "cats" => FieldTrue(cur, "cats", W)
                 /\ step = "related" => FieldTrue(cur, "urls", W)

\* Once it is selected, a list has the articles of one moment.
ListInv(step, k, w, todo, cur, seen, st, fault, W) ==
  k \in Lists /\ step \notin {"category", "select"} /\ (step = "idle" => st = 200) =>
    /\ step = "idle" => todo = {}
    /\ \E c \in W : /\ Have(step, todo, cur, seen) \subseteq Selected(k, w, c)
                    /\ ~fault => Selected(k, w, c) \subseteq Have(step, todo, cur, seen)

ReaderInv(r) ==
  /\ \A c \in window[r] : Unique(c)
  /\ at[r] # "idle" => catalog \in window[r]
  /\ ControlInv(at[r], kind[r], wanted[r], ids[r], shown[r])
  /\ SeenInv(kind[r], wanted[r], shown[r], faulted[r], window[r])
  /\ CurrentInv(at[r], kind[r], wanted[r], current[r], faulted[r], window[r])
  /\ ListInv(at[r], kind[r], wanted[r], ids[r], current[r], shown[r], status[r], faulted[r], window[r])

IInv ==
  /\ TypeOK
  /\ CatalogConsistent
  /\ \A r \in Readers : ReaderInv(r)

-----------------------------------------------------------------------------
(* The catalog.                                                            *)

\* An acceptable article put into a consistent catalog.
LEMMA AcceptedIsConsistent ==
  ASSUME CatalogTypeOK, CatalogConsistent, NEW a \in ArticleIds, NEW in \in Inputs, Acceptable(a, in),
         catalog' = [catalog EXCEPT ![a] = in], used' = used \cup {a}, UNCHANGED categories
  PROVE  CatalogTypeOK' /\ CatalogConsistent'
<1>1. in \in Article /\ in # None
  BY InputsAssumption, NoneAssumption
<1>2. CatalogTypeOK'
  BY <1>1 DEF CatalogTypeOK
<1>3. catalog'[a] = in /\ \A b \in ArticleIds \ {a} : catalog'[b] = catalog[b]
  BY DEF CatalogTypeOK
<1>4. Existing' = Existing \cup {a}
  BY <1>1, <1>3 DEF Existing
<1>5. Existing' \subseteq used'
  BY <1>4 DEF CatalogConsistent
<1>6. \A b, c \in Existing' : catalog'[b].slug = catalog'[c].slug => b = c
  BY <1>3, <1>4 DEF CatalogConsistent, Acceptable, Existing
<1>7. \A b \in Existing' : /\ catalog'[b].cats \subseteq categories'
                          /\ catalog'[b].related \subseteq Existing' \ {b}
  BY <1>3, <1>4 DEF CatalogConsistent, Acceptable, Existing
<1> QED
  BY <1>2, <1>5, <1>6, <1>7 DEF CatalogConsistent

\* An article that loses a relation keeps everything else.
LEMMA UnrelatedParts ==
  ASSUME NEW x \in Article, NEW a
  PROVE  /\ Unrelate(x, a) \in Article
         /\ Unrelate(x, a).slug = x.slug
         /\ Unrelate(x, a).cats = x.cats
         /\ Unrelate(x, a).related = x.related \ {a}
BY NoneAssumption DEF Unrelate, Article

\* Deleting an article leaves no relation to it.
LEMMA DeletedIsConsistent ==
  ASSUME CatalogTypeOK, CatalogConsistent, NEW a \in ArticleIds, DeleteArticle(a)
  PROVE  CatalogTypeOK' /\ CatalogConsistent'
<1>1. /\ catalog'[a] = None
      /\ \A b \in ArticleIds \ {a} : catalog'[b] = Unrelate(catalog[b], a)
      /\ DOMAIN catalog' = ArticleIds /\ catalog' = [b \in ArticleIds |-> catalog'[b]]
  BY DEF DeleteArticle
<1>2. \A b \in ArticleIds : catalog[b] = None => Unrelate(catalog[b], a) = None
  BY DEF Unrelate
<1>3. \A b \in Existing : catalog[b] \in Article
  BY DEF Existing, CatalogTypeOK
<1>4. \A b \in Existing \ {a} : catalog'[b] \in Article /\ catalog'[b] # None
  BY <1>1, <1>3, UnrelatedParts, NoneAssumption DEF Existing
<1>5. Existing' = Existing \ {a}
  BY <1>1, <1>2, <1>4 DEF Existing
<1>6. CatalogTypeOK'
  BY <1>1, <1>2, <1>4 DEF CatalogTypeOK, DeleteArticle, Existing
<1>7. \A b \in Existing' : /\ catalog'[b].slug = catalog[b].slug
                          /\ catalog'[b].cats = catalog[b].cats
                          /\ catalog'[b].related = catalog[b].related \ {a}
  BY <1>1, <1>3, <1>5, UnrelatedParts DEF Existing
<1>8. UNCHANGED <<used, categories>>
  BY DEF DeleteArticle
<1>9. \A b, c \in Existing' : catalog'[b].slug = catalog'[c].slug => b = c
  BY <1>5, <1>7 DEF CatalogConsistent
<1>10. \A b \in Existing' : /\ catalog'[b].cats \subseteq categories'
                           /\ catalog'[b].related \subseteq Existing' \ {b}
  BY <1>5, <1>7, <1>8 DEF CatalogConsistent
<1>11. Existing' \subseteq used'
  BY <1>5, <1>8 DEF CatalogConsistent
<1> QED
  BY <1>6, <1>9, <1>10, <1>11 DEF CatalogConsistent

\* Every write keeps the catalog consistent.
LEMMA WriteKeepsCatalog ==
  ASSUME CatalogTypeOK, CatalogConsistent, WriteArticle
  PROVE  CatalogTypeOK' /\ CatalogConsistent'
<1>1. ASSUME NEW a \in ArticleIds, NEW in \in Inputs, CreateArticle(a, in)
      PROVE  CatalogTypeOK' /\ CatalogConsistent'
  BY <1>1, AcceptedIsConsistent DEF CreateArticle
<1>2. ASSUME NEW a \in ArticleIds, NEW in \in Inputs, UpdateArticle(a, in)
      PROVE  CatalogTypeOK' /\ CatalogConsistent'
  <2>1. used' = used \cup {a}
    BY <1>2 DEF UpdateArticle, CatalogConsistent
  <2> QED
    BY <1>2, <2>1, AcceptedIsConsistent DEF UpdateArticle
<1> QED
  BY <1>1, <1>2, DeletedIsConsistent DEF WriteArticle

\* A new category does.
LEMMA CategoryKeepsCatalog ==
  ASSUME CatalogTypeOK, CatalogConsistent, NEW c \in Categories, CreateCategory(c)
  PROVE  CatalogTypeOK' /\ CatalogConsistent'
<1>1. UNCHANGED <<catalog, used>> /\ categories \subseteq categories'
  BY DEF CreateCategory
<1>2. Existing' = Existing
  BY <1>1 DEF Existing
<1>3. CatalogConsistent'
  BY <1>1, <1>2 DEF CatalogConsistent
<1> QED
  BY <1>1, <1>3 DEF CatalogTypeOK, CreateCategory

\* The first catalog is consistent.
LEMMA CatalogStart == CatalogInit => CatalogTypeOK /\ CatalogConsistent
<1> SUFFICES ASSUME CatalogInit PROVE CatalogTypeOK /\ CatalogConsistent
  OBVIOUS
<1>1. Existing = {}
  BY DEF CatalogInit, Existing
<1> QED
  BY <1>1, InitialAssumption DEF CatalogInit, CatalogTypeOK, CatalogConsistent

CatalogInv == CatalogTypeOK /\ CatalogConsistent

\* Whatever is written, slugs are unique and links lead to what exists.
THEOREM CatalogStaysConsistent == CatalogSpec => []CatalogConsistent
<1>1. CatalogInit => CatalogInv
  BY CatalogStart DEF CatalogInv
<1>2. CatalogInv /\ [CatalogNext]_catalogVars => CatalogInv'
  <2> SUFFICES ASSUME CatalogInv, [CatalogNext]_catalogVars PROVE CatalogInv'
    OBVIOUS
  <2>1. CASE CatalogNext
    BY <2>1, WriteKeepsCatalog, CategoryKeepsCatalog DEF CatalogInv, CatalogNext
  <2>2. CASE UNCHANGED catalogVars
    BY <2>2 DEF catalogVars, CatalogInv, CatalogTypeOK, CatalogConsistent, Existing
  <2> QED
    BY <2>1, <2>2
<1>3. CatalogInv => CatalogConsistent
  BY DEF CatalogInv
<1> QED
  BY <1>1, <1>2, <1>3, PTL DEF CatalogSpec

-----------------------------------------------------------------------------
(* The steps of a request.                                                 *)

\* In a consistent catalog no two articles share a slug.
LEMMA ConsistentUnique == CatalogConsistent => Unique(catalog)
BY DEF CatalogConsistent, Existing, Unique

\* A write adds its catalog to the window, which takes nothing away.
LEMMA WindowGrows ==
  ASSUME NEW W, NEW c, NEW V, V = W \cup {c}, NEW k, NEW w
  PROVE  /\ In(k, w, W) \subseteq In(k, w, V)
         /\ \A x : RowTrue(x, W) => RowTrue(x, V)
         /\ \A x, f : FieldTrue(x, f, W) => FieldTrue(x, f, V)
BY DEF In, RowTrue, FieldTrue

\* A request under way stays within its window when the catalog changes: the new one is added to it.
LEMMA ReadersSee ==
  ASSUME IInv, NEW r \in Readers, at[r] # "idle", NEW c, Unique(c),
         at'[r] = at[r], kind'[r] = kind[r], wanted'[r] = wanted[r], ids'[r] = ids[r],
         current'[r] = current[r], shown'[r] = shown[r], status'[r] = status[r],
         faulted'[r] = faulted[r], window'[r] = window[r] \cup {c}, catalog' = c
  PROVE  ReaderInv(r)'
<1> DEFINE W == window[r]
           V == window'[r]
           k == kind[r]
           w == wanted[r]
<1>1. V = W \cup {c}
  OBVIOUS
<1>2. /\ \A d \in W : Unique(d)
      /\ ControlInv(at[r], k, w, ids[r], shown[r])
      /\ SeenInv(k, w, shown[r], faulted[r], W)
      /\ CurrentInv(at[r], k, w, current[r], faulted[r], W)
      /\ ListInv(at[r], k, w, ids[r], current[r], shown[r], status[r], faulted[r], W)
  BY DEF IInv, ReaderInv
<1> HIDE DEF W, V, k, w
<1>3. SeenInv(k, w, shown[r], faulted[r], V)
  BY <1>1, <1>2, WindowGrows DEF SeenInv
<1>4. CurrentInv(at[r], k, w, current[r], faulted[r], V)
  BY <1>1, <1>2, WindowGrows DEF CurrentInv
<1>5. ListInv(at[r], k, w, ids[r], current[r], shown[r], status[r], faulted[r], V)
  BY <1>1, <1>2, WindowGrows DEF ListInv
<1>6. (\A d \in V : Unique(d)) /\ c \in V
  BY <1>1, <1>2
<1> QED
  BY <1>2, <1>3, <1>4, <1>5, <1>6 DEF ReaderInv, V, k, w

\* What request r does concerns no other.
LEMMA OthersStay ==
  ASSUME IInv, NEW q \in Readers, UNCHANGED catalogVars,
         at'[q] = at[q], kind'[q] = kind[q], wanted'[q] = wanted[q], ids'[q] = ids[q],
         current'[q] = current[q], shown'[q] = shown[q], status'[q] = status[q],
         faulted'[q] = faulted[q], window'[q] = window[q]
  PROVE  ReaderInv(q)'
BY DEF IInv, ReaderInv, catalogVars

\* Writes keep the invariant.
LEMMA WriteStep ==
  ASSUME IInv, Write
  PROVE  IInv'
<1>1. CatalogTypeOK' /\ CatalogConsistent'
  BY WriteKeepsCatalog DEF Write, IInv, TypeOK
<1>2. TypeOK'
  <2>1. window' \in [Readers -> SUBSET [ArticleIds -> Article \cup {None}]]
    BY <1>1 DEF Write, IInv, TypeOK, CatalogTypeOK
  <2>2. writes' \in 0 .. MaxWrites
    BY MaxWritesAssumption DEF Write, IInv, TypeOK
  <2> QED
    BY <1>1, <2>1, <2>2 DEF Write, IInv, TypeOK, readVars
<1>3. Unique(catalog)'
  BY <1>1, ConsistentUnique DEF CatalogConsistent, Unique, Existing
<1>4. ASSUME NEW r \in Readers
      PROVE  ReaderInv(r)'
  <2>1. UNCHANGED <<at, kind, wanted, ids, current, shown, status, faulted>>
    BY DEF Write, readVars
  <2>2. CASE at[r] = "idle"
    <3>1. window'[r] = window[r]
      BY <2>2 DEF Write
    <3> QED
      BY <2>1, <2>2, <3>1 DEF IInv, ReaderInv
  <2>3. CASE at[r] # "idle"
    <3>1. window'[r] = window[r] \cup {catalog'}
      BY <2>3 DEF Write
    <3> DEFINE c == catalog'
    <3>2. Unique(c)
      BY <1>3 DEF Unique
    <3>3. catalog' = c /\ window'[r] = window[r] \cup {c}
      BY <3>1
    <3> HIDE DEF c
    <3> QED
      BY <2>1, <2>3, <3>2, <3>3, ReadersSee
  <2> QED
    BY <2>2, <2>3
<1> QED
  BY <1>1, <1>2, <1>4 DEF IInv

\* New categories keep it.
LEMMA CategoryStep ==
  ASSUME IInv, AddCategory
  PROVE  IInv'
<1>1. PICK c \in Categories : CreateCategory(c)
  BY DEF AddCategory
<1>2. CatalogTypeOK' /\ CatalogConsistent'
  BY <1>1, CategoryKeepsCatalog DEF IInv, TypeOK
<1>3. TypeOK'
  BY <1>2 DEF AddCategory, IInv, TypeOK, readVars
<1>4. \A r \in Readers : ReaderInv(r)'
  BY <1>1 DEF AddCategory, CreateCategory, IInv, ReaderInv, readVars
<1> QED
  BY <1>2, <1>3, <1>4 DEF IInv

\* A request begins with a window of the present catalog only.
LEMMA Begun ==
  ASSUME IInv, NEW r \in Readers, NEW k \in Kinds, NEW w \in Slugs \cup Categories \cup {None},
         NEW first \in {"row", "slug", "select", "category"}, NEW todo \in SUBSET ArticleIds,
         Begin(r, k, w, first, todo),
         \/ k = "get" /\ w = None /\ first = "row" /\ \E a \in ArticleIds : todo = {a}
         \/ k \in {"get", "page"} /\ w \in Slugs /\ first = "slug" /\ todo = {}
         \/ k \in Lists /\ first = "select" /\ todo = {}
         \/ k = "category" /\ first = "category" /\ todo = {}
  PROVE  IInv'
<1>1. TypeOK'
  <2>1. CatalogTypeOK'
    BY DEF Begin, IInv, TypeOK, CatalogTypeOK, catalogVars
  <2>2. window' \in [Readers -> SUBSET [ArticleIds -> Article \cup {None}]]
    BY DEF Begin, IInv, TypeOK, CatalogTypeOK
  <2>3. /\ at' \in [Readers -> Queries]
        /\ kind' \in [Readers -> Kinds]
        /\ wanted' \in [Readers -> Slugs \cup Categories \cup {None}]
        /\ ids' \in [Readers -> SUBSET ArticleIds]
        /\ current' \in [Readers -> View \cup {None}]
        /\ shown' \in [Readers -> SUBSET View]
    BY DEF Begin, IInv, TypeOK, Queries
  <2>4. /\ status' \in [Readers -> {0, 200, 404, 500}]
        /\ faulted' \in [Readers -> BOOLEAN]
        /\ writes' \in 0 .. MaxWrites
    BY DEF Begin, IInv, TypeOK
  <2> QED
    BY <2>1, <2>2, <2>3, <2>4 DEF TypeOK
<1>2. /\ at'[r] = first /\ kind'[r] = k /\ wanted'[r] = w /\ ids'[r] = todo
      /\ current'[r] = None /\ shown'[r] = {} /\ status'[r] = 0 /\ window'[r] = {catalog}
      /\ catalog' = catalog
  BY DEF Begin, IInv, TypeOK, catalogVars
<1>3. ReaderInv(r)'
  <2>1. Unique(catalog)
    BY ConsistentUnique DEF IInv
  <2>2. first \notin Reading /\ first # "idle" /\ (first = "row" => k \notin Lists)
    BY DEF Reading, Lists, PublicLists
  <2>3. ControlInv(first, k, w, todo, {})
    BY NoneAssumption DEF ControlInv, Lists, PublicLists
  <2>4. SeenInv(k, w, {}, faulted'[r], window'[r])
    BY DEF SeenInv
  <2>5. CurrentInv(first, k, w, None, faulted'[r], window'[r])
    BY <2>2 DEF CurrentInv
  <2>6. ListInv(first, k, w, todo, None, {}, 0, faulted'[r], window'[r])
    BY <2>2 DEF ListInv, Lists, PublicLists
  <2> QED
    BY <1>2, <2>1, <2>3, <2>4, <2>5, <2>6 DEF ReaderInv
<1>4. ASSUME NEW q \in Readers \ {r}
      PROVE  ReaderInv(q)'
  <2>1. /\ at'[q] = at[q] /\ kind'[q] = kind[q] /\ wanted'[q] = wanted[q] /\ ids'[q] = ids[q]
        /\ current'[q] = current[q] /\ shown'[q] = shown[q] /\ status'[q] = status[q]
        /\ faulted'[q] = faulted[q] /\ window'[q] = window[q] /\ UNCHANGED catalogVars
    BY DEF Begin, IInv, TypeOK
  <2> QED
    BY <2>1, OthersStay
<1>5. CatalogConsistent'
  BY DEF Begin, catalogVars, IInv, CatalogConsistent, Existing
<1> QED
  BY <1>1, <1>3, <1>4, <1>5 DEF IInv

\* Every kind of request begins so.
LEMMA BeginStep ==
  ASSUME IInv, NEW r \in Readers, BeginRead(r)
  PROVE  IInv'
<1>1. ASSUME NEW a \in ArticleIds, Begin(r, "get", None, "row", {a})
      PROVE  IInv'
  BY <1>1, Begun DEF Kinds
<1>2. ASSUME NEW s \in Slugs, NEW k \in {"get", "page"}, Begin(r, k, s, "slug", {})
      PROVE  IInv'
  BY <1>2, Begun DEF Kinds
<1>3. ASSUME NEW w \in Slugs \cup {None}, Begin(r, "list", w, "select", {})
      PROVE  IInv'
  BY <1>3, Begun DEF Kinds, Lists
<1>4. ASSUME NEW k \in {"admin", "home"}, Begin(r, k, None, "select", {})
      PROVE  IInv'
  BY <1>4, Begun DEF Kinds, Lists, PublicLists
<1>5. ASSUME NEW c \in Categories, Begin(r, "category", c, "category", {})
      PROVE  IInv'
  BY <1>5, Begun DEF Kinds
<1> QED
  BY <1>1, <1>2, <1>3, <1>4, <1>5 DEF BeginRead

\* What a step of request r leaves alone.
Frame(r) ==
  /\ UNCHANGED <<catalogVars, writes, kind, wanted, window>>
  /\ \A q \in Readers \ {r} :
       /\ at'[q] = at[q] /\ ids'[q] = ids[q] /\ current'[q] = current[q]
       /\ shown'[q] = shown[q] /\ status'[q] = status[q] /\ faulted'[q] = faulted[q]

\* What remains to be shown of a step of request r.
LEMMA ReaderStep ==
  ASSUME IInv, NEW r \in Readers, Frame(r), TypeOK',
         ControlInv(at'[r], kind[r], wanted[r], ids'[r], shown'[r]),
         SeenInv(kind[r], wanted[r], shown'[r], faulted'[r], window[r]),
         CurrentInv(at'[r], kind[r], wanted[r], current'[r], faulted'[r], window[r]),
         ListInv(at'[r], kind[r], wanted[r], ids'[r], current'[r], shown'[r], status'[r],
                 faulted'[r], window[r]),
         at[r] # "idle"
  PROVE  IInv'
<1>1. CatalogConsistent'
  BY DEF Frame, catalogVars, IInv, CatalogConsistent, Existing
<1>2. catalog' = catalog /\ kind' = kind /\ wanted' = wanted /\ window' = window
  BY DEF Frame, catalogVars
<1>3. (\A c \in window[r] : Unique(c)) /\ catalog \in window[r]
  BY DEF IInv, ReaderInv
<1>4. ReaderInv(r)'
  BY <1>2, <1>3 DEF ReaderInv
<1>5. \A q \in Readers \ {r} : ReaderInv(q)'
  BY <1>2, OthersStay DEF Frame
<1> QED
  BY <1>1, <1>4, <1>5 DEF IInv

\* What request r finds.
LEMMA ReaderFacts ==
  ASSUME IInv, NEW r \in Readers
  PROVE  /\ \A c \in window[r] : Unique(c)
         /\ at[r] # "idle" => catalog \in window[r]
         /\ ControlInv(at[r], kind[r], wanted[r], ids[r], shown[r])
         /\ SeenInv(kind[r], wanted[r], shown[r], faulted[r], window[r])
         /\ CurrentInv(at[r], kind[r], wanted[r], current[r], faulted[r], window[r])
         /\ ListInv(at[r], kind[r], wanted[r], ids[r], current[r], shown[r], status[r],
                    faulted[r], window[r])
         /\ kind[r] \in Kinds /\ ids[r] \in SUBSET ArticleIds /\ shown[r] \in SUBSET View
         /\ faulted[r] \in BOOLEAN
         /\ catalog \in [ArticleIds -> Article \cup {None}]
BY DEF IInv, ReaderInv, TypeOK, CatalogTypeOK

\* Variable f has changed at r only, if at all.
Moved(f, g, r) == g = [f EXCEPT ![r] = g[r]]

\* Only what belongs to request r has changed.
StepOf(r) ==
  /\ UNCHANGED unreadVars
  /\ Moved(at, at', r) /\ Moved(ids, ids', r) /\ Moved(current, current', r)
  /\ Moved(shown, shown', r) /\ Moved(status, status', r) /\ Moved(faulted, faulted', r)

\* A step of one reader leaves the others alone and keeps the types.
LEMMA FrameTypes ==
  ASSUME IInv, NEW r \in Readers, StepOf(r),
         at'[r] \in Queries, ids'[r] \in SUBSET ArticleIds, current'[r] \in View \cup {None},
         shown'[r] \in SUBSET View, status'[r] \in {0, 200, 404, 500}, faulted'[r] \in BOOLEAN
  PROVE  Frame(r) /\ TypeOK'
<1>1. Frame(r)
  BY DEF StepOf, Frame, Moved, unreadVars, IInv, TypeOK
<1>2. at' \in [Readers -> Queries] /\ ids' \in [Readers -> SUBSET ArticleIds]
  BY DEF StepOf, Moved, IInv, TypeOK
<1>3. current' \in [Readers -> View \cup {None}] /\ shown' \in [Readers -> SUBSET View]
  BY DEF StepOf, Moved, IInv, TypeOK
<1>4. status' \in [Readers -> {0, 200, 404, 500}]
  BY DEF StepOf, Moved, IInv, TypeOK
<1>5. faulted' \in [Readers -> BOOLEAN]
  BY DEF StepOf, Moved, IInv, TypeOK
<1> QED
  BY <1>1, <1>2, <1>3, <1>4, <1>5 DEF StepOf, unreadVars, catalogVars, IInv, TypeOK, CatalogTypeOK

\* The types of one reader's variables.
LEMMA RequestTypes ==
  ASSUME IInv, NEW r \in Readers
  PROVE  /\ at[r] \in Queries /\ ids[r] \in SUBSET ArticleIds /\ current[r] \in View \cup {None}
         /\ shown[r] \in SUBSET View /\ status[r] \in {0, 200, 404, 500} /\ faulted[r] \in BOOLEAN
BY DEF IInv, TypeOK

\* What has to be shown of a request that ends.
LEMMA Ended ==
  ASSUME IInv, NEW r \in Readers, at[r] # "idle", NEW st \in {200, 404, 500}, End(r, st),
         Moved(faulted, faulted', r), faulted'[r] \in BOOLEAN, faulted[r] => faulted'[r],
         st = 200 => at[r] = "row" /\ ids[r] = {}
  PROVE  IInv'
<1>1. /\ Frame(r) /\ TypeOK'
      /\ at'[r] = "idle" /\ ids'[r] = ids[r] /\ current'[r] = current[r] /\ shown'[r] = shown[r]
      /\ status'[r] = st
  <2>1. Moved(at, at', r) /\ at'[r] = "idle" /\ Moved(status, status', r) /\ status'[r] = st
    BY DEF End, Moved, IInv, TypeOK
  <2>2. /\ Moved(ids, ids', r) /\ Moved(current, current', r) /\ Moved(shown, shown', r)
        /\ ids'[r] = ids[r] /\ current'[r] = current[r] /\ shown'[r] = shown[r]
    BY DEF End, Moved, IInv, TypeOK
  <2>3. StepOf(r)
    BY <2>1, <2>2 DEF StepOf, End
  <2>4. at'[r] \in Queries /\ status'[r] \in {0, 200, 404, 500}
    BY <2>1 DEF Queries
  <2> QED
    BY <2>1, <2>2, <2>3, <2>4, FrameTypes, RequestTypes
<1> DEFINE fault == faulted'[r]
<1>2. ControlInv("idle", kind[r], wanted[r], ids[r], shown[r])
  BY ReaderFacts DEF ControlInv
<1>3. SeenInv(kind[r], wanted[r], shown[r], fault, window[r])
  BY ReaderFacts DEF SeenInv
<1>4. CurrentInv("idle", kind[r], wanted[r], current[r], fault, window[r])
  BY DEF CurrentInv, Reading
<1>5. ListInv("idle", kind[r], wanted[r], ids[r], current[r], shown[r], st, fault, window[r])
  <2>1. ListInv(at[r], kind[r], wanted[r], ids[r], current[r], shown[r], status[r], faulted[r], window[r])
    BY ReaderFacts
  <2>2. Have("idle", ids[r], current[r], shown[r]) = Have("row", ids[r], current[r], shown[r])
    BY DEF Have, Reading
  <2>3. fault \in BOOLEAN /\ (faulted[r] => fault)
    OBVIOUS
  <2> HIDE DEF fault
  <2> QED
    BY <2>1, <2>2, <2>3 DEF ListInv
<1> QED
  BY <1>1, <1>2, <1>3, <1>4, <1>5, ReaderStep

\* A query that fails.
LEMMA FailStep ==
  ASSUME IInv, NEW r \in Readers, ReadFails(r)
  PROVE  IInv'
<1>1. Moved(faulted, faulted', r) /\ faulted'[r] \in BOOLEAN /\ (faulted[r] => faulted'[r])
  BY DEF ReadFails, Moved, IInv, TypeOK
<1>2. End(r, 500) /\ at[r] # "idle"
  BY DEF ReadFails
<1> DEFINE st == 500
<1>3. st \in {200, 404, 500} /\ st # 200 /\ End(r, st)
  BY <1>2
<1> HIDE DEF st
<1> QED
  BY <1>1, <1>2, <1>3, Ended

\* Looking a category up.
LEMMA LookupStep ==
  ASSUME IInv, NEW r \in Readers, LookupCategory(r)
  PROVE  IInv'
<1>1. at[r] = "category" /\ kind[r] = "category" /\ ids[r] = {} /\ shown[r] = {}
  BY ReaderFacts DEF LookupCategory, ControlInv
<1>2. Moved(faulted, faulted', r) /\ faulted'[r] = faulted[r] /\ faulted[r] \in BOOLEAN
  BY DEF LookupCategory, Moved, IInv, TypeOK
<1>3. CASE End(r, 404)
  BY <1>1, <1>2, <1>3, Ended
<1>4. CASE at' = [at EXCEPT ![r] = "select"] /\ UNCHANGED <<unreadVars, ids, current, shown, status>>
  <2>1. /\ Frame(r) /\ TypeOK'
        /\ at'[r] = "select" /\ ids'[r] = ids[r] /\ current'[r] = current[r] /\ shown'[r] = shown[r]
        /\ status'[r] = status[r] /\ faulted'[r] = faulted[r]
    <3>1. Moved(at, at', r) /\ at'[r] = "select" /\ at'[r] \in Queries
      BY <1>4 DEF Moved, Queries, IInv, TypeOK
    <3>2. /\ Moved(ids, ids', r) /\ Moved(current, current', r) /\ Moved(shown, shown', r)
          /\ Moved(status, status', r)
      BY <1>4 DEF Moved, IInv, TypeOK
    <3>3. StepOf(r)
      BY <1>2, <1>4, <3>1, <3>2 DEF StepOf
    <3> QED
      BY <1>2, <1>4, <3>1, <3>3, FrameTypes, RequestTypes
  <2>2. ControlInv("select", kind[r], wanted[r], ids[r], shown[r])
    BY <1>1 DEF ControlInv, Lists, PublicLists
  <2>3. CurrentInv("select", kind[r], wanted[r], current[r], faulted[r], window[r])
    BY DEF CurrentInv, Reading
  <2>4. ListInv("select", kind[r], wanted[r], ids[r], current[r], shown[r], status[r], faulted[r], window[r])
    BY <1>1 DEF ListInv, Reading
  <2>5. SeenInv(kind[r], wanted[r], shown[r], faulted[r], window[r])
    BY ReaderFacts
  <2> QED
    BY <1>1, <2>1, <2>2, <2>3, <2>4, <2>5, ReaderStep
<1> QED
  BY <1>3, <1>4 DEF LookupCategory

\* The query for ids: what belongs to the list at that moment.
LEMMA SelectStep ==
  ASSUME IInv, NEW r \in Readers, Select(r)
  PROVE  IInv'
<1> DEFINE all == Selected(kind[r], wanted[r], catalog)
           fault == faulted'[r]
<1>1. PICK some \in SUBSET all : /\ ids' = [ids EXCEPT ![r] = some]
                                /\ faulted' = [faulted EXCEPT ![r] = some # all]
  BY DEF Select
<1>2. all \subseteq ArticleIds
  BY DEF Selected, Newest, Matching
<1>3. /\ at[r] = "select" /\ kind[r] \in Lists /\ shown[r] = {} /\ catalog \in window[r]
  BY ReaderFacts DEF Select, ControlInv
<1>4. Moved(faulted, faulted', r) /\ fault \in BOOLEAN /\ (~fault => some = all)
  BY <1>1 DEF Moved, IInv, TypeOK
<1> HIDE DEF fault, all
<1>5. /\ Frame(r) /\ TypeOK'
      /\ at'[r] = "row" /\ ids'[r] = some /\ current'[r] = current[r] /\ shown'[r] = shown[r]
      /\ status'[r] = status[r]
  <2>1. Moved(at, at', r) /\ at'[r] = "row" /\ at'[r] \in Queries
    BY DEF Select, Moved, Queries, IInv, TypeOK
  <2>2. Moved(ids, ids', r) /\ ids'[r] = some
    BY <1>1 DEF Moved, IInv, TypeOK
  <2>3. Moved(current, current', r) /\ Moved(shown, shown', r) /\ Moved(status, status', r)
    BY DEF Select, Moved, IInv, TypeOK
  <2>4. StepOf(r)
    BY <1>4, <2>1, <2>2, <2>3 DEF StepOf, Select
  <2>5. current' = current /\ shown' = shown /\ status' = status /\ some \in SUBSET ArticleIds
    BY <1>2 DEF Select
  <2> QED
    BY <1>4, <2>1, <2>2, <2>4, <2>5, FrameTypes, RequestTypes DEF fault
<1>6. ControlInv("row", kind[r], wanted[r], some, shown[r])
  BY <1>3 DEF ControlInv, Lists, PublicLists
<1>7. SeenInv(kind[r], wanted[r], shown[r], fault, window[r])
  BY <1>3 DEF SeenInv
<1>8. CurrentInv("row", kind[r], wanted[r], current[r], fault, window[r])
  BY DEF CurrentInv, Reading
<1>9. ListInv("row", kind[r], wanted[r], some, current[r], shown[r], status[r], fault, window[r])
  <2>1. Have("row", some, current[r], shown[r]) = some
    BY <1>3 DEF Have, Ids, Reading
  <2> QED
    BY <1>3, <1>4, <2>1 DEF ListInv, all
<1> QED
  BY <1>3, <1>5, <1>6, <1>7, <1>8, <1>9, ReaderStep DEF fault

\* A row is what the catalog holds of the article.
LEMMA RowIsTrue ==
  ASSUME CatalogTypeOK, NEW a \in ArticleIds, catalog[a] # None
  PROVE  /\ RowOf(a) \in View
         /\ RowOf(a).id = a /\ RowOf(a).slug = catalog[a].slug /\ RowOf(a).status = catalog[a].status
<1>1. catalog[a] \in Article
  BY DEF CatalogTypeOK
<1> QED
  BY <1>1 DEF RowOf, View, Article

\* Request r has read the row of article a and turns to its links.
LEMMA Loaded ==
  ASSUME IInv, NEW r \in Readers, at[r] \in {"slug", "row"}, NEW a \in ArticleIds, catalog[a] # None,
         StepOf(r), at'[r] = "cats", current'[r] = RowOf(a), ids'[r] = ids[r] \ {a},
         UNCHANGED <<shown, status, faulted>>,
         kind[r] \in Lists => a \in ids[r],
         kind[r] \notin Lists /\ wanted[r] # None => catalog[a].slug = wanted[r],
         kind[r] \in {"get", "page"} => ids'[r] = {}
  PROVE  IInv'
<1>1. at[r] # "idle" /\ at[r] \notin Reading /\ (at[r] = "slug" => kind[r] \notin Lists)
  BY ReaderFacts DEF ControlInv, Reading, Lists, PublicLists
<1>2. catalog \in window[r]
  BY <1>1, ReaderFacts
<1>3. /\ RowOf(a) \in View
      /\ RowOf(a).id = a /\ RowOf(a).slug = catalog[a].slug /\ RowOf(a).status = catalog[a].status
  BY RowIsTrue DEF IInv, TypeOK
<1> DEFINE x == RowOf(a)
<1> HIDE DEF x
<1>4. current'[r] = x /\ x \in View /\ x.id = a /\ x.slug = catalog[a].slug /\ x.status = catalog[a].status
  BY <1>3 DEF x
<1>5. Frame(r) /\ TypeOK'
  <2>1. "cats" \in Queries /\ ids[r] \ {a} \in SUBSET ArticleIds
    BY RequestTypes DEF Queries
  <2> QED
    BY <1>4, <2>1, FrameTypes, RequestTypes
<1>6. ControlInv("cats", kind[r], wanted[r], ids'[r], shown[r])
  BY ReaderFacts DEF ControlInv
<1>7. SeenInv(kind[r], wanted[r], shown[r], faulted[r], window[r])
  BY ReaderFacts
<1>8. CurrentInv("cats", kind[r], wanted[r], x, faulted[r], window[r])
  <2>1. RowTrue(x, window[r])
    BY <1>2, <1>4 DEF RowTrue
  <2>2. kind[r] \in Lists => x.id \in In(kind[r], wanted[r], window[r])
    <3> SUFFICES ASSUME kind[r] \in Lists PROVE a \in In(kind[r], wanted[r], window[r])
      BY <1>4
    <3>1. at[r] = "row" /\ a \in ids[r]
      BY <1>1
    <3>2. ListInv("row", kind[r], wanted[r], ids[r], current[r], shown[r], status[r], faulted[r], window[r])
      BY <3>1, ReaderFacts
    <3>3. a \in Have("row", ids[r], current[r], shown[r])
      BY <3>1 DEF Have
    <3>4. PICK c \in window[r] : Have("row", ids[r], current[r], shown[r]) \subseteq Selected(kind[r], wanted[r], c)
      BY <3>2 DEF ListInv
    <3>5. a \in Selected(kind[r], wanted[r], c)
      BY <3>3, <3>4
    <3> QED
      BY <3>5 DEF In
  <2> QED
    BY <1>4, <2>1, <2>2 DEF CurrentInv
<1>9. ListInv("cats", kind[r], wanted[r], ids'[r], x, shown[r], status[r], faulted[r], window[r])
  <2> SUFFICES ASSUME kind[r] \in Lists
               PROVE  ListInv("cats", kind[r], wanted[r], ids'[r], x, shown[r], status[r], faulted[r], window[r])
    BY DEF ListInv
  <2>1. at[r] = "row" /\ a \in ids[r]
    BY <1>1
  <2>2. ListInv("row", kind[r], wanted[r], ids[r], current[r], shown[r], status[r], faulted[r], window[r])
    BY <2>1, ReaderFacts
  <2>3. Have("cats", ids'[r], x, shown[r]) = Have("row", ids[r], current[r], shown[r])
    BY <1>4, <2>1 DEF Have, Reading
  <2> QED
    BY <2>2, <2>3 DEF ListInv
<1> QED
  BY <1>1, <1>4, <1>5, <1>6, <1>7, <1>8, <1>9, ReaderStep

\* Reading an article by slug.
LEMMA SlugStep ==
  ASSUME IInv, NEW r \in Readers, ReadSlug(r)
  PROVE  IInv'
<1>1. /\ at[r] = "slug" /\ kind[r] \in {"get", "page"} /\ kind[r] \notin Lists
      /\ wanted[r] # None /\ ids[r] = {} /\ catalog \in window[r]
  BY ReaderFacts DEF ReadSlug, ControlInv, Lists, PublicLists
<1>2. Moved(faulted, faulted', r) /\ faulted'[r] = faulted[r] /\ faulted[r] \in BOOLEAN
  BY DEF ReadSlug, Moved, IInv, TypeOK
<1>3. ASSUME NEW a \in Existing, catalog[a].slug = wanted[r],
             current' = [current EXCEPT ![r] = RowOf(a)], at' = [at EXCEPT ![r] = "cats"],
             UNCHANGED <<unreadVars, ids, shown, status>>
      PROVE  IInv'
  <2>1. Moved(at, at', r) /\ at'[r] = "cats"
    BY <1>3 DEF Moved, IInv, TypeOK
  <2>2. Moved(current, current', r) /\ current'[r] = RowOf(a)
    BY <1>3 DEF Moved, IInv, TypeOK
  <2>3. Moved(ids, ids', r) /\ Moved(shown, shown', r) /\ Moved(status, status', r)
    BY <1>3 DEF Moved, IInv, TypeOK
  <2>4. StepOf(r)
    BY <1>2, <1>3, <2>1, <2>2, <2>3 DEF StepOf
  <2>5. a \in ArticleIds /\ catalog[a] # None
    BY DEF Existing
  <2>6. ids'[r] = {} /\ ids'[r] = ids[r] \ {a}
    BY <1>1, <1>3
  <2>7. UNCHANGED <<shown, status, faulted>>
    BY <1>3 DEF ReadSlug
  <2> QED
    BY <1>1, <1>3, <2>1, <2>2, <2>4, <2>5, <2>6, <2>7, Loaded
<1>4. CASE (\A a \in Existing : catalog[a].slug # wanted[r]) /\ End(r, 404)
  BY <1>1, <1>2, <1>4, Ended
<1> QED
  BY <1>3, <1>4 DEF ReadSlug

\* Reading an article by id.
LEMMA RowStep ==
  ASSUME IInv, NEW r \in Readers, ReadRow(r)
  PROVE  IInv'
<1>1. at[r] = "row" /\ catalog \in window[r]
  BY ReaderFacts DEF ReadRow
<1>2. Moved(faulted, faulted', r) /\ faulted'[r] = faulted[r] /\ faulted[r] \in BOOLEAN
  BY DEF ReadRow, Moved, IInv, TypeOK
<1>3. \A a \in ids[r] : a \in ArticleIds /\ (kind[r] \in {"get", "page"} => ids[r] = {a} /\ wanted[r] = None)
  BY ReaderFacts DEF ControlInv
<1>4. ASSUME NEW a \in ids[r], a \in Existing, ids' = [ids EXCEPT ![r] = @ \ {a}],
             current' = [current EXCEPT ![r] = RowOf(a)], at' = [at EXCEPT ![r] = "cats"],
             UNCHANGED <<unreadVars, shown, status>>
      PROVE  IInv'
  <2>1. Moved(at, at', r) /\ at'[r] = "cats"
    BY <1>4 DEF Moved, IInv, TypeOK
  <2>2. Moved(current, current', r) /\ current'[r] = RowOf(a)
    BY <1>4 DEF Moved, IInv, TypeOK
  <2>3. Moved(ids, ids', r) /\ ids'[r] = ids[r] \ {a}
    BY <1>4 DEF Moved, IInv, TypeOK
  <2>4. Moved(shown, shown', r) /\ Moved(status, status', r)
    BY <1>4 DEF Moved, IInv, TypeOK
  <2>5. StepOf(r)
    BY <1>2, <1>4, <2>1, <2>2, <2>3, <2>4 DEF StepOf
  <2>6. a \in ArticleIds /\ catalog[a] # None
    BY <1>4 DEF Existing
  <2>7. kind[r] \in {"get", "page"} => ids'[r] = {} /\ wanted[r] = None
    BY <1>3, <2>3
  <2>8. UNCHANGED <<shown, status, faulted>>
    BY <1>4 DEF ReadRow
  <2>9. kind[r] \notin Lists => kind[r] \in {"get", "page"}
    BY ReaderFacts DEF Lists, PublicLists, Kinds
  <2> QED
    BY <1>1, <2>1, <2>2, <2>3, <2>5, <2>6, <2>7, <2>8, <2>9, Loaded
<1>5. ASSUME NEW a \in ids[r], a \notin Existing, End(r, MissStatus(kind[r]))
      PROVE  IInv'
  <2> DEFINE st == MissStatus(kind[r])
  <2>1. st \in {200, 404, 500} /\ st # 200 /\ End(r, st)
    BY <1>5 DEF MissStatus
  <2>2. at[r] # "idle"
    BY <1>1
  <2> HIDE DEF st
  <2> QED
    BY <1>2, <2>1, <2>2, Ended
<1> QED
  BY <1>4, <1>5 DEF ReadRow

\* The end of a list.
LEMMA FinishStep ==
  ASSUME IInv, NEW r \in Readers, Finish(r)
  PROVE  IInv'
<1>1. at[r] = "row" /\ ids[r] = {} /\ End(r, 200)
  BY DEF Finish
<1>2. Moved(faulted, faulted', r) /\ faulted'[r] = faulted[r] /\ faulted[r] \in BOOLEAN
  BY DEF Finish, Moved, IInv, TypeOK
<1> QED
  BY <1>1, <1>2, Ended

\* What the queries for links return.
LEMMA LinkTypes ==
  ASSUME CatalogTypeOK, NEW a \in ArticleIds
  PROVE  /\ LinkedTo(a, "cats") \subseteq Categories
         /\ LinkedTo(a, "urls") \subseteq Urls
         /\ LinkedTo(a, "related") \subseteq ArticleIds
<1>1. catalog[a] = None \/ catalog[a] \in Article
  BY DEF CatalogTypeOK
<1> QED
  BY <1>1 DEF LinkedTo, Article

\* Request r has read the links of one kind, and turns to those of the next.
LEMMA LinksStep ==
  ASSUME IInv, NEW r \in Readers, NEW f, NEW next, ReadLinks(r, f, next),
         (f = "cats" /\ next = "urls") \/ (f = "urls" /\ next = "related")
  PROVE  IInv'
<1> DEFINE cur  == current[r]
           cur2 == current'[r]
           all  == LinkedTo(cur.id, f)
           fault == faulted'[r]
<1>1. PICK some \in SUBSET all : /\ current' = [current EXCEPT ![r][f] = some]
                                /\ faulted' = [faulted EXCEPT ![r] = @ \/ some # all]
  BY DEF ReadLinks
<1>2. at[r] = f /\ f \in Reading /\ f # "related" /\ next \in Reading /\ next \in Queries /\ f # "idle"
  BY DEF ReadLinks, Reading, Queries
<1>3. cur \in View /\ cur.id \in ArticleIds /\ catalog \in window[r]
  <2>1. cur \in View /\ catalog \in window[r]
    BY <1>2, ReaderFacts DEF CurrentInv
  <2> QED
    BY <2>1 DEF View
<1>4. /\ f = "cats" => some \in SUBSET Categories
      /\ f = "urls" => some \in SUBSET Urls
  BY <1>3, LinkTypes DEF IInv, TypeOK
<1>5. Moved(current, current', r) /\ cur2 = [cur EXCEPT ![f] = some]
  BY <1>1 DEF Moved, IInv, TypeOK
<1>6. /\ cur2 \in View /\ cur2.id = cur.id /\ cur2.slug = cur.slug /\ cur2.status = cur.status
      /\ cur2[f] = some /\ \A g \in Reading \ {f} : cur2[g] = cur[g]
  <2> HIDE DEF cur, cur2
  <2>1. f # "related" /\ f \in Reading /\ cur \in View /\ cur2 = [cur EXCEPT ![f] = some]
    BY <1>2, <1>3, <1>5
  <2>2. CASE f = "cats"
    BY <1>4, <2>1, <2>2 DEF View, Reading
  <2>3. CASE f = "urls"
    BY <1>4, <2>1, <2>3 DEF View, Reading
  <2> QED
    BY <2>1, <2>2, <2>3 DEF Reading
<1>7. Moved(faulted, faulted', r) /\ fault \in BOOLEAN /\ (~fault => ~faulted[r] /\ some = all)
  BY <1>1 DEF Moved, IInv, TypeOK
<1> HIDE DEF cur, cur2, all, fault
<1>8. /\ Frame(r) /\ TypeOK'
      /\ at'[r] = next /\ ids'[r] = ids[r] /\ shown'[r] = shown[r] /\ status'[r] = status[r]
  <2>1. Moved(at, at', r) /\ at'[r] = next
    BY DEF ReadLinks, Moved, IInv, TypeOK
  <2>2. Moved(ids, ids', r) /\ Moved(shown, shown', r) /\ Moved(status, status', r)
    BY DEF ReadLinks, Moved, IInv, TypeOK
  <2>3. StepOf(r)
    BY <1>5, <1>7, <2>1, <2>2 DEF StepOf, ReadLinks
  <2>4. ids' = ids /\ shown' = shown /\ status' = status
    BY DEF ReadLinks
  <2> QED
    BY <1>2, <1>6, <1>7, <2>1, <2>3, <2>4, FrameTypes, RequestTypes DEF cur2, fault
<1>9. ControlInv(next, kind[r], wanted[r], ids[r], shown[r])
  <2>1. next \notin {"category", "select", "slug"}
    BY <1>2 DEF Reading
  <2> QED
    BY <2>1, ReaderFacts DEF ControlInv
<1>10. SeenInv(kind[r], wanted[r], shown[r], fault, window[r])
  BY <1>7, ReaderFacts DEF SeenInv
<1>11. CurrentInv(f, kind[r], wanted[r], cur, faulted[r], window[r])
  BY <1>2, ReaderFacts DEF cur
<1>12. CurrentInv(next, kind[r], wanted[r], cur2, fault, window[r])
  <2>1. RowTrue(cur, window[r]) => RowTrue(cur2, window[r])
    BY <1>6 DEF RowTrue
  <2>2. ~fault => FieldTrue(cur2, f, window[r])
    BY <1>3, <1>6, <1>7 DEF FieldTrue, LinkedTo, all
  <2>3. f = "urls" /\ ~fault => FieldTrue(cur2, "cats", window[r])
    <3>1. f = "urls" => cur2["cats"] = cur["cats"]
      BY <1>6 DEF Reading
    <3>2. f = "urls" /\ ~fault => FieldTrue(cur, "cats", window[r])
      BY <1>2, <1>7, <1>11 DEF CurrentInv
    <3> QED
      BY <1>6, <3>1, <3>2 DEF FieldTrue
  <2>4. IF kind[r] \in Lists THEN cur2.id \in In(kind[r], wanted[r], window[r])
                             ELSE wanted[r] # None => cur2.slug = wanted[r]
    BY <1>2, <1>6, <1>11 DEF CurrentInv
  <2>5. RowTrue(cur2, window[r])
    BY <1>2, <1>11, <2>1 DEF CurrentInv
  <2> QED
    BY <1>6, <2>2, <2>3, <2>4, <2>5 DEF CurrentInv
<1>13. ListInv(next, kind[r], wanted[r], ids[r], cur2, shown[r], status[r], fault, window[r])
  <2>1. ListInv(f, kind[r], wanted[r], ids[r], cur, shown[r], status[r], faulted[r], window[r])
    BY <1>2, ReaderFacts DEF cur
  <2>2. next \notin {"category", "select", "idle"} /\ f \notin {"category", "select", "idle"}
    BY <1>2 DEF Reading
  <2>3. Have(next, ids[r], cur2, shown[r]) = Have(f, ids[r], cur, shown[r])
    BY <1>2, <1>6 DEF Have
  <2> QED
    BY <1>7, <2>1, <2>2, <2>3 DEF ListInv
<1>14. at[r] # "idle"
  BY <1>2
<1> QED
  BY <1>8, <1>9, <1>10, <1>12, <1>13, <1>14, ReaderStep DEF cur2, fault

\* The last query for an article: now it counts as read.
LEMMA RelationsStep ==
  ASSUME IInv, NEW r \in Readers, ReadRelations(r)
  PROVE  IInv'
<1> DEFINE cur  == current[r]
           all  == LinkedTo(cur.id, "related")
           fault == faulted'[r]
           k == kind[r]
           w == wanted[r]
           W == window[r]
<1>1. PICK some \in SUBSET all :
        LET article == [current[r] EXCEPT !.related = some] IN
        /\ faulted' = [faulted EXCEPT ![r] = @ \/ some # all]
        /\ \/ k = "page" /\ article.status # "published" /\ End(r, 404)
           \/ /\ ~(k = "page" /\ article.status # "published")
              /\ shown' = [shown EXCEPT ![r] = @ \cup {article}]
              /\ current' = [current EXCEPT ![r] = None]
              /\ at' = [at EXCEPT ![r] = "row"]
              /\ UNCHANGED <<unreadVars, ids, status>>
  BY DEF ReadRelations
<1> DEFINE article == [cur EXCEPT !["related"] = some]
<1>2. at[r] = "related"
  BY DEF ReadRelations
<1>3. /\ CurrentInv("related", k, w, cur, faulted[r], W)
      /\ catalog \in W /\ \A c \in W : Unique(c)
      /\ ControlInv("related", k, w, ids[r], shown[r])
      /\ SeenInv(k, w, shown[r], faulted[r], W)
      /\ ListInv("related", k, w, ids[r], cur, shown[r], status[r], faulted[r], W)
  BY <1>2, ReaderFacts
<1>4. cur \in View /\ cur.id \in ArticleIds /\ cur.status \in Statuses
  <2>1. cur \in View
    BY <1>3 DEF CurrentInv, Reading
  <2> QED
    BY <2>1 DEF View
<1>5. some \in SUBSET ArticleIds
  BY <1>4, LinkTypes DEF IInv, TypeOK
<1>6. Moved(faulted, faulted', r) /\ fault \in BOOLEAN /\ (~fault => ~faulted[r] /\ some = all)
  <2>1. faulted' = [faulted EXCEPT ![r] = @ \/ some # all]
    BY <1>1
  <2> HIDE DEF all
  <2> QED
    BY <2>1 DEF Moved, IInv, TypeOK
<1>7. /\ article \in View /\ article.id = cur.id /\ article.slug = cur.slug /\ article.status = cur.status
      /\ article["related"] = some /\ article["cats"] = cur["cats"] /\ article["urls"] = cur["urls"]
  <2>1. cur \in View /\ "related" \in Reading
    BY <1>3 DEF CurrentInv, Reading
  <2> HIDE DEF cur
  <2> QED
    BY <1>5, <2>1 DEF View
<1>8. CASE k = "page" /\ article.status # "published" /\ End(r, 404)
  BY <1>2, <1>6, <1>8, Ended
<1>9. CASE /\ ~(k = "page" /\ article.status # "published")
           /\ shown' = [shown EXCEPT ![r] = @ \cup {article}]
           /\ current' = [current EXCEPT ![r] = None]
           /\ at' = [at EXCEPT ![r] = "row"]
           /\ UNCHANGED <<unreadVars, ids, status>>
  <2> DEFINE seen == shown[r] \cup {article}
  <2>1. Moved(at, at', r) /\ at'[r] = "row"
    BY <1>9 DEF Moved, IInv, TypeOK
  <2>2. Moved(current, current', r) /\ current'[r] = None
    BY <1>9 DEF Moved, IInv, TypeOK
  <2>3. Moved(shown, shown', r) /\ shown'[r] = seen
    BY <1>9 DEF Moved, IInv, TypeOK
  <2>4. Moved(ids, ids', r) /\ Moved(status, status', r)
    BY <1>9 DEF Moved, IInv, TypeOK
  <2>5. StepOf(r)
    BY <1>6, <1>9, <2>1, <2>2, <2>3, <2>4 DEF StepOf
  <2>6. seen \in SUBSET View
    BY <1>7, RequestTypes
  <2>7. RowTrue(article, W) /\ article.id \in In(k, w, W)
    <3>1. PICK c \in W : c[cur.id] # None /\ cur.slug = c[cur.id].slug /\ cur.status = c[cur.id].status
      BY <1>3 DEF CurrentInv, RowTrue, Reading
    <3>2. RowTrue(article, W)
      BY <1>7, <3>1 DEF RowTrue
    <3>3. CASE k \in Lists
      BY <1>3, <1>7, <3>2, <3>3 DEF CurrentInv, Reading
    <3>4. CASE k \notin Lists
      <4>1. (w # None => c[cur.id].slug = w) /\ k \in {"get", "page"}
        BY <1>3, <3>1, <3>4, ReaderFacts DEF CurrentInv, Reading, Kinds, Lists, PublicLists
      <4>2. k = "page" => c[cur.id].status = "published"
        BY <1>7, <1>9, <3>1
      <4>3. cur.id \in Selected(k, w, c)
        BY <1>4, <3>1, <4>1, <4>2 DEF Selected, Matching, Lists, PublicLists
      <4> QED
        BY <1>4, <1>7, <3>2, <4>3 DEF In
    <3> HIDE DEF article
    <3> QED
      BY <3>2, <3>3, <3>4
  <2>8. ~fault => FieldTrue(article, "cats", W) /\ FieldTrue(article, "urls", W) /\ FieldTrue(article, "related", W)
    <3>1. ~fault => FieldTrue(cur, "cats", W) /\ FieldTrue(cur, "urls", W)
      BY <1>3, <1>6 DEF CurrentInv, Reading
    <3>2. ~fault => FieldTrue(article, "cats", W) /\ FieldTrue(article, "urls", W)
      BY <1>7, <3>1 DEF FieldTrue
    <3>3. ~fault => FieldTrue(article, "related", W)
      BY <1>3, <1>6, <1>7 DEF FieldTrue, LinkedTo
    <3> QED
      BY <3>2, <3>3
  <2>9. article.id = cur.id
    BY <1>7
  <2> HIDE DEF article
  <2>10. SeenInv(k, w, seen, fault, W)
    BY <1>3, <1>6, <2>7, <2>8 DEF SeenInv
  <2>11. ControlInv("row", k, w, ids[r], seen)
    BY <1>3 DEF ControlInv
  <2>12. CurrentInv("row", k, w, None, fault, W)
    BY DEF CurrentInv, Reading
  <2>13. ListInv("row", k, w, ids[r], None, seen, status[r], fault, W)
    <3>1. Have("row", ids[r], None, seen) = Have("related", ids[r], cur, shown[r])
      BY <2>9 DEF Have, Ids, Reading
    <3> QED
      BY <1>3, <1>6, <3>1 DEF ListInv
  <2>14. Frame(r) /\ TypeOK' /\ ids'[r] = ids[r] /\ status'[r] = status[r]
    <3>1. "row" \in Queries /\ ids' = ids /\ status' = status
      BY <1>9 DEF Queries
    <3> QED
      BY <1>6, <2>1, <2>2, <2>3, <2>5, <2>6, <3>1, FrameTypes, RequestTypes
  <2>15. at[r] # "idle"
    BY <1>2
  <2> HIDE DEF seen
  <2> QED
    BY <2>1, <2>2, <2>3, <2>10, <2>11, <2>12, <2>13, <2>14, <2>15, ReaderStep
<1> QED
  BY <1>1, <1>8, <1>9

-----------------------------------------------------------------------------
(* The theorems.                                                           *)

\* The invariant holds at the start.
LEMMA Start == Init => IInv
<1> SUFFICES ASSUME Init PROVE IInv
  OBVIOUS
<1>1. CatalogTypeOK /\ CatalogConsistent
  BY CatalogStart DEF Init
<1>2. TypeOK
  BY <1>1, MaxWritesAssumption DEF Init, TypeOK, Queries, Kinds
<1>3. ASSUME NEW r \in Readers PROVE ReaderInv(r)
  <2>1. /\ at[r] = "idle" /\ kind[r] = "get" /\ wanted[r] = None /\ ids[r] = {} /\ current[r] = None
        /\ shown[r] = {} /\ status[r] = 0 /\ faulted[r] = FALSE /\ window[r] = {}
    BY DEF Init
  <2>2. ControlInv("idle", "get", None, {}, {}) /\ SeenInv("get", None, {}, FALSE, {})
    BY DEF ControlInv, SeenInv
  <2>3. CurrentInv("idle", "get", None, None, FALSE, {})
    BY DEF CurrentInv, Reading
  <2>4. ListInv("idle", "get", None, {}, None, {}, 0, FALSE, {})
    BY DEF ListInv, Lists, PublicLists
  <2> QED
    BY <2>1, <2>2, <2>3, <2>4 DEF ReaderInv
<1> QED
  BY <1>1, <1>2, <1>3 DEF IInv

\* Every step keeps the invariant.
LEMMA EveryStep == IInv /\ [Next]_vars => IInv'
<1> SUFFICES ASSUME IInv, [Next]_vars PROVE IInv'
  OBVIOUS
<1>1. CASE Write
  BY <1>1, WriteStep
<1>2. CASE AddCategory
  BY <1>2, CategoryStep
<1>3. ASSUME NEW r \in Readers, BeginRead(r) PROVE IInv'
  BY <1>3, BeginStep
<1>4. ASSUME NEW r \in Readers, Read(r) PROVE IInv'
  <2>1. CASE LookupCategory(r)
    BY <2>1, LookupStep
  <2>2. CASE Select(r)
    BY <2>2, SelectStep
  <2>3. CASE ReadSlug(r)
    BY <2>3, SlugStep
  <2>4. CASE ReadRow(r)
    BY <2>4, RowStep
  <2>5. CASE ReadCategories(r)
    BY <2>5, LinksStep DEF ReadCategories
  <2>6. CASE ReadSources(r)
    BY <2>6, LinksStep DEF ReadSources
  <2>7. CASE ReadRelations(r)
    BY <2>7, RelationsStep
  <2>8. CASE Finish(r)
    BY <2>8, FinishStep
  <2>9. CASE ReadFails(r)
    BY <2>9, FailStep
  <2> QED
    BY <1>4, <2>1, <2>2, <2>3, <2>4, <2>5, <2>6, <2>7, <2>8, <2>9 DEF Read
<1>5. CASE UNCHANGED vars
  <2>1. /\ UNCHANGED <<catalog, used, categories, writes, at, kind, wanted, ids>>
        /\ UNCHANGED <<current, shown, status, faulted, window>>
    BY <1>5 DEF vars, catalogVars, readVars
  <2>2. TypeOK' /\ CatalogConsistent'
    BY <2>1 DEF IInv, TypeOK, CatalogTypeOK, CatalogConsistent, Existing
  <2>3. ASSUME NEW r \in Readers PROVE ReaderInv(r)'
    BY <2>1 DEF IInv, ReaderInv
  <2> QED
    BY <2>2, <2>3 DEF IInv
<1> QED
  BY <1>1, <1>2, <1>3, <1>4, <1>5 DEF Next

\* The strengthening from which the properties of reading follow.
THEOREM Invariance == Spec => []IInv
BY Start, EveryStep, PTL DEF Spec

\* Every variable keeps its type.
THEOREM TypeCorrect == Spec => []TypeOK
<1>1. IInv => TypeOK
  BY DEF IInv
<1> QED
  BY <1>1, Invariance, PTL

\* List and ListPublished: whatever is written between the queries of a list, it has the
\* articles that belonged to it, within its limit, at one moment of the request; and an
\* article that is shown alone was the one asked for at some moment.
THEOREM ListsStayOfOneMoment == Spec => []ListsAreOfOneMoment
<1>1. IInv => ListsAreOfOneMoment
  <2> SUFFICES ASSUME IInv, NEW r \in Readers, Done(r)
               PROVE  IF kind[r] \in Lists
                      THEN \E c \in window[r] : /\ ShownIds(r) \subseteq Selected(kind[r], wanted[r], c)
                                                /\ ~faulted[r] => Selected(kind[r], wanted[r], c) \subseteq ShownIds(r)
                      ELSE ShownIds(r) \subseteq Sometime(r)
    BY DEF ListsAreOfOneMoment
  <2>1. ShownIds(r) \subseteq Sometime(r)
    BY ReaderFacts DEF ShownIds, Sometime, SeenInv, In
  <2>2. CASE kind[r] \in Lists
    <3>1. ListInv("idle", kind[r], wanted[r], ids[r], current[r], shown[r], 200, faulted[r], window[r])
      BY ReaderFacts DEF Done
    <3>2. ids[r] = {}
      BY <2>2, <3>1 DEF ListInv
    <3>3. Have("idle", ids[r], current[r], shown[r]) = ShownIds(r)
      BY <3>2 DEF Have, Ids, ShownIds, Reading
    <3> QED
      BY <2>2, <3>1, <3>3 DEF ListInv
  <2> QED
    BY <2>1, <2>2
<1> QED
  BY <1>1, Invariance, PTL

\* get: each part of an article that was read without a failing query is what it was at
\* one moment of the request.
THEOREM PartsStayTrue == Spec => []PartsWereTrue
<1>1. IInv => PartsWereTrue
  BY ReaderFacts DEF PartsWereTrue, Done, SeenInv, RowTrue, FieldTrue
<1> QED
  BY <1>1, Invariance, PTL

\* The status of a request that ends.
LEMMA EndsWith ==
  ASSUME IInv, NEW r \in Readers, NEW code, End(r, code)
  PROVE  status'[r] = code
BY DEF End, IInv, TypeOK

\* A list that lacks the row of an article had that article when it was selected.
LEMMA RowMissExplained ==
  ASSUME IInv, NEW r \in Readers, at[r] = "row", NEW a \in ids[r], a \notin Existing,
         status'[r] = MissStatus(kind[r])
  PROVE  MissIsExplained(r)
<1>1. a \in ArticleIds /\ catalog[a] = None /\ catalog \in window[r]
  <2>1. a \in ArticleIds /\ catalog \in window[r]
    BY ReaderFacts
  <2> QED
    BY <2>1 DEF Existing
<1>2. CASE kind[r] \in Lists
  <2>1. ListInv("row", kind[r], wanted[r], ids[r], current[r], shown[r], status[r], faulted[r], window[r])
    BY ReaderFacts
  <2>2. a \in Have("row", ids[r], current[r], shown[r])
    BY DEF Have
  <2>3. PICK c \in window[r] : a \in Selected(kind[r], wanted[r], c)
    BY <1>2, <2>1, <2>2 DEF ListInv
  <2>4. kind[r] \notin {"get", "page"} /\ (kind[r] = "list" => MissStatus(kind[r]) = 404)
    BY <1>2 DEF Lists, PublicLists, MissStatus
  <2> QED
    BY <2>3, <2>4 DEF MissIsExplained
<1>3. CASE kind[r] \notin Lists
  <2>1. kind[r] \in {"get", "page"} /\ MissStatus(kind[r]) = 404
    BY <1>3, ReaderFacts DEF Kinds, Lists, PublicLists, MissStatus
  <2>2. wanted[r] = None /\ ids[r] = {a}
    BY <2>1, ReaderFacts DEF ControlInv
  <2>3. a \notin Selected(kind[r], wanted[r], catalog)
    BY <1>1, <1>3 DEF Selected, Matching
  <2>4. Candidates(r, catalog) = {}
    BY <2>2, <2>3 DEF Candidates
  <2> QED
    BY <1>1, <1>3, <2>1, <2>4 DEF MissIsExplained
<1> QED
  BY <1>2, <1>3

\* No article has the slug.
LEMMA SlugMissExplained ==
  ASSUME IInv, NEW r \in Readers, at[r] = "slug", \A a \in Existing : catalog[a].slug # wanted[r],
         status'[r] = 404
  PROVE  MissIsExplained(r)
<1>1. kind[r] \in {"get", "page"} /\ kind[r] \notin Lists /\ wanted[r] # None /\ catalog \in window[r]
  BY ReaderFacts DEF ControlInv, Lists, PublicLists
<1>2. Selected(kind[r], wanted[r], catalog) = {}
  BY <1>1 DEF Selected, Matching, Existing
<1>3. Candidates(r, catalog) = {}
  BY <1>2 DEF Candidates
<1> QED
  BY <1>1, <1>3 DEF MissIsExplained

\* The article with the slug was no published one when its row was read, and there was
\* no other.
LEMMA DraftMissExplained ==
  ASSUME IInv, NEW r \in Readers, at[r] = "related", kind[r] = "page",
         current[r].status # "published", status'[r] = 404
  PROVE  MissIsExplained(r)
<1> DEFINE cur == current[r]
           w   == wanted[r]
           W   == window[r]
<1>1. /\ CurrentInv("related", "page", w, cur, faulted[r], W)
      /\ \A c \in W : Unique(c)
      /\ ControlInv("related", "page", w, ids[r], shown[r])
  BY ReaderFacts
<1>2. "page" \notin Lists
  BY DEF Lists, PublicLists
<1>3. cur \in View /\ w # None /\ cur.slug = w
  BY <1>1, <1>2 DEF CurrentInv, ControlInv, Reading
<1>4. cur.id \in ArticleIds
  BY <1>3 DEF View
<1>5. PICK c \in W : c[cur.id] # None /\ cur.slug = c[cur.id].slug /\ cur.status = c[cur.id].status
  BY <1>1 DEF CurrentInv, RowTrue, Reading
<1>6. Selected("page", w, c) = {}
  <2> SUFFICES ASSUME NEW a \in Selected("page", w, c) PROVE FALSE
    OBVIOUS
  <2>1. a \in ArticleIds /\ c[a] # None /\ c[a].status = "published" /\ c[a].slug = w
    BY <1>2, <1>3 DEF Selected, Matching
  <2>2. a = cur.id
    BY <1>1, <1>3, <1>4, <1>5, <2>1 DEF Unique
  <2> QED
    BY <1>5, <2>1, <2>2
<1>7. Candidates(r, c) = {}
  BY <1>6 DEF Candidates
<1> QED
  BY <1>2, <1>5, <1>7 DEF MissIsExplained

\* What a step of request r answers.
LEMMA AnswerStep ==
  ASSUME IInv, NEW r \in Readers, Read(r), Answered(r)
  PROVE  MissIsExplained(r)
<1>1. at \in [Readers -> Queries] /\ faulted \in [Readers -> BOOLEAN] /\ at'[r] = "idle" /\ ~faulted'[r]
  BY DEF Answered, IInv, TypeOK
<1>2. CASE LookupCategory(r)
  <2>1. kind[r] = "category"
    BY <1>2, ReaderFacts DEF LookupCategory, ControlInv
  <2>2. status'[r] = 404
    BY <1>1, <1>2, EndsWith DEF LookupCategory
  <2> QED
    BY <2>1, <2>2 DEF MissIsExplained, MissStatus, PublicLists
<1>3. CASE Select(r)
  BY <1>1, <1>3 DEF Select
<1>4. CASE ReadSlug(r)
  <2>1. at[r] = "slug" /\ (\A a \in Existing : catalog[a].slug # wanted[r]) /\ End(r, 404)
    BY <1>1, <1>4 DEF ReadSlug
  <2> QED
    BY <2>1, EndsWith, SlugMissExplained
<1>5. CASE ReadRow(r)
  <2>1. PICK a \in ids[r] : a \notin Existing /\ End(r, MissStatus(kind[r]))
    BY <1>1, <1>5 DEF ReadRow
  <2>2. status'[r] = MissStatus(kind[r]) /\ at[r] = "row"
    BY <1>5, <2>1, EndsWith DEF ReadRow
  <2> QED
    BY <2>1, <2>2, RowMissExplained
<1>6. CASE ReadCategories(r) \/ ReadSources(r)
  BY <1>1, <1>6 DEF ReadCategories, ReadSources, ReadLinks
<1>7. CASE ReadRelations(r)
  <2>1. PICK some : LET article == [current[r] EXCEPT !.related = some] IN
                    kind[r] = "page" /\ article.status # "published" /\ End(r, 404)
    BY <1>1, <1>7 DEF ReadRelations
  <2>2. at[r] = "related" /\ status'[r] = 404
    BY <1>7, <2>1, EndsWith DEF ReadRelations
  <2>3. current[r] \in View
    BY <2>2, ReaderFacts DEF CurrentInv, Reading
  <2>4. current[r].status # "published"
    BY <2>1, <2>3 DEF View
  <2> QED
    BY <2>1, <2>2, <2>4, DraftMissExplained
<1>8. CASE Finish(r)
  <2>1. status'[r] = 200
    BY <1>8, EndsWith DEF Finish
  <2> QED
    BY <2>1 DEF MissIsExplained, MissStatus
<1>9. CASE ReadFails(r)
  BY <1>1, <1>9 DEF ReadFails
<1> QED
  BY <1>2, <1>3, <1>4, <1>5, <1>6, <1>7, <1>8, <1>9 DEF Read

\* Only its own steps answer a request.
LEMMA OnlyReadsAnswer ==
  ASSUME IInv, [Next]_vars, NEW r \in Readers, Answered(r)
  PROVE  Read(r)
<1>1. at \in [Readers -> Queries] /\ at[r] # "idle" /\ at'[r] = "idle"
  BY DEF Answered, IInv, TypeOK
<1>2. CASE Write \/ AddCategory \/ UNCHANGED vars
  BY <1>1, <1>2 DEF Write, AddCategory, vars
<1>3. ASSUME NEW q \in Readers, BeginRead(q)
      PROVE  Read(r)
  <2>1. PICK first \in {"row", "slug", "select", "category"} : at' = [at EXCEPT ![q] = first]
    BY <1>3 DEF BeginRead, Begin
  <2> QED
    BY <1>1, <2>1
<1>4. ASSUME NEW q \in Readers, Read(q)
      PROVE  Read(r)
  <2>1. PICK step : at' = [at EXCEPT ![q] = step]
    BY <1>4 DEF Read, LookupCategory, Select, ReadSlug, ReadRow, ReadCategories, ReadSources, ReadLinks,
                ReadRelations, Finish, ReadFails, End
  <2>2. q = r
    BY <1>1, <2>1
  <2> QED
    BY <1>4, <2>2
<1> QED
  BY <1>2, <1>3, <1>4 DEF Next

\* ErrNotFound: without a failing query, a list (500 from the pages' lists, 404 from the
\* API's) fails only when one of its own articles is deleted before it is read, and an
\* article is missed only when it was missing at some moment of the request.
THEOREM MissesStayExplained == Spec => MissesAreExplained
<1>1. IInv /\ [Next]_vars => \A r \in Readers : Answered(r) => MissIsExplained(r)
  BY OnlyReadsAnswer, AnswerStep
<1> QED
  BY <1>1, Invariance, PTL DEF Spec, MissesAreExplained
=============================================================================
