---------------------------- MODULE UpgradeProofs ----------------------------
(***************************************************************************)
(* Proofs about what the upgrade does to the data there is already: every  *)
(* article keeps its sources in their order, and categories their maker.   *)
(* File 004 numbers the rows of article_sources; that a numbering in       *)
(* the order of (article, source) keeps the order of each article's        *)
(* sources is what the first two parts are about.                          *)
(***************************************************************************)
EXTENDS ProcessProofs, FiniteSetTheorems

-----------------------------------------------------------------------------
(* Places in a finite ordered set.                                         *)

Below(R, S, x) == {y \in S : <<y, x>> \in R}

Orders(R, S) ==
  /\ \A x, y \in S : <<x, y>> \in R \/ <<y, x>> \in R
  /\ \A x, y \in S : <<x, y>> \in R /\ <<y, x>> \in R => x = y
  /\ \A x, y, z \in S : <<x, y>> \in R /\ <<y, z>> \in R => <<x, z>> \in R

\* As many elements as numbers, each with a number of its own: every number is taken.
LEMMA EveryNumberIsTaken ==
  ASSUME NEW S, IsFiniteSet(S), NEW f \in [S -> 1..Cardinality(S)],
         \A x, y \in S : f[x] = f[y] => x = y
  PROVE  \A i \in 1..Cardinality(S) : \E x \in S : f[x] = i
<1>1. f \in Injection(S, 1..Cardinality(S))
  BY DEF Injection, IsInjective
<1>2. Cardinality(S) \in Nat
  BY FS_CardinalityType
<1>3. IsFiniteSet(1..Cardinality(S)) /\ Cardinality(1..Cardinality(S)) = Cardinality(S)
  BY <1>2, FS_Interval
<1>4. f \in Surjection(S, 1..Cardinality(S))
  BY <1>1, <1>3, FS_Injection
<1> QED
  BY <1>4 DEF Surjection

\* Numbered by what is below it, each element gets its own number, and all are given.
LEMMA PlacesAreNumbers ==
  ASSUME NEW S, IsFiniteSet(S), NEW R, Orders(R, S)
  PROVE  /\ \A x \in S : Cardinality(Below(R, S, x)) \in 1..Cardinality(S)
         /\ \A x, y \in S : Cardinality(Below(R, S, x)) = Cardinality(Below(R, S, y)) => x = y
         /\ \A i \in 1..Cardinality(S) : \E x \in S : Cardinality(Below(R, S, x)) = i
<1>1. \A x \in S : Below(R, S, x) \in SUBSET S /\ x \in Below(R, S, x)
  BY DEF Below, Orders
<1>2. ASSUME NEW x \in S
      PROVE  Cardinality(Below(R, S, x)) \in 1..Cardinality(S)
  <2>1. IsFiniteSet(Below(R, S, x)) /\ Cardinality(Below(R, S, x)) <= Cardinality(S)
    BY <1>1, FS_Subset
  <2>2. Cardinality(Below(R, S, x)) # 0
    BY <1>1, <2>1, FS_EmptySet
  <2> QED
    BY <2>1, <2>2, FS_CardinalityType
<1>3. ASSUME NEW x \in S, NEW y \in S, x # y, <<x, y>> \in R,
             Cardinality(Below(R, S, x)) = Cardinality(Below(R, S, y))
      PROVE  FALSE
  <2>1. Below(R, S, x) \in SUBSET Below(R, S, y)
    BY <1>3 DEF Below, Orders
  <2>2. y \notin Below(R, S, x)
    BY <1>3 DEF Below, Orders
  <2>3. IsFiniteSet(Below(R, S, y))
    BY <1>1, FS_Subset
  <2>4. Below(R, S, y) = Below(R, S, x)
    BY <1>3, <2>1, <2>3, FS_Subset
  <2> QED
    BY <1>1, <2>2, <2>4
<1>4. \A x, y \in S : Cardinality(Below(R, S, x)) = Cardinality(Below(R, S, y)) => x = y
  BY <1>3 DEF Orders
<1>5. \A i \in 1..Cardinality(S) : \E x \in S : Cardinality(Below(R, S, x)) = i
  <2> DEFINE f == [x \in S |-> Cardinality(Below(R, S, x))]
  <2>1. f \in [S -> 1..Cardinality(S)] /\ \A x, y \in S : f[x] = f[y] => x = y
    BY <1>2, <1>4
  <2>2. \A x \in S : f[x] = Cardinality(Below(R, S, x))
    OBVIOUS
  <2> HIDE DEF f
  <2> QED
    BY <2>1, <2>2, EveryNumberIsTaken
<1> QED
  BY <1>2, <1>4, <1>5

\* Renaming the elements of a finite set keeps their number.
LEMMA SameNumber ==
  ASSUME NEW S, IsFiniteSet(S), NEW f, \A x, y \in S : f[x] = f[y] => x = y,
         NEW T, T = {f[x] : x \in S}
  PROVE  IsFiniteSet(T) /\ Cardinality(T) = Cardinality(S)
<1> DEFINE g == [x \in S |-> f[x]]
<1>1. g \in Injection(S, T) /\ g \in Surjection(S, T)
  BY DEF Injection, IsInjective, Surjection
<1> QED
  BY <1>1, FS_Surjection

-----------------------------------------------------------------------------
(* The numbering of file 004.                                              *)

\* The order of whole numbers, and that of (article_id, source_id).
Le  == {x \in Nat \X Nat : x[1] <= x[2]}
Lex == {z \in (Nat \X Nat) \X (Nat \X Nat) :
          z[1][1] < z[2][1] \/ (z[1][1] = z[2][1] /\ z[1][2] <= z[2][2])}

\* Among finitely many ids each has a place of its own, and every place is taken.
LEMMA PlacesOfIds ==
  ASSUME NEW ids \in SUBSET Nat, IsFiniteSet(ids)
  PROVE  /\ \A s \in ids : Place(ids, s) \in 1..Cardinality(ids)
         /\ \A s, t \in ids : Place(ids, s) = Place(ids, t) => s = t
         /\ \A i \in 1..Cardinality(ids) : \E s \in ids : Place(ids, s) = i
<1>1. Orders(Le, ids)
  <2>1. \A x, y \in ids : <<x, y>> \in Le <=> x <= y
    BY DEF Le
  <2>2. \A x \in ids : x \in Nat
    OBVIOUS
  <2> QED
    BY <2>1, <2>2 DEF Orders
<1>2. \A s \in ids : Place(ids, s) = Cardinality(Below(Le, ids, s))
  <2> SUFFICES ASSUME NEW s \in ids PROVE {t \in ids : t <= s} = Below(Le, ids, s)
    BY DEF Place
  <2> QED
    BY DEF Below, Le
<1>3. /\ \A x \in ids : Cardinality(Below(Le, ids, x)) \in 1..Cardinality(ids)
      /\ \A x, y \in ids : Cardinality(Below(Le, ids, x)) = Cardinality(Below(Le, ids, y)) => x = y
      /\ \A i \in 1..Cardinality(ids) : \E x \in ids : Cardinality(Below(Le, ids, x)) = i
  <2> DEFINE S == ids
             R == Le
  <2>1. IsFiniteSet(S) /\ Orders(R, S)
    BY <1>1
  <2> HIDE DEF S, R
  <2>2. /\ \A x \in S : Cardinality(Below(R, S, x)) \in 1..Cardinality(S)
        /\ \A x, y \in S : Cardinality(Below(R, S, x)) = Cardinality(Below(R, S, y)) => x = y
        /\ \A i \in 1..Cardinality(S) : \E x \in S : Cardinality(Below(R, S, x)) = i
    BY <2>1, PlacesAreNumbers
  <2> QED
    BY <2>2 DEF S, R
<1> QED
  BY <1>2, <1>3

\* So has each row of article_sources its number.
LEMMA RowNumbers ==
  ASSUME NEW links \in SUBSET (Nat \X Nat), IsFiniteSet(links)
  PROVE  /\ \A x \in links : RowNumber(links, x) \in 1..Cardinality(links)
         /\ \A x, y \in links : RowNumber(links, x) = RowNumber(links, y) => x = y
         /\ \A i \in 1..Cardinality(links) : \E x \in links : RowNumber(links, x) = i
<1>1. Orders(Lex, links)
  <2>1. \A x \in links : x[1] \in Nat /\ x[2] \in Nat /\ x = <<x[1], x[2]>>
    OBVIOUS
  <2>2. \A x, y \in links : <<x, y>> \in Lex <=> (x[1] < y[1] \/ (x[1] = y[1] /\ x[2] <= y[2]))
    BY DEF Lex
  <2>3. \A x, y \in links : <<x, y>> \in Lex \/ <<y, x>> \in Lex
    <3> TAKE x, y \in links
    <3>1. x[1] \in Nat /\ x[2] \in Nat /\ y[1] \in Nat /\ y[2] \in Nat
      BY <2>1
    <3>2. \/ x[1] < y[1] \/ (x[1] = y[1] /\ x[2] <= y[2])
          \/ y[1] < x[1] \/ (y[1] = x[1] /\ y[2] <= x[2])
      BY <3>1
    <3> QED
      BY <2>2, <3>2
  <2>4. \A x, y \in links : <<x, y>> \in Lex /\ <<y, x>> \in Lex => x = y
    BY <2>1, <2>2
  <2>5. \A x, y, z \in links : <<x, y>> \in Lex /\ <<y, z>> \in Lex => <<x, z>> \in Lex
    BY <2>1, <2>2
  <2> QED
    BY <2>3, <2>4, <2>5 DEF Orders
<1>2. \A x \in links : RowNumber(links, x) = Cardinality(Below(Lex, links, x))
  <2> SUFFICES ASSUME NEW x \in links
               PROVE  {y \in links : y[1] < x[1] \/ (y[1] = x[1] /\ y[2] <= x[2])} = Below(Lex, links, x)
    BY DEF RowNumber
  <2> QED
    BY DEF Below, Lex
<1> QED
  BY <1>1, <1>2, PlacesAreNumbers

\* Row numbers are in the order of the rows.
LEMMA RowNumbersAscend ==
  ASSUME NEW links \in SUBSET (Nat \X Nat), IsFiniteSet(links),
         NEW x \in links, NEW y \in links, x[1] = y[1]
  PROVE  RowNumber(links, x) <= RowNumber(links, y) <=> x[2] <= y[2]
<1>1. ASSUME NEW u \in links, NEW v \in links, u[1] = v[1], u[2] <= v[2]
      PROVE  RowNumber(links, u) <= RowNumber(links, v)
  <2> DEFINE B(z) == {w \in links : w[1] < z[1] \/ (w[1] = z[1] /\ w[2] <= z[2])}
  <2>1. B(u) \in SUBSET B(v)
    BY <1>1
  <2>2. IsFiniteSet(B(v))
    BY FS_Subset
  <2>3. Cardinality(B(u)) <= Cardinality(B(v))
    BY <2>1, <2>2, FS_Subset
  <2> QED
    BY <2>3 DEF RowNumber
<1>2. x[2] \in Nat /\ y[2] \in Nat /\ x = <<x[1], x[2]>> /\ y = <<y[1], y[2]>>
  OBVIOUS
<1>3. RowNumber(links, x) \in Nat /\ RowNumber(links, y) \in Nat
  BY RowNumbers, FS_CardinalityType
<1>4. x[2] <= y[2] => RowNumber(links, x) <= RowNumber(links, y)
  BY <1>1
<1>5. y[2] <= x[2] => RowNumber(links, y) <= RowNumber(links, x)
  BY <1>1
<1>6. RowNumber(links, x) = RowNumber(links, y) => x = y
  BY RowNumbers
<1> QED
  BY <1>2, <1>3, <1>4, <1>5, <1>6

\* The ids are numbers, and there are finitely many rows.
LEMMA IdsAreNumbers ==
  /\ SourceIds \in SUBSET Nat /\ IsFiniteSet(SourceIds)
  /\ Cardinality(Urls) \in Nat /\ Cardinality(Articles) \in Nat
  /\ Cardinality(Articles \X Urls) \in Nat
  /\ Cardinality(Articles \X Urls) = Cardinality(Articles) * Cardinality(Urls)
<1>1. IsFiniteSet(Articles) /\ IsFiniteSet(Urls)
  BY OldDataAssumption
<1>2. IsFiniteSet(Articles \X Urls) /\ Cardinality(Articles \X Urls) = Cardinality(Articles) * Cardinality(Urls)
  BY <1>1, FS_Product
<1>3. Cardinality(Urls) \in Nat /\ Cardinality(Articles) \in Nat /\ Cardinality(Articles \X Urls) \in Nat
  BY <1>1, <1>2, FS_CardinalityType
<1>4. SourceIds = 1..Cardinality(Articles \X Urls)
  BY DEF SourceIds
<1>5. IsFiniteSet(SourceIds)
  <2>1. PICK n \in Int : n = Cardinality(Articles \X Urls)
    BY <1>3
  <2> QED
    BY <1>4, <2>1, FS_Interval
<1> QED
  BY <1>2, <1>3, <1>4, <1>5

\* No more links than source ids, each of an article to a source row.
Linked(links) ==
  /\ links \in SUBSET (Articles \X SourceIds)
  /\ IsFiniteSet(links) /\ Cardinality(links) <= Cardinality(Articles \X Urls)

\* What file 004 makes of sources and links.
Split(d, e) ==
  /\ e.links = {<<x[1], RowNumber(d.links, x)>> : x \in d.links}
  /\ e.sources = [s \in SourceIds |->
                    IF s > Cardinality(d.links) THEN None
                    ELSE d.sources[(CHOOSE x \in d.links : RowNumber(d.links, x) = s)[2]]]

\* Every row of article_sources gets a source row of its own, with the old url.
LEMMA SplitCopies ==
  ASSUME NEW d, NEW e, Linked(d.links), Split(d, e)
  PROVE  /\ \A x \in d.links : /\ RowNumber(d.links, x) \in SourceIds
                              /\ e.sources[RowNumber(d.links, x)] = d.sources[x[2]]
         /\ \A s \in SourceIds :
              \/ \E x \in d.links : RowNumber(d.links, x) = s
              \/ e.sources[s] = None
<1> DEFINE links == d.links
           N == Cardinality(links)
<1>1. links \in SUBSET (Nat \X Nat) /\ IsFiniteSet(links) /\ N \in Nat /\ N <= Cardinality(Articles \X Urls)
  BY IdsAreNumbers, OldDataAssumption, FS_CardinalityType DEF Linked
<1>2. /\ \A x \in links : RowNumber(links, x) \in 1..N
      /\ \A x, y \in links : RowNumber(links, x) = RowNumber(links, y) => x = y
      /\ \A i \in 1..N : \E x \in links : RowNumber(links, x) = i
  BY <1>1, RowNumbers
<1>3. SourceIds = 1..Cardinality(Articles \X Urls) /\ Cardinality(Articles \X Urls) \in Nat
  BY IdsAreNumbers DEF SourceIds
<1>4. ASSUME NEW x \in links
      PROVE  RowNumber(links, x) \in SourceIds /\ e.sources[RowNumber(links, x)] = d.sources[x[2]]
  <2>1. PICK s \in SourceIds : s = RowNumber(links, x) /\ s \in 1..N
    BY <1>1, <1>2, <1>3
  <2>2. (CHOOSE y \in links : RowNumber(links, y) = s) = x
    BY <1>2, <2>1
  <2>3. e.sources[s] = d.sources[(CHOOSE y \in links : RowNumber(links, y) = s)[2]]
    BY <1>1, <2>1 DEF Split
  <2> QED
    BY <2>1, <2>2, <2>3
<1>5. ASSUME NEW s \in SourceIds
      PROVE  (\E x \in links : RowNumber(links, x) = s) \/ e.sources[s] = None
  <2>1. s > N => e.sources[s] = None
    BY DEF Split
  <2> QED
    BY <1>1, <1>2, <1>3, <2>1
<1> QED
  BY <1>4, <1>5

\* The sources of an article have the same urls in the same order.
LEMMA SplitKeepsUrls ==
  ASSUME NEW d, NEW e, Linked(d.links), Split(d, e), NEW a \in Articles
  PROVE  UrlsOf(e, a) = UrlsOf(d, a)
<1> DEFINE links == d.links
           ids  == SourcesOf(d.links, a)
           ids2 == SourcesOf(e.links, a)
           f == [s \in ids |-> RowNumber(links, <<a, s>>)]
<1>1. links \in SUBSET (Nat \X Nat) /\ IsFiniteSet(links)
  BY IdsAreNumbers, OldDataAssumption DEF Linked
<1>2. /\ \A x \in links : RowNumber(links, x) \in SourceIds /\ e.sources[RowNumber(links, x)] = d.sources[x[2]]
      /\ \A x, y \in links : RowNumber(links, x) = RowNumber(links, y) => x = y
  BY <1>1, SplitCopies, RowNumbers
<1>3. /\ ids \in SUBSET Nat /\ IsFiniteSet(ids) /\ ids2 \in SUBSET Nat /\ IsFiniteSet(ids2)
      /\ \A s \in ids : <<a, s>> \in links
  <2>1. ids \in SUBSET SourceIds /\ ids2 \in SUBSET SourceIds /\ \A s \in ids : <<a, s>> \in links
    BY DEF SourcesOf
  <2> QED
    BY <2>1, IdsAreNumbers, FS_Subset
<1>4. /\ \A s \in ids : f[s] = RowNumber(links, <<a, s>>) /\ f[s] \in SourceIds /\ e.sources[f[s]] = d.sources[s]
      /\ \A s, t \in ids : f[s] = f[t] => s = t
      /\ \A s, t \in ids : f[s] <= f[t] <=> s <= t
  <2>1. ASSUME NEW s \in ids, NEW t \in ids PROVE f[s] <= f[t] <=> s <= t
    BY <1>1, <1>3, RowNumbersAscend
  <2>2. ASSUME NEW s \in ids PROVE f[s] \in SourceIds /\ e.sources[f[s]] = d.sources[s]
    BY <1>2, <1>3
  <2>3. ASSUME NEW s \in ids, NEW t \in ids, f[s] = f[t] PROVE s = t
    <3>1. <<a, s>> = <<a, t>>
      BY <1>2, <1>3, <2>3
    <3> QED
      BY <3>1
  <2> QED
    BY <2>1, <2>2, <2>3
<1>5. ids2 = {f[s] : s \in ids}
  <2>1. ASSUME NEW s \in ids PROVE f[s] \in ids2
    BY <1>3, <1>4, <2>1 DEF Split, SourcesOf
  <2>2. ASSUME NEW t \in ids2 PROVE \E s \in ids : t = f[s]
    <3>1. PICK x \in links : <<a, t>> = <<x[1], RowNumber(links, x)>>
      BY <2>2 DEF Split, SourcesOf
    <3>2. x = <<a, x[2]>> /\ x[2] \in SourceIds /\ t = RowNumber(links, x)
      BY <3>1 DEF Linked
    <3>3. x[2] \in ids
      BY <3>2 DEF SourcesOf
    <3> QED
      BY <1>4, <3>2, <3>3
  <2> QED
    BY <2>1, <2>2
<1> HIDE DEF links, ids, ids2, f
<1>6. Cardinality(ids2) = Cardinality(ids)
  <2>1. IsFiniteSet(ids) /\ \A s, t \in ids : f[s] = f[t] => s = t
    BY <1>3, <1>4
  <2> QED
    BY <1>5, <2>1, SameNumber
<1>7. ASSUME NEW s \in ids
      PROVE  Place(ids2, f[s]) = Place(ids, s)
  <2> DEFINE low == {t \in ids : t <= s}
             low2 == {t \in ids2 : t <= f[s]}
  <2>1. low2 = {f[t] : t \in low}
    BY <1>4, <1>5
  <2>2. IsFiniteSet(low) /\ \A x, y \in low : f[x] = f[y] => x = y
    BY <1>3, <1>4, FS_Subset
  <2>3. Place(ids2, f[s]) = Cardinality(low2) /\ Place(ids, s) = Cardinality(low)
    BY DEF Place
  <2> HIDE DEF low, low2
  <2> QED
    BY <2>1, <2>2, <2>3, SameNumber
<1>8. ASSUME NEW i \in 1..Cardinality(ids)
      PROVE  e.sources[CHOOSE t \in ids2 : Place(ids2, t) = i] = d.sources[CHOOSE s \in ids : Place(ids, s) = i]
  <2>1. PICK s \in ids : s = CHOOSE u \in ids : Place(ids, u) = i
    BY <1>3, PlacesOfIds
  <2>2. Place(ids, s) = i
    BY <1>3, <2>1, PlacesOfIds
  <2>3. f[s] \in ids2 /\ Place(ids2, f[s]) = i
    BY <1>5, <1>7, <2>2
  <2>4. (CHOOSE t \in ids2 : Place(ids2, t) = i) = f[s]
    BY <1>3, <2>3, PlacesOfIds
  <2> QED
    BY <1>4, <2>1, <2>4
<1> QED
  BY <1>6, <1>8 DEF UrlsOf, ids, ids2

-----------------------------------------------------------------------------
(* What every database there is, committed or not, has kept.               *)

\* Links lead to source rows, after file 004 each row is of one article, and urls and
\* editors' categories are those of the beginning.
Kept(d) ==
  /\ d.sources \in [SourceIds -> Urls \cup {None}]
  /\ d.categories \in [InitialCategories -> {"nobody", "editor", "migration"}]
  /\ Linked(d.links)
  /\ \A x \in d.links : d.sources[x[2]] # None
  /\ 4 \in d.ran =>
       /\ \A s \in SourceIds : d.sources[s] # None => \E a \in Articles : <<a, s>> \in d.links
       /\ \A x, y \in d.links : x[2] = y[2] => x = y
  /\ \A a \in Articles : UrlsOf(d, a) = legacy.urls[a]
  /\ \A c \in legacy.categories : c \in InitialCategories /\ d.categories[c] = "editor"

\* It depends on four columns.
LEMMA KeptParts ==
  ASSUME NEW d, NEW e, Kept(d), e.sources = d.sources, e.links = d.links, e.categories = d.categories,
         4 \in e.ran => 4 \in d.ran
  PROVE  Kept(e)
<1>1. \A a \in Articles : UrlsOf(e, a) = UrlsOf(d, a)
  BY DEF UrlsOf
<1> QED
  BY <1>1 DEF Kept

\* Tables split as file 004 does it hold the same sources in the same order.
LEMMA SplitIsKept ==
  ASSUME NEW d, NEW e, Kept(d), Split(d, e), e.categories = d.categories
  PROVE  Kept(e)
<1> DEFINE links == d.links
           f == [x \in links |-> <<x[1], RowNumber(links, x)>>]
<1>1. links \in SUBSET (Nat \X Nat) /\ IsFiniteSet(links) /\ links \in SUBSET (Articles \X SourceIds)
      /\ Cardinality(links) <= Cardinality(Articles \X Urls) /\ Linked(d.links)
  BY IdsAreNumbers, OldDataAssumption DEF Linked, Kept
<1>2. /\ \A x \in links : RowNumber(links, x) \in SourceIds /\ e.sources[RowNumber(links, x)] = d.sources[x[2]]
      /\ \A s \in SourceIds : (\E x \in links : RowNumber(links, x) = s) \/ e.sources[s] = None
  BY <1>1, SplitCopies
<1>3. \A x, y \in links : RowNumber(links, x) = RowNumber(links, y) => x = y
  BY <1>1, RowNumbers
<1>4. e.links = {f[x] : x \in links} /\ \A x \in links : f[x] = <<x[1], RowNumber(links, x)>>
  <2>1. \A x \in links : f[x] = <<x[1], RowNumber(links, x)>>
    OBVIOUS
  <2>2. e.links = {<<x[1], RowNumber(links, x)>> : x \in links}
    BY DEF Split
  <2> HIDE DEF f, links
  <2> QED
    BY <2>1, <2>2
<1>5. \A x, y \in links : f[x] = f[y] => x = y
  BY <1>3, <1>4
<1>6. Linked(e.links)
  <2>1. IsFiniteSet(e.links) /\ Cardinality(e.links) = Cardinality(links)
    <3> HIDE DEF f, links
    <3> QED
      BY <1>1, <1>4, <1>5, SameNumber
  <2>2. e.links \in SUBSET (Articles \X SourceIds)
    <3>1. \A x \in links : x[1] \in Articles /\ f[x] \in Articles \X SourceIds
      BY <1>1, <1>2, <1>4
    <3> HIDE DEF f, links
    <3> QED
      BY <1>4, <3>1
  <2> QED
    BY <1>1, <2>1, <2>2 DEF Linked
<1> HIDE DEF f
<1>7. \A y \in e.links : \E x \in links : y = <<x[1], RowNumber(links, x)>>
  BY <1>4
<1>8. \A y \in e.links : e.sources[y[2]] # None
  BY <1>2, <1>7 DEF Kept
<1>9. \A y, z \in e.links : y[2] = z[2] => y = z
  BY <1>3, <1>7
<1>10. \A s \in SourceIds : e.sources[s] # None => \E a \in Articles : <<a, s>> \in e.links
  <2> SUFFICES ASSUME NEW s \in SourceIds, e.sources[s] # None
               PROVE  \E a \in Articles : <<a, s>> \in e.links
    OBVIOUS
  <2>1. PICK x \in links : RowNumber(links, x) = s
    BY <1>2
  <2>2. x[1] \in Articles /\ <<x[1], s>> \in e.links
    BY <1>1, <1>4, <2>1
  <2> QED
    BY <2>2
<1>11. e.sources \in [SourceIds -> Urls \cup {None}]
  <2>1. \A x \in links : d.sources[x[2]] \in Urls \cup {None}
    BY <1>1 DEF Kept
  <2>2. \A s \in SourceIds : e.sources[s] \in Urls \cup {None}
    BY <1>2, <2>1
  <2>3. e.sources = [s \in SourceIds |-> e.sources[s]]
    BY DEF Split
  <2> QED
    BY <2>2, <2>3
<1>12. \A a \in Articles : UrlsOf(e, a) = UrlsOf(d, a)
  BY <1>1, SplitKeepsUrls
<1> QED
  BY <1>6, <1>8, <1>9, <1>10, <1>11, <1>12 DEF Kept

\* What the files make of the columns.
LEMMA BodyParts ==
  ASSUME NEW d, WellFormed(d), NEW v \in Versions
  PROVE  /\ Body(v, d).ran = d.ran \cup {v}
         /\ v = 4 => Split(d, Body(v, d)) /\ Body(v, d).categories = d.categories
         /\ v = 6 => /\ Body(v, d).sources = d.sources /\ Body(v, d).links = d.links
                     /\ Body(v, d).categories =
                          [c \in InitialCategories |->
                             IF d.categories[c] = "nobody" THEN "migration" ELSE d.categories[c]]
         /\ v \notin {4, 6} => /\ Body(v, d).sources = d.sources /\ Body(v, d).links = d.links
                               /\ Body(v, d).categories = d.categories
<1>1. PICK applied, ran, sources, links, categories :
        d = [applied |-> applied, ran |-> ran, sources |-> sources, links |-> links, categories |-> categories]
  BY Zenon DEF WellFormed
<1>2. CASE v = 4
  <2>1. PICK S, L :
          /\ S = [s \in SourceIds |->
                    IF s > Cardinality(d.links) THEN None
                    ELSE d.sources[(CHOOSE x \in d.links : RowNumber(d.links, x) = s)[2]]]
          /\ L = {<<x[1], RowNumber(d.links, x)>> : x \in d.links}
    OBVIOUS
  <2>2. SplitSources(d) = [d EXCEPT !.sources = S, !.links = L]
    BY <2>1, Zenon DEF SplitSources, LinkNumber
  <2>3. Body(v, d) = [SplitSources(d) EXCEPT !.ran = @ \cup {v}]
    BY <1>2 DEF Body
  <2>4. Body(v, d) = [applied |-> applied, ran |-> ran \cup {v}, sources |-> S, links |-> L, categories |-> categories]
    BY <1>1, <2>2, <2>3
  <2>5. /\ Body(v, d).sources = S /\ Body(v, d).links = L /\ Body(v, d).categories = d.categories
        /\ Body(v, d).ran = d.ran \cup {v}
    BY <1>1, <2>4
  <2> QED
    BY <1>2, <2>1, <2>5 DEF Split
<1>3. CASE v = 6
  <2>1. PICK C : C = [c \in InitialCategories |->
                        IF d.categories[c] = "nobody" THEN "migration" ELSE d.categories[c]]
    OBVIOUS
  <2>2. AddCategories(d) = [d EXCEPT !.categories = C]
    BY <1>1, <2>1 DEF AddCategories
  <2>3. Body(v, d) = [AddCategories(d) EXCEPT !.ran = @ \cup {v}]
    BY <1>3 DEF Body
  <2>4. Body(v, d) = [applied |-> applied, ran |-> ran \cup {v}, sources |-> sources, links |-> links, categories |-> C]
    BY <1>1, <2>2, <2>3
  <2> QED
    BY <1>1, <1>3, <2>1, <2>4
<1>4. CASE v \notin {4, 6}
  <2>1. Body(v, d) = [d EXCEPT !.ran = @ \cup {v}]
    BY <1>4 DEF Body
  <2>2. Body(v, d) = [applied |-> applied, ran |-> ran \cup {v}, sources |-> sources, links |-> links, categories |-> categories]
    BY <1>1, <2>1
  <2> QED
    BY <1>1, <1>4, <2>2
<1> QED
  BY <1>2, <1>3, <1>4

\* No file loses data.
LEMMA BodyKeeps ==
  ASSUME NEW d, WellFormed(d), Kept(d), NEW v \in Versions
  PROVE  Kept(Body(v, d))
<1> DEFINE e == Body(v, d)
<1>1. CASE v = 4
  BY <1>1, BodyParts, SplitIsKept
<1>2. CASE v = 6
  <2>0. e.ran = d.ran \cup {v}
    BY BodyParts
  <2>1. e.sources = d.sources /\ e.links = d.links /\ (4 \in e.ran => 4 \in d.ran)
    <3>1. e.sources = d.sources /\ e.links = d.links
      BY <1>2, BodyParts
    <3>2. 4 \in e.ran => 4 \in d.ran
      BY <1>2, <2>0
    <3> QED
      BY <3>1, <3>2
  <2>2. e.categories = [c \in InitialCategories |->
                          IF d.categories[c] = "nobody" THEN "migration" ELSE d.categories[c]]
    BY <1>2, BodyParts
  <2> HIDE DEF e
  <2>3. \A a \in Articles : UrlsOf(e, a) = UrlsOf(d, a)
    BY <2>1 DEF UrlsOf
  <2>4. e.categories \in [InitialCategories -> {"nobody", "editor", "migration"}]
        /\ \A c \in legacy.categories : c \in InitialCategories /\ e.categories[c] = "editor"
    BY <2>2 DEF Kept
  <2>5. Kept(e)
    BY <2>1, <2>3, <2>4 DEF Kept
  <2> QED
    BY <2>5 DEF e
<1>3. CASE v \notin {4, 6}
  <2>0. e.ran = d.ran \cup {v}
    BY BodyParts
  <2>1. e.sources = d.sources /\ e.links = d.links /\ e.categories = d.categories /\ (4 \in e.ran => 4 \in d.ran)
    BY <1>3, <2>0, BodyParts
  <2> QED
    BY <2>1, KeptParts
<1> QED
  BY <1>1, <1>2, <1>3

-----------------------------------------------------------------------------
(* The databases of a running upgrade.                                     *)

DataInv == Kept(db) /\ Kept(work)

\* A database of version 3.
LEMMA OldIsLinked ==
  ASSUME NEW links \in OldLinks
  PROVE  Linked(links) /\ \A x \in links : x[2] \in 1..Cardinality(Urls)
<1> DEFINE A == Cardinality(Articles)
           U == Cardinality(Urls)
           P == Articles \X (1..U)
<1>1. links \in SUBSET P
  BY OldDataAssumption
<1>2. A \in Nat /\ U \in Nat /\ Cardinality(Articles \X Urls) = A * U /\ IsFiniteSet(Articles)
  BY IdsAreNumbers, OldDataAssumption
<1>3. IsFiniteSet(1..U) /\ Cardinality(1..U) = U
  <2>1. PICK n \in Nat : n = U
    BY <1>2
  <2> QED
    BY <2>1, FS_Interval
<1>4. IsFiniteSet(P) /\ Cardinality(P) = A * U
  BY <1>2, <1>3, FS_Product
<1>5. IsFiniteSet(links) /\ Cardinality(links) <= A * U
  BY <1>1, <1>4, FS_Subset
<1>6. \A x \in links : x \in Articles \X SourceIds
  <2> SUFFICES ASSUME NEW x \in links PROVE x \in Articles \X SourceIds
    OBVIOUS
  <2>1. x \in Articles \X (1..U)
    BY <1>1
  <2>2. A # 0
    BY <1>2, <2>1, FS_EmptySet
  <2>3. U <= A * U
    BY <1>2, <2>2
  <2>4. 1..U \subseteq SourceIds
    BY <1>2, <2>3 DEF SourceIds
  <2> QED
    BY <2>1, <2>4
<1> QED
  BY <1>1, <1>2, <1>5, <1>6 DEF Linked

\* The old sources are URLs.
LEMMA OldUrlsAreUrls == OldUrls \in [1..Cardinality(Urls) -> Urls]
<1>1. ExistsBijection(1..Cardinality(Urls), Urls)
  BY OldDataAssumption, FS_CardinalityType
<1>2. \E f \in [1..Cardinality(Urls) -> Urls] : IsInjective(f)
  BY <1>1 DEF ExistsBijection, Bijection, Injection
<1> QED
  BY <1>2 DEF OldUrls, SetToSeq

\* The old tables hold the old data.
LEMMA DataInvInit == Init => DataInv
<1> SUFFICES ASSUME Init PROVE Kept(db) /\ work = db
  BY DEF DataInv
<1>1. work = db
  BY DEF Init, MigrationInit
<1>2. /\ \A a \in Articles : UrlsOf(db, a) = legacy.urls[a]
      /\ \A c \in legacy.categories : c \in InitialCategories /\ db.categories[c] = "editor"
  BY DEF Init, MigrationInit
<1>3. CASE db = EmptyDatabase
  <2>1. /\ db.ran = {} /\ db.links = {} /\ db.sources = [s \in SourceIds |-> None]
        /\ db.categories = [c \in InitialCategories |-> "nobody"]
    BY <1>3 DEF EmptyDatabase
  <2>2. Linked(db.links)
    BY <2>1, FS_EmptySet, IdsAreNumbers DEF Linked
  <2> QED
    BY <1>1, <1>2, <2>1, <2>2 DEF Kept
<1>4. ASSUME NEW links \in OldLinks, NEW old \in OldCategories, db = OldDatabase(links, old)
      PROVE  Kept(db)
  <2>1. /\ db.ran = 1..3 /\ db.links = links
        /\ db.sources = [s \in SourceIds |-> IF s \in DOMAIN OldUrls THEN OldUrls[s] ELSE None]
        /\ db.categories = [c \in InitialCategories |-> IF c \in old THEN "editor" ELSE "nobody"]
    BY <1>4 DEF OldDatabase
  <2>2. Linked(db.links) /\ \A x \in db.links : x[2] \in 1..Cardinality(Urls) /\ x[2] \in SourceIds
    BY <2>1, OldIsLinked DEF Linked
  <2>3. DOMAIN OldUrls = 1..Cardinality(Urls) /\ \A i \in 1..Cardinality(Urls) : OldUrls[i] \in Urls
    BY OldUrlsAreUrls
  <2>4. \A x \in db.links : db.sources[x[2]] # None
    BY <2>1, <2>2, <2>3, OldDataAssumption
  <2>5. db.sources \in [SourceIds -> Urls \cup {None}]
    BY <2>1, <2>3
  <2>6. db.categories \in [InitialCategories -> {"nobody", "editor", "migration"}]
    BY <2>1
  <2>7. 4 \notin db.ran
    BY <2>1
  <2> QED
    BY <1>2, <2>2, <2>4, <2>5, <2>6, <2>7 DEF Kept
<1> QED
  BY <1>1, <1>3, <1>4 DEF Init, MigrationInit

\* A step either leaves both databases alone, gives one the other's place, runs a file,
\* or notes that it has run.
LEMMA DataSafe ==
  ASSUME MigrationInv, DataInv, UNCHANGED legacy, db' \in {db, work},
         \/ work' \in {db, work}
         \/ \E v \in Versions : work' = Body(v, db)
         \/ \E applied : work' = [work EXCEPT !.applied = applied]
  PROVE  DataInv'
<1>1. ASSUME NEW d, NEW e, Kept(d), e = d PROVE Kept(e)
  BY <1>1
<1>2. Kept(db') /\ (work' \in {db, work} => Kept(work'))
  BY DEF DataInv
<1>3. ASSUME NEW v \in Versions, work' = Body(v, db) PROVE Kept(work')
  BY <1>3, BodyKeeps DEF DataInv, MigrationInv, MigrationTyped
<1>4. ASSUME NEW applied, work' = [work EXCEPT !.applied = applied] PROVE Kept(work')
  <2>1. WellFormed(work)
    BY DEF MigrationInv, MigrationTyped
  <2>2. /\ work'.sources = work.sources /\ work'.links = work.links
        /\ work'.categories = work.categories /\ work'.ran = work.ran
    BY <1>4, <2>1 DEF WellFormed
  <2> QED
    BY <2>2, KeptParts DEF DataInv
<1>5. Kept(db') /\ Kept(work')
  BY <1>2, <1>3, <1>4
<1> QED
  BY <1>5 DEF DataInv, Kept, UrlsOf

\* Every step of every process keeps the data, in the file and in the transaction.
LEMMA DataInvNext == MigrationInv /\ DataInv /\ [Next]_vars => DataInv'
<1> SUFFICES ASSUME MigrationInv, DataInv, [Next]_vars PROVE DataInv'
  OBVIOUS
<1>1. CASE UNCHANGED <<db, work, legacy>>
  BY <1>1, DataSafe
<1>2. ASSUME NEW p \in Processes, Exit(p) PROVE DataInv'
  <2>1. UNCHANGED <<db, legacy>> /\ work' \in {db, work}
    BY <1>2 DEF Exit
  <2> QED
    BY <2>1, DataSafe
<1>3. ASSUME NEW p \in Processes, RunFile(p) PROVE DataInv'
  <2>1. ver[p] \in Versions
    BY <1>3 DEF RunFile, MigrationInv, AtItsFile
  <2> QED
    BY <1>3, <2>1, DataSafe DEF RunFile
<1>4. ASSUME NEW p \in Processes, Record(p) PROVE DataInv'
  <2>1. \E applied : work' = [work EXCEPT !.applied = applied]
    BY <1>4 DEF Record
  <2>2. UNCHANGED <<db, legacy>>
    BY <1>4 DEF Record
  <2> QED
    BY <2>1, <2>2, DataSafe
<1>5. ASSUME NEW p \in Processes, Commit(p) PROVE DataInv'
  BY <1>5, DataSafe DEF Commit
<1>6. ASSUME NEW p \in Processes, MigrationStep(p) PROVE DataInv'
  <2>1. CASE Look(p)
    BY <1>1, <2>1 DEF Look
  <2>2. CASE ComesSecond(p)
    BY <1>2, <2>2 DEF ComesSecond
  <2> QED
    BY <1>3, <1>4, <1>5, <1>6, <2>1, <2>2 DEF MigrationStep
<1>7. ASSUME NEW p \in Processes, Starting(p) \/ Stopping(p) PROVE DataInv'
  <2>1. CASE Boot(p) \/ Signal(p)
    BY <1>1, <2>1 DEF Boot, Signal
  <2>2. CASE TiresOfWaiting(p) \/ Drained(p)
    BY <1>2, <2>2 DEF TiresOfWaiting, Drained
  <2>3. CASE Listen(p)
    BY <1>1, <1>2, <2>3 DEF Listen
  <2> QED
    BY <1>6, <1>7, <2>1, <2>2, <2>3 DEF Starting, Stopping
<1>8. ASSUME NEW p \in Processes, Crash(p) \/ Deadline(p) \/ MigrationFails(p) PROVE DataInv'
  BY <1>2, <1>8 DEF Crash, Deadline, MigrationFails
<1>9. ASSUME NEW p \in Processes,
             \/ (ReturnsError(p) \/ StorageStep(p)) /\ UNCHANGED migrationVars
             \/ (RemoveObject(p) \/ \E image \in Images : Upload(p, image)) /\ UNCHANGED migrationVars
      PROVE  DataInv'
  BY <1>1, <1>9 DEF migrationVars
<1> QED
  BY <1>1, <1>7, <1>8, <1>9 DEF Next, vars, migrationVars

\* Only a process that serves or drains is inside a call of the object store.
CallsInv == \A p \in Processes : op[p] # None => stage[p] \in {"serving", "draining"}

\* What has to be shown of a step: only serving or draining processes call the object store.
LEMMA CallsSafe ==
  ASSUME CallsInv, NEW p \in Processes,
         \A q \in Processes \ {p} : op'[q] = op[q] /\ stage'[q] = stage[q],
         op'[p] # None => stage'[p] \in {"serving", "draining"}
  PROVE  CallsInv'
BY DEF CallsInv

\* Every step keeps that.
LEMMA CallsInvNext == MigrationInv /\ StorageInv /\ CallsInv /\ [Next]_vars => CallsInv'
<1> SUFFICES ASSUME MigrationInv, StorageInv, CallsInv, [Next]_vars PROVE CallsInv'
  OBVIOUS
<1>0. stage \in [Processes -> Stages] /\ op \in [Processes -> Ops \cup {None}]
  BY DEF MigrationInv, MigrationTyped, StorageInv
<1>1. CASE UNCHANGED <<op, stage>>
  BY <1>1 DEF CallsInv
<1>2. ASSUME NEW p \in Processes, NEW s, NEW v, GoOn(p, s, v), UNCHANGED op,
             op[p] # None => s \in {"serving", "draining"}
      PROVE  CallsInv'
  BY <1>0, <1>2, CallsSafe DEF GoOn
<1>3. ASSUME NEW p \in Processes, op'[p] = None, NEW s, NEW v, GoOn(p, s, v),
             \A q \in Processes \ {p} : op'[q] = op[q]
      PROVE  CallsInv'
  BY <1>0, <1>3, CallsSafe DEF GoOn
<1>4. ASSUME NEW p \in Processes, NEW o, op' = [op EXCEPT ![p] = o], UNCHANGED stage,
             o # None => stage[p] \in {"serving", "draining"}
      PROVE  CallsInv'
  BY <1>0, <1>4, CallsSafe
<1>5. ASSUME NEW p \in Processes, Starting(p), UNCHANGED storageVars
      PROVE  CallsInv'
  <2>1. UNCHANGED op /\ (stage[p] \notin {"serving", "draining"} => op[p] = None)
    BY <1>5 DEF storageVars, CallsInv
  <2>2. stage[p] \notin {"serving", "draining"}
    BY <1>5 DEF Starting, Boot, MigrationStep, Look, RunFile, Record, Commit, ComesSecond, TiresOfWaiting, Listen
  <2>3. \E s, v : GoOn(p, s, v)
    BY <1>5 DEF Starting, Boot, MigrationStep, Look, RunFile, Record, Commit, ComesSecond, TiresOfWaiting,
                Listen, Exit
  <2> QED
    BY <1>2, <2>1, <2>2, <2>3
<1>6. ASSUME NEW p \in Processes, Stopping(p), UNCHANGED storageVars
      PROVE  CallsInv'
  <2>1. UNCHANGED op
    BY <1>6 DEF storageVars
  <2>2. CASE Signal(p)
    BY <1>2, <2>1, <2>2 DEF Signal
  <2>3. CASE Drained(p)
    BY <1>2, <2>1, <2>3 DEF Drained, Exit
  <2> QED
    BY <1>6, <2>2, <2>3 DEF Stopping
<1>7. ASSUME NEW p \in Processes, Crash(p) \/ Deadline(p)
      PROVE  CallsInv'
  <2>1. Dies(p) /\ GoOn(p, "off", 1)
    BY <1>7 DEF Crash, Deadline, Exit
  <2>2. op'[p] = None /\ \A q \in Processes \ {p} : op'[q] = op[q]
    BY <1>0, <2>1 DEF Dies, Leave, storageVars
  <2> QED
    BY <1>3, <2>1, <2>2
<1>8. ASSUME NEW p \in Processes, MigrationFails(p), UNCHANGED storageVars
      PROVE  CallsInv'
  <2>1. UNCHANGED op /\ op[p] = None
    BY <1>8 DEF MigrationFails, storageVars, CallsInv, Migrating
  <2> QED
    BY <1>2, <1>8, <2>1 DEF MigrationFails, Exit
<1>9. ASSUME NEW p \in Processes, ReturnsError(p) \/ StorageStep(p), UNCHANGED migrationVars
      PROVE  CallsInv'
  <2>1. UNCHANGED stage
    BY <1>9 DEF migrationVars
  <2>2. CASE ReturnsError(p) \/ Return(p)
    BY <1>4, <2>1, <2>2 DEF ReturnsError, Return, Leave
  <2>3. CASE OpenTemp(p) \/ WriteTemp(p) \/ Rename(p) \/ RemoveFile(p)
    <3>1. op[p] # None /\ \E next : op' = [op EXCEPT ![p] = [op[p] EXCEPT !.next = next]]
      BY <2>3 DEF OpenTemp, WriteTemp, Rename, RemoveFile, At, Goto
    <3>2. stage[p] \in {"serving", "draining"}
      BY <3>1 DEF CallsInv
    <3> QED
      BY <1>4, <2>1, <3>1, <3>2
  <2> QED
    BY <1>9, <2>2, <2>3 DEF StorageStep
<1>10. ASSUME NEW p \in Processes, RemoveObject(p) \/ \E image \in Images : Upload(p, image),
              UNCHANGED migrationVars
      PROVE  CallsInv'
  <2>1. UNCHANGED stage /\ stage[p] = "serving" /\ \E o : op' = [op EXCEPT ![p] = o]
    BY <1>10 DEF migrationVars, RemoveObject, Upload, Enter
  <2> QED
    BY <1>4, <2>1
<1>11. CASE UNCHANGED vars
  BY <1>1, <1>11 DEF vars, migrationVars, storageVars
<1> QED
  BY <1>5, <1>6, <1>7, <1>8, <1>9, <1>10, <1>11 DEF Next

-----------------------------------------------------------------------------
(* The theorems.                                                           *)

IInv == MigrationInv /\ DataInv /\ StorageInv /\ CallsInv /\ faults \in 0..MaxFaults

\* All parts of the invariant hold at the start.
LEMMA Start == Init => IInv
<1> SUFFICES ASSUME Init PROVE IInv
  OBVIOUS
<1>1. CallsInv /\ faults \in 0..MaxFaults
  BY MaxFaultsAssumption DEF Init, StorageInit, CallsInv
<1> QED
  BY <1>1, MigrationInvInit, DataInvInit, StorageInvInit DEF IInv

\* Every step keeps all of them.
LEMMA EveryStep == IInv /\ [Next]_vars => IInv'
<1> SUFFICES ASSUME IInv, [Next]_vars PROVE IInv'
  OBVIOUS
<1>1. MigrationInv' /\ DataInv' /\ StorageInv' /\ CallsInv'
  BY MigrationInvNext, DataInvNext, StorageInvNext, CallsInvNext DEF IInv
<1>2. faults' = faults \/ Fault
  BY DEF Next, vars, processVars
<1>3. faults' \in 0..MaxFaults
  BY <1>2, MaxFaultsAssumption DEF Fault, IInv
<1> QED
  BY <1>1, <1>3 DEF IInv

\* The strengthening: at every step of every process, the committed database and the one
\* in the making have kept what there was.
THEOREM UpgradeInvariance == Spec => []IInv
BY Start, EveryStep, PTL DEF Spec

\* Databases stay well-formed, and only processes that serve or drain are inside a call.
THEOREM ProcessTypeCorrect == Spec => []TypeOK
<1>1. IInv => TypeOK
  <2> SUFFICES ASSUME IInv PROVE TypeOK
    OBVIOUS
  <2>1. \A d : WellFormed(d) /\ Kept(d) => d \in Database
    BY DEF WellFormed, Kept, Linked, Database
  <2>2. MigrationTypeOK
    BY <2>1 DEF IInv, MigrationInv, MigrationTyped, DataInv, AtItsFile, MigrationTypeOK
  <2>3. StorageTypeOK /\ drawn \subseteq Keys
    BY DEF IInv, StorageInv, Made, StorageTypeOK
  <2> QED
    BY <2>2, <2>3 DEF IInv, CallsInv, TypeOK
<1> QED
  BY <1>1, UpgradeInvariance, PTL

\* TestMigrationFourPreservesExistingSourceLinks (database_test.go:11), for every old
\* database: whoever races and crashes, no article loses or reorders a source, each
\* source row ends with one article, and no editor's category is taken over.
THEOREM UpgradesKeepData == Spec => []UpgradeKeepsData
<1>1. IInv => UpgradeKeepsData
  <2> SUFFICES ASSUME IInv PROVE UpgradeKeepsData
    OBVIOUS
  <2>1. Kept(db) /\ db.ran = db.applied
    BY DEF IInv, DataInv, MigrationInv, FilesInOrder
  <2>2. ASSUME 4 \in db.applied, NEW s \in SourceIds
        PROVE  Cardinality({x \in db.links : x[2] = s}) = IF db.sources[s] = None THEN 0 ELSE 1
    <3> DEFINE rows == {x \in db.links : x[2] = s}
    <3>1. CASE db.sources[s] = None
      <4>1. rows = {}
        BY <2>1, <3>1 DEF Kept
      <4> QED
        BY <3>1, <4>1, FS_EmptySet
    <3>2. CASE db.sources[s] # None
      <4>1. PICK a \in Articles : <<a, s>> \in db.links
        BY <2>1, <2>2, <3>2 DEF Kept
      <4>2. rows = {<<a, s>>}
        <5>1. <<a, s>> \in rows
          BY <4>1
        <5>2. \A x \in rows : x = <<a, s>>
          BY <2>1, <2>2, <4>1 DEF Kept
        <5> QED
          BY <5>1, <5>2
      <4> QED
        BY <3>2, <4>2, FS_Singleton
    <3> QED
      BY <3>1, <3>2
  <2> QED
    BY <2>1, <2>2 DEF Kept, UpgradeKeepsData
<1> QED
  BY <1>1, UpgradeInvariance, PTL
=============================================================================
