----------------------------- MODULE Migrations -----------------------------
(***************************************************************************)
(* Start-up: database.Open applies the migration files in order, each with *)
(* its row in schema_migrations in one transaction, but looks up whether a *)
(* file has been applied before that transaction.  Two processes may start *)
(* at once; SQLite lets one write at a time, and makes the other wait five *)
(* seconds.  Of the files, 004 (each article gets its own source rows) and *)
(* 006 (the initial categories) change data; the others add tables.        *)
(***************************************************************************)
EXTENDS Host, Integers, FiniteSets, SequencesExt, FiniteSetsExt

CONSTANTS
  Newest,      \* the number of migration files
  Articles,    \* ids of the articles in the database there may be already
  Urls,        \* and urls of its sources
  OldLinks,    \* possible contents of its article_sources: sets of <<article, source>>
  OldCategories,      \* possible sets of slugs in its categories
  InitialCategories    \* the slugs 006 inserts

ASSUME NewestAssumption == Newest = 6

\* Foreign keys hold: a link of the old database has its article and its source row.
ASSUME OldDataAssumption ==
  /\ Articles \subseteq Nat /\ IsFiniteSet(Articles)
  /\ IsFiniteSet(Urls) /\ None \notin Urls
  /\ OldLinks \subseteq SUBSET (Articles \X (1..Cardinality(Urls)))

Versions == 1..Newest
SourceIds == 1..Cardinality(Articles \X Urls)

VARIABLES
  db,      \* what is committed
  work,    \* what the open transaction has made of it
  lock,    \* the process whose transaction holds SQLite's write lock
  stage,   \* where each process is
  ver,     \* the file it is at
  legacy   \* the urls and categories the database began with: never changed

migrationVars == <<db, work, lock, stage, ver, legacy>>

\* applied: schema_migrations; ran: the files whose tables exist; sources: id -> url;
\* categories: slug -> who created it.
Database == [applied : SUBSET Versions, ran : SUBSET Versions,
             sources : [SourceIds -> Urls \cup {None}], links : SUBSET (Articles \X SourceIds),
             categories : [InitialCategories -> {"nobody", "editor", "migration"}]]

Migrating == {"look", "run", "record", "commit"}
Stages    == {"off", "ready", "serving", "draining"} \cup Migrating

MigrationTypeOK ==
  /\ db \in Database /\ work \in Database
  /\ lock \in Processes \cup {Nobody}
  /\ stage \in [Processes -> Stages]
  /\ ver \in [Processes -> 1..Newest + 1]
  /\ \A p \in Processes : lock = p <=> stage[p] \in {"record", "commit"}

\* The sources of an article, and the place of one of them in ORDER BY s.id.
SourcesOf(links, a) == {s \in SourceIds : <<a, s>> \in links}
Place(ids, s)       == Cardinality({t \in ids : t <= s})

\* The urls of an article, in the order the site shows them.
UrlsOf(d, a) ==
  LET ids == SourcesOf(d.links, a) IN
  [i \in 1..Cardinality(ids) |-> d.sources[CHOOSE s \in ids : Place(ids, s) = i]]

EmptyDatabase == [applied |-> {}, ran |-> {}, sources |-> [s \in SourceIds |-> None], links |-> {},
                  categories |-> [c \in InitialCategories |-> "nobody"]]

OldUrls == SetToSeq(Urls)

\* Tables of version 3, in which articles shared the row of a url.
OldDatabase(links, old) ==
  [applied |-> 1..3, ran |-> 1..3,
   sources |-> [s \in SourceIds |-> IF s \in DOMAIN OldUrls THEN OldUrls[s] ELSE None],
   links |-> links,
   categories |-> [c \in InitialCategories |-> IF c \in old THEN "editor" ELSE "nobody"]]

MigrationInit ==
  /\ db \in {OldDatabase(links, old) : links \in OldLinks, old \in OldCategories} \cup {EmptyDatabase}
  /\ work = db
  /\ lock = Nobody
  /\ stage = [p \in Processes |-> "off"]
  /\ ver = [p \in Processes |-> 1]
  /\ legacy = [urls |-> [a \in Articles |-> UrlsOf(db, a)],
               categories |-> {c \in InitialCategories : db.categories[c] = "editor"}]

-----------------------------------------------------------------------------
(* The files.                                                              *)

\* ROW_NUMBER() OVER (ORDER BY article_id, source_id) of a row of article_sources.
RowNumber(links, x) ==
  Cardinality({y \in links : y[1] < x[1] \/ (y[1] = x[1] /\ y[2] <= x[2])})

\* Variant: the links are numbered by source_id, article_id.
LinkNumber_BySource(links, x) ==
  Cardinality({y \in links : y[2] < x[2] \/ (y[2] = x[2] /\ y[1] <= x[1])})

\* The file numbers the rows twice, for sources and for article_sources.
LinkNumber(links, x) == RowNumber(links, x)

SplitSources(d) ==
  [d EXCEPT
    !.sources = [s \in SourceIds |->
                   IF s > Cardinality(d.links) THEN None
                   ELSE d.sources[(CHOOSE x \in d.links : RowNumber(d.links, x) = s)[2]]],
    !.links = {<<x[1], LinkNumber(d.links, x)>> : x \in d.links}]

\* INSERT OR IGNORE.
AddCategories(d) ==
  [d EXCEPT !.categories = [c \in InitialCategories |-> IF @[c] = "nobody" THEN "migration" ELSE @[c]]]

Body(v, d) ==
  LET changed == CASE v = 4 -> SplitSources(d) [] v = 6 -> AddCategories(d) [] OTHER -> d IN
  [changed EXCEPT !.ran = @ \cup {v}]

\* CREATE TABLE fails when the table is there; 001 and 006 may run twice.
Runs(v, d) == v \in {1, 6} \/ v \notin d.ran

-----------------------------------------------------------------------------
(* The steps of a process.                                                 *)

GoOn(p, s, v) == stage' = [stage EXCEPT ![p] = s] /\ ver' = [ver EXCEPT ![p] = v]

\* Open: schema_migrations exists from here on.
Boot(p) == /\ stage[p] = "off"
           /\ GoOn(p, "look", 1)
           /\ UNCHANGED <<db, work, lock, legacy>>

Look(p) ==
  /\ stage[p] = "look"
  /\ \/ ver[p] > Newest /\ GoOn(p, "ready", ver[p])
     \/ ver[p] \in db.applied /\ GoOn(p, "look", ver[p] + 1)
     \/ ver[p] \in Versions \ db.applied /\ GoOn(p, "run", ver[p])
  /\ UNCHANGED <<db, work, lock, legacy>>

\* Variant: the file is run outside a transaction.
RunFile_Bare(p) ==
  /\ stage[p] = "run"
  /\ lock = Nobody
  /\ Runs(ver[p], db)
  /\ lock' = p
  /\ db' = Body(ver[p], db) /\ work' = db'
  /\ GoOn(p, "record", ver[p])
  /\ UNCHANGED legacy

\* The first statement that writes takes the lock; until then nothing is read.
RunFile(p) ==
  /\ stage[p] = "run"
  /\ lock = Nobody
  /\ Runs(ver[p], db)
  /\ lock' = p
  /\ work' = Body(ver[p], db)
  /\ GoOn(p, "record", ver[p])
  /\ UNCHANGED <<db, legacy>>

\* The version is the primary key.
Record(p) ==
  /\ stage[p] = "record"
  /\ ver[p] \notin work.applied
  /\ work' = [work EXCEPT !.applied = @ \cup {ver[p]}]
  /\ GoOn(p, "commit", ver[p])
  /\ UNCHANGED <<db, lock, legacy>>

Commit(p) ==
  /\ stage[p] = "commit"
  /\ db' = work
  /\ lock' = Nobody
  /\ GoOn(p, "look", ver[p] + 1)
  /\ UNCHANGED <<work, legacy>>

\* Variant: a process that ends leaves the write lock behind.
Exit_KeepsLock(p) == GoOn(p, "off", 1) /\ UNCHANGED <<db, work, lock, legacy>>

\* The process ends, by itself or not; SQLite takes back what it has not committed.
Exit(p) ==
  /\ GoOn(p, "off", 1)
  /\ work' = IF lock = p THEN db ELSE work
  /\ lock' = IF lock = p THEN Nobody ELSE lock
  /\ UNCHANGED <<db, legacy>>

\* The file, or its row in schema_migrations, is there already: another process came first.
ComesSecond(p) ==
  /\ \/ stage[p] = "run" /\ lock = Nobody /\ ~Runs(ver[p], db)
     \/ stage[p] = "record" /\ ver[p] \in work.applied
  /\ Exit(p)

\* SQLITE_BUSY after five seconds.
TiresOfWaiting(p) == stage[p] = "run" /\ lock \notin {p, Nobody} /\ Exit(p)

MigrationStep(p) == Look(p) \/ RunFile(p) \/ Record(p) \/ Commit(p) \/ ComesSecond(p)

-----------------------------------------------------------------------------
(* Properties.                                                             *)

\* The applied files are the first so many; each has run exactly where its row is, also
\* after a crash in the middle and when two processes race; and a process that serves
\* has all of them under it.
VersionsInOrder ==
  /\ \E n \in 0..Newest : db.applied = 1..n
  /\ db.ran = db.applied
  /\ \A p \in Processes : stage[p] \in {"ready", "serving", "draining"} => db.applied = Versions

\* No upgrade loses or reorders the sources of an article or takes over an editor's
\* category, and after file 004 a source row belongs to exactly one article
\* (TestMigrationFourPreservesExistingSourceLinks, database_test.go:11).
UpgradeKeepsData ==
  /\ \A a \in Articles : UrlsOf(db, a) = legacy.urls[a]
  /\ \A c \in legacy.categories : db.categories[c] = "editor"
  /\ 4 \in db.applied =>
       \A s \in SourceIds : Cardinality({x \in db.links : x[2] = s}) = IF db.sources[s] = None THEN 0 ELSE 1
=============================================================================
