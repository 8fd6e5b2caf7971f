---------------------------- MODULE MCMediaStore ----------------------------
(* Instances of MediaStore for TLC.                                         *)
EXTENDS MediaStore, TLC

Interchangeable == Permutations(Requests) \cup Permutations(Keys) \cup Permutations(ArticleIds)

\* What failures and crashes may have left behind: rows with and without their
\* objects, queued deletions done and not done, objects nobody names.
LeftBehind ==
  /\ articles \in SUBSET ArticleIds
  /\ mediaArticle \in [Keys -> articles \cup {NoArticle}]
  /\ queue \in [Keys -> (ArticleIds \ articles) \cup {NoArticle}]
  /\ \A k \in Keys : ~(HasRow(k) /\ Queued(k))
  /\ objects \in SUBSET Keys
  /\ cover = {}
  /\ mu = Nobody
  /\ pc = [r \in Requests |-> "idle"]
  /\ target = [r \in Requests |-> NoArticle]
  /\ key = [r \in Requests |-> NoKey]
  /\ todo = [r \in Requests |-> {}]
  /\ code = [r \in Requests |-> 0]
  /\ admin = {}

RecoverySpec == LeftBehind /\ [][Next]_vars /\ Fairness
=============================================================================
