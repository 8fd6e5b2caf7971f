--------------------------- MODULE MCArticleStore ---------------------------
(* Instances of ArticleStore for TLC.                                       *)
EXTENDS ArticleStore, TLC

CONSTANTS a1, a2, s1, s2, c1, c2, u1

\* An article without links, one with every kind of link, one that needs the slug of
\* the first.
MCInputs ==
  { [slug |-> s1, status |-> "published", cats |-> {}, urls |-> {u1}, related |-> {}],
    [slug |-> s2, status |-> "draft", cats |-> {c1}, urls |-> {u1}, related |-> {a1}],
    [slug |-> s1, status |-> "draft", cats |-> {c2}, urls |-> {}, related |-> {a2}] }
=============================================================================
