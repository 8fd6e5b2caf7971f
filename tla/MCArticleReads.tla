--------------------------- MODULE MCArticleReads ---------------------------
(* Instances of ArticleReads for TLC.                                       *)
EXTENDS ArticleReads, TLC

CONSTANTS a1, a2, a3, s1, s2, s3, c1, u1

\* Articles are as new as their names say, so that of three a list leaves out a1.
MCNewer == {<<a3, a2>>, <<a3, a1>>, <<a2, a1>>}

\* An article with everything, its draft, one related to the first, and another.
MCInputs ==
  { [slug |-> s1, status |-> "published", cats |-> {c1}, urls |-> {u1}, related |-> {}],
    [slug |-> s1, status |-> "draft", cats |-> {}, urls |-> {}, related |-> {}],
    [slug |-> s2, status |-> "published", cats |-> {}, urls |-> {u1}, related |-> {a1}],
    [slug |-> s3, status |-> "published", cats |-> {c1}, urls |-> {}, related |-> {}] }

\* Nothing that follows an answer is explored: the next request would begin like the first.
OneRequest == \A r \in Readers : status[r] = 0
=============================================================================
