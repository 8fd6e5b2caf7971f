----------------------------- MODULE MCAdminForm -----------------------------
EXTENDS AdminForm

Symmetry == Permutations(Tokens)

Base == [user |-> <<"ed">>, editorPassword |-> "pw", sessionSecret |-> "s1", adminKey |-> "ak", hermesKey |-> "hk"]

\* The first three may run; the others are what Validate refuses.
MCConfigs == {Base, [Base EXCEPT !.sessionSecret = "s2"], [Base EXCEPT !.user = <<"eve">>],
              [Base EXCEPT !.hermesKey = "ak"], [Base EXCEPT !.user = <<"ed", "eve">>],
              [Base EXCEPT !.editorPassword = "hk"]}

PlainSource == [url |-> <<"u1">>, title |-> <<"t">>, publisher |-> <<"p">>, publishedAt |-> <<"">>, type |-> <<"k", "k">>]
BarSource   == [url |-> <<"u2">>, title |-> <<"t", "site">>, publisher |-> <<"p">>, publishedAt |-> <<"d">>, type |-> <<"">>]

\* An article with everything, and the status left to its default.
MCApiInputs ==
  {[body |-> "a", status |-> "", cats |-> {"c"}, sources |-> <<PlainSource, BarSource>>,
    relations |-> <<[id |-> "7", relation |-> <<"see">>]>>]}

\* A status that is not in the form's list, an empty line and a short one, and a relation
\* that is refused.
MCTyped ==
  {[body |-> "e", status |-> "reviewed", cats |-> {}, sourcesText |-> <<<<"u1">>, <<"">>, <<"u2", "t">>>>,
    relationsText |-> <<<<"seven">>>>]}
=============================================================================
