----------------------------- MODULE MCProcess -----------------------------
EXTENDS Process

\* A tall photograph, a strip, a small image, and three that are refused: by a little,
\* by much, and because a side is missing.
MCImages == {<<1000, 3840>>, <<5000, 1>>, <<2, 3>>, <<5001, 5000>>, <<100, 1000000>>, <<0, 7>>}

\* Their JPEGs, and what the first one would become if its width were scaled to the limit.
MCData ==
  [source : {<<1000, 3840>>}, size : ({499, 500} \X {1919, 1920}) \cup ({1919, 1920} \X {7372})]
    \cup [source : {<<5000, 1>>}, size : {1919, 1920} \X {0}]
    \cup {[source |-> <<2, 3>>, size |-> <<2, 3>>]}

\* Articles 1 and 2 share a source, and 2 got its second one first.
MCOldLinks == {{<<1, 2>>, <<2, 1>>, <<2, 2>>}}
=============================================================================
