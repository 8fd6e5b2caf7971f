---------------------------- MODULE MediaLedger ----------------------------
(***************************************************************************)
(* What the media part of the blog promises about each image object,       *)
(* whatever fails: the database publishes it only once it is stored, moves *)
(* all the images of a deleted article to the deletion queue together, and *)
(* forgets an object only once it is no longer stored.  MediaStore is      *)
(* shown to implement this.                                                *)
(***************************************************************************)
CONSTANTS Keys, ArticleIds, NoArticle

VARIABLES
  owner,      \* the article that publishes an object, or NoArticle
  condemned,  \* the deleted article whose object is to be deleted, or NoArticle
  stored      \* the objects that exist

vars == <<owner, condemned, stored>>

Unknown(k) == owner[k] = NoArticle /\ condemned[k] = NoArticle

Init ==
  /\ owner = [k \in Keys |-> NoArticle]
  /\ condemned = [k \in Keys |-> NoArticle]
  /\ stored = {}

\* An object is written before the database hears of it.
Store(k) ==
  /\ Unknown(k)
  /\ stored' = stored \cup {k}
  /\ UNCHANGED <<owner, condemned>>

Drop(k) ==
  /\ stored' = stored \ {k}
  /\ UNCHANGED <<owner, condemned>>

Publish(k, a) ==
  /\ Unknown(k)
  /\ k \in stored
  /\ \A j \in Keys : condemned[j] # a
  /\ owner' = [owner EXCEPT ![k] = a]
  /\ UNCHANGED <<condemned, stored>>

\* Deleting an article condemns its images, all at once.
Condemn(a) ==
  /\ \A k \in Keys : condemned[k] # a
  /\ condemned' = [k \in Keys |-> IF owner[k] = a THEN a ELSE condemned[k]]
  /\ owner' = [k \in Keys |-> IF owner[k] = a THEN NoArticle ELSE owner[k]]
  /\ UNCHANGED stored

Unpublish(k) ==
  /\ k \notin stored
  /\ owner' = [owner EXCEPT ![k] = NoArticle]
  /\ UNCHANGED <<condemned, stored>>

Forget(k) ==
  /\ k \notin stored
  /\ condemned' = [condemned EXCEPT ![k] = NoArticle]
  /\ UNCHANGED <<owner, stored>>

Next ==
  \/ \E k \in Keys : Store(k) \/ Drop(k) \/ Unpublish(k) \/ Forget(k)
  \/ \E k \in Keys, a \in ArticleIds : Publish(k, a)
  \/ \E a \in ArticleIds : Condemn(a)

Spec == Init /\ [][Next]_vars
=============================================================================
