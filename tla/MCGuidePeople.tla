---------------------------- MODULE MCGuidePeople ----------------------------
(* Guide people and ratings, each against tours.  The requests that change a   *)
(* guide touch no row in common with those that save ratings or cancel tours,  *)
(* so a behaviour has the ones or the others (an ACTION_CONSTRAINT).           *)
EXTENDS MCGuideScheduling

PeopleAndRatingOps == PersonOps \cup RatingOps

ChangesGuides ==
  \/ \E p \in Procs : req[p].op \in {"updateGuide", "deleteGuides"}
  \/ \E g \in Guides : guides[g].version > 1 \/ guides[g].deleted

RatesOrCancels ==
  \/ \E p \in Procs : req[p].op \in {"saveRating", "cancelTour"}
  \/ \E t \in Tours : tours[t].status = "cancelled" \/ \E g \in Guides : ratings[t][g].version > 0

OneSubject == ~(ChangesGuides' /\ RatesOrCancels')
=============================================================================
