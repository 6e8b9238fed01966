-------------------------- MODULE MCGuideScheduling --------------------------
(* Instances of GuideScheduling for TLC: which operations run against each     *)
(* other, and the times they submit.                                           *)
EXTENDS GuideScheduling, TLC

\* Two services that share only minute 540, and one on the next day.
SharedMinute == {<<480, 540>>, <<540, 600>>, <<1500, 1560>>}
OneDay == {<<0, 0>>, <<1, 1>>}
NoDays == {}
OneTime == {<<480, 540>>}

Midnight == {0}
LastMinuteAndAfter == {540, 541}

TourOps == {"createTour", "updateTour", "cancelTour"}
LeaveOps == {"createTour", "updateTour", "createLeave", "updateLeave", "deleteLeaves"}
PersonOps == {"createTour", "updateTour", "updateGuide", "deleteGuides"}
RatingOps == {"createTour", "updateTour", "cancelTour", "saveRating"}

RowSymmetry == Permutations(Procs) \cup Permutations(Tours) \cup Permutations(Leaves)
=============================================================================
