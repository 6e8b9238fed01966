---------------------------- MODULE MCGuideLeaves ----------------------------
(* Tours and leaves of one guide, with progress.  A behaviour has requests     *)
(* with up to two services against one leave, or requests with one morning     *)
(* service against two leaves, which one request may delete together (an       *)
(* ACTION_CONSTRAINT on what clients send).                                    *)
EXTENDS MCGuideScheduling, FiniteSets

CONSTANT FirstLeave

\* A service in the morning, and one that ends in the first minute of the next day.
MorningAndMidnight == {<<480, 540>>, <<1380, 1440>>}

Simple(services) == Cardinality(services) <= 1 /\ \A s \in services : s.from = 480

SecondLeave ==
  \/ \E l \in Leaves \ {FirstLeave} : leaves[l].status # "none"
  \/ \E p \in Procs : ~(req[p].leaves \subseteq {FirstLeave})

ManyServices ==
  \/ \E t \in Tours : ~Simple(tours[t].services)
  \/ \E p \in Procs : Cardinality(req[p].inputs) > 1 \/ ~Simple(NewServices(req[p].inputs))

LeavesOrServices == ~(SecondLeave' /\ ManyServices')
=============================================================================
