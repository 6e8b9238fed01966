----------------------------- MODULE FrozenOffers -----------------------------
(****************************************************************************)
(* What the inquiry services promise to the people who sell a trip: an      *)
(* offer, once frozen, keeps its content for good; a trip is sold from a    *)
(* frozen offer; and while it is sold, or after its inquiry is closed,      *)
(* nothing new is frozen.                                                   *)
(****************************************************************************)
CONSTANTS
  Inquiries,
  Offers,       \* the itineraries, one offer each
  Contents,     \* what an offer says
  NoContent,    \* an offer that is not frozen
  NotSold

VARIABLES
  offers,   \* the content of each offer of each inquiry
  sold,     \* the offer each inquiry is sold from
  closed    \* inquiries that are lost, archived or deleted

vars == <<offers, sold, closed>>

Init ==
  /\ offers \in [Inquiries -> [Offers -> Contents \cup {NoContent}]]
  /\ sold = [i \in Inquiries |-> NotSold]
  /\ closed = {}

Open(i) == i \notin closed /\ sold[i] = NotSold

Freeze(i, k) ==
  /\ Open(i)
  /\ offers[i][k] = NoContent
  /\ offers'[i][k] \in Contents
  /\ offers' = [offers EXCEPT ![i] = [offers[i] EXCEPT ![k] = offers'[i][k]]]
  /\ UNCHANGED <<sold, closed>>

Sell(i, k) ==
  /\ offers[i][k] # NoContent
  /\ Open(i)
  /\ sold' = [sold EXCEPT ![i] = k]
  /\ UNCHANGED <<offers, closed>>

Release(i) ==
  /\ sold[i] # NotSold
  /\ sold' = [sold EXCEPT ![i] = NotSold]
  /\ UNCHANGED <<offers, closed>>

Close(i) ==
  /\ Open(i)
  /\ closed' = closed \cup {i}
  /\ UNCHANGED <<offers, sold>>

Next ==
  \E i \in Inquiries :
    \/ \E k \in Offers : Freeze(i, k) \/ Sell(i, k)
    \/ Release(i) \/ Close(i)

Spec == Init /\ [][Next]_vars

=============================================================================
