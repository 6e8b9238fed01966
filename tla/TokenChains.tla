------------------------------ MODULE TokenChains ------------------------------
(****************************************************************************)
(* What sessions promise: a session is opened once, has one current refresh *)
(* token at a time, every token is newer than all before it, and a session  *)
(* that is closed stays closed.                                             *)
(****************************************************************************)
EXTENDS Naturals

CONSTANTS Sessions

VARIABLES
  current,  \* the current token of each open session, 0 for the others
  newest,   \* the newest token handed out
  closed    \* sessions that are over

vars == <<current, newest, closed>>

Init ==
  /\ current \in [Sessions -> Nat]
  /\ newest \in Nat
  /\ \A s \in Sessions : current[s] <= newest
  /\ closed = {}

\* Open a new session, or give an open one its next token.
HandOut(s) ==
  /\ s \notin closed
  /\ newest' = newest + 1
  /\ current' = [current EXCEPT ![s] = newest']
  /\ UNCHANGED closed

\* Close some of the open sessions, those of one account.
Close ==
  \E over \in SUBSET {s \in Sessions : current[s] # 0} :
    /\ over # {}
    /\ current' = [s \in Sessions |-> IF s \in over THEN 0 ELSE current[s]]
    /\ closed' = closed \cup over
    /\ UNCHANGED newest

Next == Close \/ \E s \in Sessions : HandOut(s)

Spec == Init /\ [][Next]_vars

=============================================================================
