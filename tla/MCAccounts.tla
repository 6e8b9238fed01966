----------------------------- MODULE MCAccounts -----------------------------
(* Instances of Accounts for TLC. *)
EXTENDS Accounts, TLC

CONSTANTS shengxu, linxi, c1, c2

\* A coordinator, and the same account with another code, scope, role or status.
MCForms ==
  LET form == [status |-> "enabled", scope |-> shengxu, role |-> "coordinator", code |-> c1]
  IN {form, [form EXCEPT !.code = c2], [form EXCEPT !.scope = linxi],
      [form EXCEPT !.role = "resource"], [form EXCEPT !.status = "disabled"]}

Symmetry == Permutations(Procs) \cup Permutations(Users) \cup Permutations(Sessions)

=============================================================================
