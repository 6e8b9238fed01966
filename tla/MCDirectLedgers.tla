--------------------------- MODULE MCDirectLedgers ---------------------------
(* Instances of DirectLedgers for TLC. *)
EXTENDS DirectLedgers, TLC

AllOps == {"create", "update", "convert", "review", "operate", "delete"}

Entry(converted, sent, loss, operator) ==
  [converted |-> converted, proposalSent |-> sent, loss |-> loss, operator |-> operator]

CONSTANTS ann, bob   \* users

\* Every step of a ledger's way to its operation, one with each operator.
Entries == {Entry(FALSE, FALSE, FALSE, ann), Entry(FALSE, TRUE, TRUE, ann),
            Entry(TRUE, TRUE, FALSE, ann), Entry(TRUE, TRUE, FALSE, bob),
            Entry(TRUE, TRUE, TRUE, ann)}

\* Entries that ask for something at once: of the operator, of the managers.
Urgent == {Entry(TRUE, TRUE, FALSE, bob), Entry(TRUE, TRUE, TRUE, ann)}

WriterSymmetry == Permutations(Writers)
=============================================================================
