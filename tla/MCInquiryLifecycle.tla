-------------------------- MODULE MCInquiryLifecycle --------------------------
(* An instance of InquiryLifecycle for TLC. *)
EXTENDS InquiryLifecycle, TLC

RowSymmetry == Permutations(Procs) \cup Permutations(Itineraries) \cup Permutations(Tours)
               \cup Permutations(Facts) \cup Permutations(Plans)
=============================================================================
