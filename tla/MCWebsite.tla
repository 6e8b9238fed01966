------------------------------ MODULE MCWebsite ------------------------------
(* An instance of Website for TLC: a city and an attraction in it, the attraction *)
(* refers to a shared resource.                                                   *)
EXTENDS Website, TLC

CONSTANTS city, sight, resource

MCCityOf == city :> NoOne @@ sight :> city
MCResourceOf == city :> NoOne @@ sight :> resource
MCPlans == {{city}, {city, sight}}
MCDrafts == {city :> "enabled" @@ sight :> s : s \in {"absent", "enabled"}}

RowSymmetry == Permutations(Procs) \cup Permutations(Itineraries)
=============================================================================
