------------------------------ MODULE MCTripAdmin ------------------------------
\* Two vehicles of one company, a trip from the start and room for another.
EXTENDS TripAdmin, TLC

Perms == Permutations(Passengers) \cup Permutations(Calls) \cup Permutations(Days)
==============================================================================
