------------------------------- MODULE MCFeedback -------------------------------
\* Two travellers, three requests.
EXTENDS Feedback, TLC

Perms == Permutations(Calls) \cup Permutations(Users) \cup Permutations(Notices)
==============================================================================
