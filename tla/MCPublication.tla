------------------------------ MODULE MCPublication ------------------------------
\* One prompt that may cite either of two sources, and three requests at a time.
EXTENDS Publication, TLC

RequestSymmetry ==
  Permutations(Requests) \cup Permutations(Sources) \cup Permutations(Reviewers)
==============================================================================
