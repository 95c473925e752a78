---- MODULE MCAuthFlow ----
EXTENDS AuthFlow, TLC

Symmetry == Permutations(Handlers) \cup Permutations(Emails)
====
