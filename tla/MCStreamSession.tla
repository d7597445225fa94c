-------------------------- MODULE MCStreamSession ---------------------------
\* Clients with one launch each.
EXTENDS StreamSession, TLC

CONSTANTS l1, l2

\* Launches are interchangeable.
SameLaunches == Permutations({l1, l2})
=============================================================================
