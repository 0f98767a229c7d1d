------------------------------ MODULE MCRelay ------------------------------
EXTENDS Relay, TLC

CONSTANTS c1, c2

\* The up direction of c1 can fill a batch or leave a remainder, what its other
\* direction counts takes it over the threshold, and c2 disturbs it with one chunk.
UnequalBytes ==
  (<<c1, "up">> :> 2) @@ (<<c1, "down">> :> 1) @@ (<<c2, "up">> :> 1) @@ (<<c2, "down">> :> 0)
=============================================================================
