-------------------------- MODULE MCExceptionQueue --------------------------
(* ExceptionQueue on small instances for TLC.                              *)
EXTENDS ExceptionQueue, TLC

CONSTANTS Amount, Pack   \* two exception categories

\* BR-06's amount and rate checks share a category, SL-01 has its own.
SharedCategory == 1 :> Amount @@ 2 :> Amount @@ 3 :> Pack
\* A check each, and one that nobody has mapped.
OwnCategory == 1 :> Amount @@ 2 :> Pack @@ 3 :> Unmapped

Everything(v) == [r \in {1, 2, 3} |-> v]
\* Passes throughout, fails on both mapped checks, or finds one failure beside
\* the unmapped one with the other check not applicable.
SomeRuns == {Everything("passes"),
             [Everything("fails") EXCEPT ![3] = "passes"],
             [Everything("silent") EXCEPT ![1] = "fails", ![3] = "fails"]}
\* The amount and the rate both wrong, then one of them corrected.
AmountRuns == {Everything("passes"),
               [Everything("passes") EXCEPT ![1] = "fails", ![2] = "fails"],
               [Everything("passes") EXCEPT ![2] = "fails"]}

Symmetry == Permutations(Cases) \cup Permutations(Sessions)
=============================================================================
