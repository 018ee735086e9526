-------------------------- MODULE MCIntegrationHub --------------------------
(* IntegrationHub on small instances for TLC.                              *)
EXTENDS IntegrationHub, TLC

\* Replicas are interchangeable; the targets are not (one
\* may be unconfigured).
Symmetry == Permutations(Sweepers)
=============================================================================
