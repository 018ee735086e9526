--------------------------- MODULE MCApprovalDesk ---------------------------
(* ApprovalDesk on small instances for TLC.                                *)
EXTENDS ApprovalDesk, TLC

\* Approvers who prepare nothing are interchangeable.
Symmetry == Permutations(Approvers \ Preparers)
=============================================================================
