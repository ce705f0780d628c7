----------------------------- MODULE MCApprovals -----------------------------
(***************************************************************************)
(* Small instances of Approvals.  Approvals and clicks are interchangeable *)
(* and every property is a safety property, so symmetry is sound.          *)
(***************************************************************************)
EXTENDS Approvals, TLC

Symmetries == Permutations(Approvals) \cup Permutations(Clicks)
==============================================================================
