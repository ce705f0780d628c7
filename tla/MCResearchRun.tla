---------------------------- MODULE MCResearchRun ----------------------------
(***************************************************************************)
(* Small instances of ResearchRun.  Requests are interchangeable, and so   *)
(* are users, runs and workers: their permutations are symmetries of every *)
(* safety property.  No symmetry is used with liveness.                    *)
(***************************************************************************)
EXTENDS ResearchRun, TLC

Symmetries == Permutations(Users) \cup Permutations(Runs) \cup Permutations(Requests) \cup Permutations(Workers)
==============================================================================
