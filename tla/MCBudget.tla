------------------------------- MODULE MCBudget -------------------------------
(***************************************************************************)
(* Small instances of Budget.  Questions are interchangeable, and so are   *)
(* the other calls: their permutations are symmetries, as every property   *)
(* is a safety property.                                                   *)
(***************************************************************************)
EXTENDS Budget, TLC

Symmetries == Permutations(Questions) \cup Permutations(Calls \ Questions)
===============================================================================
