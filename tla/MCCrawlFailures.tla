---------------------------- MODULE MCCrawlFailures ----------------------------
(***************************************************************************)
(* A small instance of CrawlFailures; visits are interchangeable.          *)
(***************************************************************************)
EXTENDS CrawlFailures, TLC

Symmetries == Permutations(Visits)
================================================================================
