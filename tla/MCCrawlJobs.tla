----------------------------- MODULE MCCrawlJobs -----------------------------
(***************************************************************************)
(* A small instance of CrawlJobs; no symmetry, since liveness is checked.  *)
(***************************************************************************)
EXTENDS CrawlJobs
==============================================================================
