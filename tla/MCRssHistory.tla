----------------------------- MODULE MCRssHistory -----------------------------
(***************************************************************************)
(* A small instance of RssHistory: a feed with three pages of history and  *)
(* one of which the platform has nothing.                                  *)
(***************************************************************************)
EXTENDS RssHistory, TLC

CONSTANTS f1, f2
TwoFeeds == {f1, f2}
SmallUpstream == (f1 :> 3) @@ (f2 :> 0)
===============================================================================
