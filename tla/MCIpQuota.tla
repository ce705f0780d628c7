------------------------------- MODULE MCIpQuota -------------------------------
(***************************************************************************)
(* A small instance of IpQuota; its requests are interchangeable.          *)
(***************************************************************************)
EXTENDS IpQuota, TLC

Symmetries == Permutations(Requests)
================================================================================
