---------------------------- MODULE MCEventStream ----------------------------
(***************************************************************************)
(* Small instances of EventStream: one run and one tab, so there is        *)
(* nothing to permute; the bounds are in the configuration.               *)
(***************************************************************************)
EXTENDS EventStream
==============================================================================
