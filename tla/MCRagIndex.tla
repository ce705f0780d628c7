------------------------------ MODULE MCRagIndex ------------------------------
(***************************************************************************)
(* Small instances of RagIndex; no symmetry, since items are ordered and   *)
(* liveness is checked.                                                    *)
(***************************************************************************)
EXTENDS RagIndex
===============================================================================
