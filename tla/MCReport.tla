------------------------------ MODULE MCReport ------------------------------
(***************************************************************************)
(* A search for TLC to run and report on, beside the plan of its dry run.  *)
(***************************************************************************)
EXTENDS Report, MCSearch
=============================================================================
