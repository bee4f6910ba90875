------------------------------ MODULE MCRunView ------------------------------
(***************************************************************************)
(* Instances of RunView for TLC: the two runs last shown of a workflow.    *)
(***************************************************************************)
EXTENDS RunView
=============================================================================
