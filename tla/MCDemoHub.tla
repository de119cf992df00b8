------------------------------ MODULE MCDemoHub ------------------------------
(***************************************************************************)
(* An instance of DemoHub for TLC.                                         *)
(***************************************************************************)
EXTENDS DemoHub
=============================================================================
