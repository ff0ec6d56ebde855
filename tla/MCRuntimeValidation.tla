------------------------ MODULE MCRuntimeValidation ------------------------
(***************************************************************************)
(* Instances of RuntimeValidation for TLC: with more request threads than  *)
(* slots (runtime_validation), and as many tasks (runtime_busy).           *)
(***************************************************************************)
EXTENDS RuntimeValidation
=============================================================================
