---------------------------- MODULE MCRateLimit ----------------------------
(***************************************************************************)
(* Instances of RateLimit for TLC: two windows, so that a thread that read *)
(* the clock in the first can come late to the second.                     *)
(***************************************************************************)
EXTENDS RateLimit
=============================================================================
