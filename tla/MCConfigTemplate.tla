-------------------------- MODULE MCConfigTemplate --------------------------
(***************************************************************************)
(* ConfigTemplate for TLC.  There are as many process ids as invocations,  *)
(* so that two may run at once and either may be given the other's id      *)
(* after it ended.                                                         *)
(***************************************************************************)
EXTENDS ConfigTemplate
=============================================================================
