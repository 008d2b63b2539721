------------------------- MODULE MCAuxiliaryServices -------------------------
(***************************************************************************)
(* Model values for AuxiliaryServices: callers and process table entries  *)
(* are given as sets of model values in the configuration.                 *)
(***************************************************************************)
EXTENDS AuxiliaryServices
=============================================================================
