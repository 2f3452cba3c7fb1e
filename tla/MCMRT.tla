------------------------------- MODULE MCMRT --------------------------------
(* Model checking of MRT.                                                  *)
EXTENDS MRT
=============================================================================
