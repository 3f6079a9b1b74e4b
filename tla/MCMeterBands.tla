---------------------------- MODULE MCMeterBands ----------------------------
(* Finite instances of MeterBands.                                         *)
EXTENDS MeterBands
=============================================================================
