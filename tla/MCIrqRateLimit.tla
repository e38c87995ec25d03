--------------------------- MODULE MCIrqRateLimit ---------------------------
(* Instances of IrqRateLimit for TLC.                                       *)
EXTENDS IrqRateLimit
=============================================================================
