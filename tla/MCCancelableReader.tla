------------------------- MODULE MCCancelableReader -------------------------
(* An instance of CancelableReader for TLC.                                  *)
EXTENDS CancelableReader
=============================================================================
