----------------------------- MODULE MCExchange -----------------------------
(* An instance of Exchange for TLC.                                         *)
EXTENDS Exchange
=============================================================================
