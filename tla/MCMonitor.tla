----------------------------- MODULE MCMonitor -----------------------------
(***************************************************************************)
(* Monitor with an unsigned of two bits.                                   *)
(***************************************************************************)
EXTENDS Monitor
=============================================================================
