------------------------------ MODULE MCLogfs ------------------------------
(***************************************************************************)
(* Instances of Logfs for TLC; each cfg gives the constants their values.  *)
(***************************************************************************)
EXTENDS Logfs

=============================================================================
