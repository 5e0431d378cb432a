------------------------------ MODULE MCIndex ------------------------------
(***************************************************************************)
(* Instances of Index for TLC; each cfg gives the constants their values.  *)
(***************************************************************************)
EXTENDS Index

CONSTANT absent

=============================================================================
