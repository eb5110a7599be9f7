--------------------------- MODULE MCCaddyHandoff ---------------------------
(***************************************************************************)
(* CaddyHandoff with the script's own numbers and up to three renewals.     *)
(***************************************************************************)
EXTENDS CaddyHandoff
=============================================================================
