------------------------------- MODULE MCReload -------------------------------
(* The instances of Reload that TLC checks.                                *)
EXTENDS Reload
=============================================================================
