------------------------------ MODULE MCDebounce ------------------------------
(* The instance of Debounce that TLC checks: Debounce itself is finite.    *)
EXTENDS Debounce
=============================================================================
