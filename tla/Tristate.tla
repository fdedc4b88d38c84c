------------------------------ MODULE Tristate ------------------------------
(***************************************************************************)
(* The three-valued logic of kconfig: no < mod < yes.                      *)
(***************************************************************************)
EXTENDS Integers

no  == 0
mod == 1
yes == 2
Tri == no..yes

EXPR_OR(a, b)  == IF a > b THEN a ELSE b
EXPR_AND(a, b) == IF a < b THEN a ELSE b
EXPR_NOT(a)    == 2 - a
=============================================================================
