----------------------------- MODULE Arithmetic -----------------------------
(***************************************************************************)
(* Comparisons and absolute value, as std::min, std::max and std::abs.     *)
(***************************************************************************)
EXTENDS Integers

MinOf(a, b) == IF a < b THEN a ELSE b
MaxOf(a, b) == IF a < b THEN b ELSE a
Abs(n) == IF n < 0 THEN -n ELSE n
=============================================================================
