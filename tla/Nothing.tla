------------------------------- MODULE Nothing -------------------------------
(* What stands for an absent value (null or undefined in the code).        *)
CONSTANT None
==============================================================================
