-------------------------------- MODULE Types --------------------------------
(***************************************************************************)
(* common/src/types.rs: sides, the sentinel price, and the saturating      *)
(* subtraction of the unsigned quantities.                                 *)
(***************************************************************************)
EXTENDS Integers

BUY == 1
SELL == -1
Sides == {BUY, SELL}

INVALID_PRICE == 1000000    \* i64::MAX: above every price

saturating_sub(a, b) == IF a > b THEN a - b ELSE 0
=============================================================================
