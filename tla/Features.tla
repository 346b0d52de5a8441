------------------------------- MODULE Features ------------------------------
(***************************************************************************)
(* trading/src/features.rs: the features of a ticker and how a BBO updates *)
(* them.  The f64 values are exact fractions here: the imbalance is a pair *)
(* <<numerator, denominator>>, and the signal is scaled to an integer.     *)
(* trade_signal is computed from the other fields whenever they are set,   *)
(* so it is not stored.                                                    *)
(***************************************************************************)
EXTENDS BBO

NewFeatures == [mid_price |-> 0, fair_value |-> 0, spread |-> 0, imbalance |-> <<0, 1>>]

features_valid(f) == f.mid_price > 0 /\ f.fair_value > 0

\* The nearest integers to alpha * mid + (1 - alpha) * fair_value, where alpha is
\* 1/10.  Halfway between two, the f64 sum falls on either side of the tie.
EMA(fair_value, mid) ==
    {n \in (9 * fair_value + mid) \div 10 .. (9 * fair_value + mid) \div 10 + 1 :
       /\ 10 * n - (9 * fair_value + mid) =< 5
       /\ 10 * n - (9 * fair_value + mid) >= -5}

calculate_imbalance(b) == <<b[BUY].qty - b[SELL].qty, b[BUY].qty + b[SELL].qty>>

\* The values the features may have after the update.
on_bbo_update(f, b) ==
    IF ~is_valid(b) THEN {f}
    ELSE {[mid_price |-> mid_price(b), fair_value |-> fv, spread |-> spread(b),
           imbalance |-> calculate_imbalance(b)] :
             fv \in IF f.fair_value = 0 THEN {mid_price(b)} ELSE EMA(f.fair_value, mid_price(b))}

-----------------------------------------------------------------------------
Clamp(x, low, high) == IF x < low THEN low ELSE IF x > high THEN high ELSE x

\* The trade signal times 10 * spread * total quantity, with its sign: 7 parts
\* deviation of the fair value in spreads, within [-1, 1], 3 parts imbalance.
ScaledSignal(f) ==
    IF ~features_valid(f) \/ f.spread =< 0 THEN 0
    ELSE 7 * Clamp(f.fair_value - f.mid_price, -f.spread, f.spread) * f.imbalance[2]
         + 3 * f.imbalance[1] * f.spread
=============================================================================
