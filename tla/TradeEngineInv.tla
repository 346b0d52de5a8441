-------------------------- MODULE TradeEngineInv --------------------------
(***************************************************************************)
(* The inductive invariant of TradeEngine that its proofs share: what the  *)
(* engine tracks and counts, what its positions account for, and where in  *)
(* its cycle it is.                                                        *)
(***************************************************************************)
EXTENDS TradeEngine, SessionProofs

\* The orders the engine tracks, and the ticker and side that messages about them
\* name.
TrackingInv ==
    /\ IsFiniteSet(DOMAIN pending_orders)
    /\ \A id \in DOMAIN pending_orders :
          id \in 1 .. next_order_id - 1 /\ pending_orders[id] \in Tracked
    /\ TracksLiveOrders

SameTicker ==
    \A id \in DOMAIN pending_orders : Names(id, pending_orders[id].ticker_id, pending_orders[id].side)

CountInv == open_order_count \in [Tickers -> Nat] /\ CountsTrackedOrders

Ledgers == [cost : Int, over : Nat, under : Nat]

\* PnlAccountsForFills, also for the tickers without a position.
Accounted(p, l) ==
    -l.under =< Booking(p) + l.cost /\ Booking(p) + l.cost =< l.over

BookingInv ==
    /\ DOMAIN positions \subseteq Tickers
    /\ \A t \in DOMAIN positions : positions[t] \in Positions
    /\ ledger \in [Tickers -> Ledgers]
    /\ \A t \in Tickers : Accounted(get_position(positions, t), ledger[t])

ControlInv ==
    /\ running \in BOOLEAN /\ forgot \in BOOLEAN
    /\ cycle \in [at : {"idle", "responses", "market"}, left : 0 .. max_events_per_cycle]
    /\ todo \in Seq(Orders) /\ DOMAIN limits \subseteq Tickers

\* The inductive invariant.
Inv == SessionInv /\ TrackingInv /\ SameTicker /\ CountInv /\ BookingInv /\ ControlInv
=============================================================================
