---------------------------- MODULE SessionProofs ----------------------------
(***************************************************************************)
(* What the order of the messages between a client and the exchange        *)
(* guarantees, whatever the client does with them: an order is in one      *)
(* place, a cancel or its rejection never overtakes its order, and what a  *)
(* fill says is left of its order is what the client has still to hear of. *)
(* Before that, what a fill does to the position that a client keeps.      *)
(***************************************************************************)
EXTENDS Session, Position, Sums, TLAPS

\* The provers get more time than by default.
USE SMTT(30), ZenonT(30)

\* The positions of a sequence that grows by one.
LEMMA Longer ==
    \A n \in Nat : /\ n + 1 \in Nat /\ n + 1 \in 1 .. n + 1
                   /\ \A i \in 1 .. n : i \in 1 .. n + 1 /\ i # n + 1
                   /\ \A i \in 1 .. n + 1 : i \in 1 .. n \/ i = n + 1
  OBVIOUS

\* A sum in either order.
LEMMA Swapped == \A a, b \in Nat : a + b = b + a
  OBVIOUS

\* Nothing added changes nothing.
LEMMA NothingAdded == \A q \in Nat : q = q + 0 /\ q = 0 + q /\ q =< q
  OBVIOUS

-----------------------------------------------------------------------------
\* The positions the client keeps.
Positions ==
    [position : Int, open_qty : [Sides -> 0 .. QtyMod - 1], realized_pnl : Int, unrealized_pnl : Int,
     avg_open_price : Nat, last_price : Int]

\* What the fields that a property names are after a fill.
LEMMA FillFields ==
    ASSUME NEW p \in Positions, NEW side \in Sides, NEW qty \in Nat, NEW price \in Nat
    PROVE  LET q == on_fill(p, side, qty, price)
           IN  /\ q.position = p.position + side * qty
               /\ q.realized_pnl = p.realized_pnl + Realized(p, side * qty, price)
               /\ q.avg_open_price = OpenPrice(p, side * qty, price)
               /\ q.open_qty = p.open_qty
  BY DEF on_fill, update_unrealized_pnl, Positions

\* Division with the remainder it drops.
LEMMA Division ==
    ASSUME NEW a \in Nat, NEW n \in Nat \ {0}
    PROVE  /\ a \div n \in Nat
           /\ n * (a \div n) =< a
           /\ a =< n * (a \div n) + (n - 1)
  OBVIOUS

-----------------------------------------------------------------------------
\* Profit that is booked and not explained by the cost of what is held.
Booking(p) == p.realized_pnl - p.avg_open_price * p.position

\* A fill that opens, reduces, closes or flips a position books its exact cost.
LEMMA ExactFill ==
    ASSUME NEW p \in Positions, NEW side \in Sides, NEW qty \in Nat, NEW price \in Nat,
           p.position = 0 \/ Opposite(p.position, side * qty)
    PROVE  Booking(on_fill(p, side, qty, price)) + (side * qty) * price = Booking(p)
  <1> DEFINE sq == side * qty
             q == on_fill(p, side, qty, price)
             pos == p.position
             avg == p.avg_open_price
             rest == IF Opposite(pos, pos + sq) THEN price ELSE avg
  <1>1. /\ q.position = pos + sq /\ q.avg_open_price = OpenPrice(p, sq, price)
        /\ q.realized_pnl = p.realized_pnl + Realized(p, sq, price)
    BY FillFields
  <1>2. sq \in Int /\ pos \in Int /\ avg \in Int /\ p.realized_pnl \in Int
    BY DEF Positions, Sides, BUY, SELL
  <1> SUFFICES Booking(q) + sq * price = p.realized_pnl - avg * pos
    BY DEF Booking
  <1> HIDE DEF sq, q, pos, avg
  <1>3. CASE pos = 0
    <2>1. OpenPrice(p, sq, price) = price /\ Realized(p, sq, price) = 0
      BY <1>3 DEF OpenPrice, Realized, Opposite, pos
    <2>2. avg * pos = 0 /\ price * (pos + sq) = sq * price
      BY <1>2, <1>3
    <2>3. Booking(q) = p.realized_pnl + 0 - price * (pos + sq)
      BY <1>1, <1>2, <2>1 DEF Booking
    <2> QED
      BY <1>2, <2>2, <2>3
  <1>4. CASE pos > 0 /\ sq < 0
    <2>1. Realized(p, sq, price) = (price - avg) * (IF pos < -sq THEN pos ELSE -sq)
      BY <1>2, <1>4 DEF Realized, Opposite, Smaller, Abs, pos, avg
    <2>2. OpenPrice(p, sq, price) = IF pos < -sq THEN price ELSE avg
      BY <1>2, <1>4 DEF OpenPrice, Opposite, pos, avg
    <2>3. CASE pos < -sq
      <3>1. (price - avg) * pos - price * (pos + sq) + sq * price = -(avg * pos)
        BY <1>2
      <3>2. Booking(q) = p.realized_pnl + (price - avg) * pos - price * (pos + sq)
        BY <1>1, <1>2, <2>1, <2>2, <2>3 DEF Booking
      <3> QED
        BY <1>2, <3>1, <3>2
    <2>4. CASE ~(pos < -sq)
      <3>1. (price - avg) * (-sq) - avg * (pos + sq) + sq * price = -(avg * pos)
        BY <1>2
      <3>2. Booking(q) = p.realized_pnl + (price - avg) * (-sq) - avg * (pos + sq)
        BY <1>1, <1>2, <2>1, <2>2, <2>4 DEF Booking
      <3> QED
        BY <1>2, <3>1, <3>2
    <2> QED
      BY <2>3, <2>4
  <1>5. CASE pos < 0 /\ sq > 0
    <2>1. Realized(p, sq, price) = (avg - price) * (IF -pos < sq THEN -pos ELSE sq)
      BY <1>2, <1>5 DEF Realized, Opposite, Smaller, Abs, pos, avg
    <2>2. OpenPrice(p, sq, price) = IF -pos < sq THEN price ELSE avg
      BY <1>2, <1>5 DEF OpenPrice, Opposite, pos, avg
    <2>3. CASE -pos < sq
      <3>1. (avg - price) * (-pos) - price * (pos + sq) + sq * price = -(avg * pos)
        BY <1>2
      <3>2. Booking(q) = p.realized_pnl + (avg - price) * (-pos) - price * (pos + sq)
        BY <1>1, <1>2, <2>1, <2>2, <2>3 DEF Booking
      <3> QED
        BY <1>2, <3>1, <3>2
    <2>4. CASE ~(-pos < sq)
      <3>1. (avg - price) * sq - avg * (pos + sq) + sq * price = -(avg * pos)
        BY <1>2
      <3>2. Booking(q) = p.realized_pnl + (avg - price) * sq - avg * (pos + sq)
        BY <1>1, <1>2, <2>1, <2>2, <2>4 DEF Booking
      <3> QED
        BY <1>2, <3>1, <3>2
    <2> QED
      BY <2>3, <2>4
  <1> QED
    BY <1>2, <1>3, <1>4, <1>5 DEF Opposite, sq, pos

\* A fill that adds to a position books its cost up to the remainder that the
\* new average drops: less than one unit of price for each unit held.
LEMMA AveragedFill ==
    ASSUME NEW p \in Positions, NEW side \in Sides, NEW qty \in Nat, NEW price \in Nat,
           p.position # 0, ~Opposite(p.position, side * qty),
           NEW n, n = Abs(p.position + side * qty)
    PROVE  LET change == Booking(on_fill(p, side, qty, price)) + (side * qty) * price - Booking(p)
           IN  /\ n \in Nat \ {0}
               /\ p.position > 0 => 0 =< change /\ change =< n - 1
               /\ p.position < 0 => -(n - 1) =< change /\ change =< 0
  <1> DEFINE sq == side * qty
             q == on_fill(p, side, qty, price)
             pos == p.position
             avg == p.avg_open_price
             cost == avg * Abs(pos) + price * Abs(sq)
             new == cost \div n
             dropped == cost - n * new
             change == Booking(q) + sq * price - (p.realized_pnl - avg * pos)
  <1>1. /\ q.position = pos + sq /\ q.avg_open_price = OpenPrice(p, sq, price)
        /\ q.realized_pnl = p.realized_pnl + Realized(p, sq, price)
    BY FillFields
  <1>2. sq \in Int /\ pos \in Int /\ avg \in Nat /\ p.realized_pnl \in Int
    BY DEF Positions, Sides, BUY, SELL
  <1>3. OpenPrice(p, sq, price) = new /\ Realized(p, sq, price) = 0
    BY DEF OpenPrice, Realized
  <1> SUFFICES /\ n \in Nat \ {0}
               /\ pos > 0 => 0 =< change /\ change =< n - 1
               /\ pos < 0 => -(n - 1) =< change /\ change =< 0
    BY DEF Booking
  <1>4. pos # 0 /\ ~Opposite(pos, sq) /\ n = Abs(pos + sq)
    OBVIOUS
  <1> HIDE DEF sq, q, pos, avg
  <1>5. CASE pos > 0
    <2>1. sq >= 0 /\ n = pos + sq /\ n \in Nat \ {0}
      BY <1>2, <1>4, <1>5 DEF Opposite, Abs
    <2>2. cost = avg * pos + sq * price /\ cost \in Nat /\ avg * pos \in Int /\ sq * price \in Int
      BY <1>2, <1>5, <2>1 DEF Abs
    <2> HIDE DEF cost
    <2>3. new \in Nat /\ dropped \in Nat /\ dropped =< n - 1
      <3>1. new \in Nat /\ n * new =< cost /\ cost =< n * new + (n - 1)
        BY <2>1, <2>2, Division, Zenon
      <3>2. n * new \in Int
        BY <2>1, <3>1
      <3> HIDE DEF new
      <3> QED
        BY <2>1, <2>2, <3>1, <3>2
    <2> HIDE DEF new
    <2>4. q.position = n /\ new * n = n * new
      BY <1>1, <1>2, <2>1, <2>3
    <2>5. n * new \in Int /\ n * new = cost - dropped
      BY <2>1, <2>2, <2>3
    <2>6. Booking(q) = p.realized_pnl - n * new
      <3>1. q.realized_pnl = p.realized_pnl /\ q.avg_open_price = new
        BY <1>1, <1>2, <1>3
      <3> QED
        BY <2>4, <3>1 DEF Booking
    <2> HIDE DEF dropped
    <2>7. change = dropped
      BY <1>2, <2>2, <2>3, <2>5, <2>6
    <2> HIDE DEF change
    <2> QED
      BY <1>2, <1>5, <2>1, <2>3, <2>7
  <1>6. CASE pos < 0
    <2>1. sq =< 0 /\ n = -(pos + sq) /\ n \in Nat \ {0}
      BY <1>2, <1>4, <1>6 DEF Opposite, Abs
    <2>2. cost = -(avg * pos) - sq * price /\ cost \in Nat /\ avg * pos \in Int /\ sq * price \in Int
      BY <1>2, <1>6, <2>1 DEF Abs
    <2> HIDE DEF cost
    <2>3. new \in Nat /\ dropped \in Nat /\ dropped =< n - 1
      <3>1. new \in Nat /\ n * new =< cost /\ cost =< n * new + (n - 1)
        BY <2>1, <2>2, Division, ZenonT(30)
      <3>2. n * new \in Int
        BY <2>1, <3>1
      <3> HIDE DEF new
      <3> QED
        BY <2>1, <2>2, <3>1, <3>2
    <2> HIDE DEF new
    <2>4. q.position = -n /\ new * (-n) = -(n * new)
      BY <1>1, <1>2, <2>1, <2>3
    <2>5. n * new \in Int /\ n * new = cost - dropped
      BY <2>1, <2>2, <2>3
    <2>6. Booking(q) = p.realized_pnl + n * new
      <3>1. q.realized_pnl = p.realized_pnl /\ q.avg_open_price = new
        BY <1>1, <1>2, <1>3
      <3> QED
        BY <1>2, <2>4, <2>5, <3>1 DEF Booking
    <2> HIDE DEF dropped
    <2>7. change = -dropped
      BY <1>2, <2>2, <2>3, <2>5, <2>6
    <2> HIDE DEF change
    <2> QED
      BY <1>2, <1>6, <2>1, <2>3, <2>7
  <1> QED
    BY <1>2, <1>4, <1>5, <1>6

-----------------------------------------------------------------------------
\* A new position is well typed and books nothing.
LEMMA NewPositionTyped ==
    ASSUME QtyMod \in Nat \ {0}
    PROVE  NewPosition \in Positions /\ Booking(NewPosition) = 0
  BY DEF NewPosition, Positions, Booking

\* A fill keeps a position well typed: the average stays a natural number.
LEMMA FillTyped ==
    ASSUME NEW p \in Positions, NEW side \in Sides, NEW qty \in Nat, NEW price \in Nat
    PROVE  on_fill(p, side, qty, price) \in Positions
  <1> DEFINE sq == side * qty
             q == [p EXCEPT !.position = @ + sq,
                            !.realized_pnl = @ + Realized(p, sq, price),
                            !.avg_open_price = OpenPrice(p, sq, price),
                            !.last_price = price]
  <1>1. sq \in Int /\ p.position \in Int /\ p.avg_open_price \in Nat
    BY DEF Positions, Sides, BUY, SELL
  <1> HIDE DEF sq
  <1>2. Realized(p, sq, price) \in Int
    <2>1. Smaller(Abs(p.position), Abs(sq)) \in Int
      BY <1>1 DEF Smaller, Abs
    <2> QED
      BY <1>1, <2>1 DEF Realized
  <1>3. OpenPrice(p, sq, price) \in Nat
    <2>1. CASE p.position = 0 \/ Opposite(p.position, sq)
      BY <1>1, <2>1 DEF OpenPrice
    <2>2. CASE p.position # 0 /\ ~Opposite(p.position, sq)
      <3>1. /\ Abs(p.position) \in Nat /\ Abs(sq) \in Nat
            /\ Abs(p.position + sq) \in Nat \ {0}
        BY <1>1, <2>2 DEF Abs, Opposite
      <3>2. p.avg_open_price * Abs(p.position) + price * Abs(sq) \in Nat
        BY <1>1, <3>1
      <3> QED
        BY <2>2, <3>1, <3>2, Division, Zenon DEF OpenPrice
    <2> QED
      BY <2>1, <2>2
  <1>4. q \in Positions
    <2>1. /\ p.position + sq \in Int /\ p.realized_pnl + Realized(p, sq, price) \in Int
          /\ price \in Int
      BY <1>1, <1>2 DEF Positions
    <2> QED
      BY <1>3, <2>1, Zenon DEF Positions
  <1> HIDE DEF q
  <1>5. (q.last_price - q.avg_open_price) * q.position \in Int
    BY <1>4 DEF Positions
  <1>6. update_unrealized_pnl(q) \in Positions
    BY <1>4, <1>5 DEF update_unrealized_pnl, Positions
  <1> QED
    BY <1>6 DEF on_fill, q, sq

\* Pending orders change neither what is held nor what is booked.
LEMMA OpenOrderTyped ==
    ASSUME NEW p \in Positions, NEW side \in Sides, NEW qty \in Nat, QtyMod \in Nat \ {0}
    PROVE  \A q \in {add_open_order(p, side, qty), remove_open_order(p, side, qty)} :
              q \in Positions /\ q.position = p.position /\ Booking(q) = Booking(p)
  <1>1. p.open_qty \in [Sides -> 0 .. QtyMod - 1] /\ p.open_qty[side] \in 0 .. QtyMod - 1
    BY DEF Positions
  <1>2. (p.open_qty[side] + qty) % QtyMod \in 0 .. QtyMod - 1
    BY <1>1
  <1>3. saturating_sub(p.open_qty[side], qty) \in 0 .. QtyMod - 1
    BY <1>1 DEF saturating_sub
  <1> QED
    BY <1>1, <1>2, <1>3 DEF add_open_order, remove_open_order, Positions, Booking

\* Nor does a new market price.
LEMMA MarkTyped ==
    ASSUME NEW p \in Positions, NEW price \in Int
    PROVE  LET q == update_market_price(p, price)
           IN  q \in Positions /\ q.position = p.position /\ Booking(q) = Booking(p)
               /\ q.open_qty = p.open_qty
  <1> DEFINE q == [p EXCEPT !.last_price = price]
  <1>1. q \in Positions /\ (q.last_price - q.avg_open_price) * q.position \in Int
    BY DEF Positions
  <1> QED
    BY <1>1, Zenon DEF update_market_price, update_unrealized_pnl, Positions, Booking

-----------------------------------------------------------------------------
\* The orders and the messages.
Tracked == [ticker_id : Tickers, side : Sides, price : Nat, qty : Nat]
Requests == [msg_type : {"New", "Cancel"}, order_id : Nat, order : Tracked]
Responses == [msg_type : {"Accepted", "Filled", "Canceled", "CancelRejected", "InvalidRequest"},
              client_order_id : Nat, ticker_id : Tickers, side : Sides, price : Nat,
              exec_qty : Nat, leaves_qty : Nat]

\* Every message and every order is well typed, and has an id that was given out.
SessionOK ==
    /\ next_order_id \in Nat \ {0}
    /\ requests \in Seq(Requests) /\ inbox \in Seq(Responses)
    /\ \A i \in 1 .. Len(requests) : requests[i].order_id \in 1 .. next_order_id - 1
    /\ \A i \in 1 .. Len(inbox) : inbox[i].client_order_id \in 1 .. next_order_id - 1
    /\ \A id \in DOMAIN book : id \in 1 .. next_order_id - 1 /\ book[id] \in Tracked

NewAt(i, id) == i \in 1 .. Len(requests) /\ requests[i].msg_type = "New" /\ requests[i].order_id = id
CancelAt(i, id) == i \in 1 .. Len(requests) /\ requests[i].msg_type = "Cancel" /\ requests[i].order_id = id
EndAt(i, id) == i \in 1 .. Len(inbox) /\ inbox[i].client_order_id = id /\ Terminal(inbox[i])
MissAt(i, id) == i \in 1 .. Len(inbox) /\ inbox[i].client_order_id = id
                 /\ inbox[i].msg_type = "CancelRejected"

\* An order is in one place: requested, resting, or ended.
OnePlace ==
    \A id \in Nat :
       /\ \A i, j \in Nat : NewAt(i, id) /\ NewAt(j, id) => i = j
       /\ \A i, j \in Nat : EndAt(i, id) /\ EndAt(j, id) => i = j
       /\ \A i \in Nat : NewAt(i, id) => id \notin DOMAIN book
       /\ \A i, j \in Nat : ~(NewAt(i, id) /\ EndAt(j, id))
       /\ \A i \in Nat : EndAt(i, id) => id \notin DOMAIN book

\* A cancel travels behind its order, and its rejection behind the order's end.
CancelsBehind ==
    \A id \in Nat :
       /\ \A i, j \in Nat : CancelAt(i, id) /\ NewAt(j, id) => j < i
       /\ \A i, j \in Nat : ~(MissAt(i, id) /\ NewAt(j, id))
       /\ \A i \in Nat : MissAt(i, id) => id \notin DOMAIN book
       /\ \A i, j \in Nat : MissAt(i, id) /\ EndAt(j, id) => j < i

SessionInv == SessionOK /\ OnePlace /\ CancelsBehind

\* Every message about the order, and its rest at the exchange, name ticker t
\* and side s.
Names(id, t, s) ==
    /\ \A i \in 1 .. Len(requests) : requests[i].order_id = id =>
          requests[i].order.ticker_id = t /\ requests[i].order.side = s
    /\ id \in DOMAIN book => book[id].ticker_id = t /\ book[id].side = s
    /\ \A i \in 1 .. Len(inbox) : inbox[i].client_order_id = id =>
          inbox[i].ticker_id = t /\ inbox[i].side = s

-----------------------------------------------------------------------------
\* Head and Tail.
LEMMA TailFacts ==
    ASSUME NEW S, NEW s \in Seq(S), s # <<>>
    PROVE  /\ Tail(s) \in Seq(S) /\ Len(Tail(s)) = Len(s) - 1 /\ Len(s) \in Nat \ {0}
           /\ Head(s) = s[1] /\ s[1] \in S
           /\ \A i \in 1 .. Len(s) - 1 : Tail(s)[i] = s[i + 1]
  OBVIOUS

\* Append.
LEMMA AppendFacts ==
    ASSUME NEW S, NEW s \in Seq(S), NEW e \in S
    PROVE  /\ Append(s, e) \in Seq(S) /\ Len(Append(s, e)) = Len(s) + 1 /\ Len(s) \in Nat
           /\ \A i \in 1 .. Len(s) : Append(s, e)[i] = s[i]
           /\ Append(s, e)[Len(s) + 1] = e
  OBVIOUS

\* Concatenation.
LEMMA ConcatFacts ==
    ASSUME NEW S, NEW s \in Seq(S), NEW m \in Seq(S)
    PROVE  /\ s \o m \in Seq(S) /\ Len(s \o m) = Len(s) + Len(m) /\ Len(s) \in Nat /\ Len(m) \in Nat
           /\ \A i \in 1 .. Len(s) : (s \o m)[i] = s[i]
           /\ \A i \in 1 .. Len(m) : (s \o m)[Len(s) + i] = m[i]
           /\ \A i \in 1 .. Len(s) + Len(m) : i > Len(s) => (s \o m)[i] = m[i - Len(s)]
  OBVIOUS

-----------------------------------------------------------------------------
\* The exchange takes a request: the others move up.
LEMMA ServedFacts ==
    ASSUME SessionOK, Served
    PROVE  /\ requests' \in Seq(Requests) /\ Len(requests') = Len(requests) - 1
           /\ next_order_id' = next_order_id /\ Head(requests) = requests[1]
           /\ 1 \in 1 .. Len(requests) /\ requests[1] \in Requests
           /\ \A i \in 1 .. Len(requests') : requests'[i] = requests[i + 1] /\ i + 1 \in 1 .. Len(requests)
           /\ \A i, id \in Nat : NewAt(i, id)' <=> i > 0 /\ NewAt(i + 1, id)
           /\ \A i, id \in Nat : CancelAt(i, id)' <=> i > 0 /\ CancelAt(i + 1, id)
  <1>1. /\ requests' = Tail(requests) /\ requests # <<>> /\ requests \in Seq(Requests)
        /\ next_order_id' = next_order_id
    BY DEF Served, SessionOK
  <1>2. /\ requests' \in Seq(Requests) /\ Len(requests') = Len(requests) - 1
        /\ Len(requests) \in Nat \ {0} /\ Head(requests) = requests[1] /\ requests[1] \in Requests
        /\ \A i \in 1 .. Len(requests) - 1 : requests'[i] = requests[i + 1]
    BY <1>1, TailFacts
  <1>3. \A i \in 1 .. Len(requests') : requests'[i] = requests[i + 1] /\ i + 1 \in 1 .. Len(requests)
    BY <1>2
  <1>4. \A i \in Nat : i \in 1 .. Len(requests') <=> i > 0 /\ i + 1 \in 1 .. Len(requests)
    BY <1>2
  <1>5. \A i, id \in Nat : NewAt(i, id)' <=> i > 0 /\ NewAt(i + 1, id)
    BY <1>3, <1>4, Zenon DEF NewAt
  <1>6. \A i, id \in Nat : CancelAt(i, id)' <=> i > 0 /\ CancelAt(i + 1, id)
    BY <1>3, <1>4, Zenon DEF CancelAt
  <1> QED
    BY <1>1, <1>2, <1>3, <1>5, <1>6

\* The exchange responds: one more message in flight.
LEMMA RespondFacts ==
    ASSUME SessionOK, NEW r \in Responses, Respond(r)
    PROVE  /\ inbox' \in Seq(Responses) /\ Len(inbox') = Len(inbox) + 1 /\ Len(inbox) \in Nat
           /\ \A i \in 1 .. Len(inbox') : inbox'[i] = IF i = Len(inbox) + 1 THEN r ELSE inbox[i]
           /\ \A i, id \in Nat : EndAt(i, id)' <=>
                 EndAt(i, id) \/ (i = Len(inbox) + 1 /\ r.client_order_id = id /\ Terminal(r))
           /\ \A i, id \in Nat : MissAt(i, id)' <=>
                 MissAt(i, id) \/ (i = Len(inbox) + 1 /\ r.client_order_id = id
                                   /\ r.msg_type = "CancelRejected")
           /\ \A i, id \in Nat : EndAt(i, id) \/ MissAt(i, id) => i =< Len(inbox)
  <1>1. inbox' = Append(inbox, r) /\ inbox \in Seq(Responses)
    BY DEF Respond, SessionOK
  <1>2. /\ inbox' \in Seq(Responses) /\ Len(inbox') = Len(inbox) + 1 /\ Len(inbox) \in Nat
        /\ \A i \in 1 .. Len(inbox) : inbox'[i] = inbox[i]
        /\ inbox'[Len(inbox) + 1] = r
    BY <1>1, AppendFacts
  <1>3. \A i \in 1 .. Len(inbox') : inbox'[i] = IF i = Len(inbox) + 1 THEN r ELSE inbox[i]
    BY <1>2
  <1>4. \A i \in Nat : /\ i \in 1 .. Len(inbox') <=> i \in 1 .. Len(inbox) \/ i = Len(inbox) + 1
                       /\ i \in 1 .. Len(inbox) => i # Len(inbox) + 1 /\ i =< Len(inbox)
    BY <1>2
  <1>5. \A i, id \in Nat : EndAt(i, id)' <=>
           EndAt(i, id) \/ (i = Len(inbox) + 1 /\ r.client_order_id = id /\ Terminal(r))
    BY <1>3, <1>4 DEF EndAt, Terminal
  <1>6. \A i, id \in Nat : MissAt(i, id)' <=>
           MissAt(i, id) \/ (i = Len(inbox) + 1 /\ r.client_order_id = id
                             /\ r.msg_type = "CancelRejected")
    BY <1>3, <1>4 DEF MissAt
  <1>7. \A i, id \in Nat : EndAt(i, id) \/ MissAt(i, id) => i =< Len(inbox)
    BY <1>4 DEF EndAt, MissAt
  <1> QED
    BY <1>2, <1>3, <1>5, <1>6, <1>7

\* The engine reads a response: the others move up.
LEMMA ReceiveFacts ==
    ASSUME SessionOK, receive
    PROVE  /\ inbox' \in Seq(Responses) /\ Len(inbox') = Len(inbox) - 1
           /\ Head(inbox) = inbox[1] /\ 1 \in 1 .. Len(inbox) /\ inbox[1] \in Responses
           /\ \A i \in 1 .. Len(inbox') : inbox'[i] = inbox[i + 1] /\ i + 1 \in 1 .. Len(inbox)
           /\ \A i, id \in Nat : EndAt(i, id)' <=> i > 0 /\ EndAt(i + 1, id)
           /\ \A i, id \in Nat : MissAt(i, id)' <=> i > 0 /\ MissAt(i + 1, id)
  <1>1. inbox' = Tail(inbox) /\ inbox # <<>> /\ inbox \in Seq(Responses)
    BY DEF receive, SessionOK
  <1>2. /\ inbox' \in Seq(Responses) /\ Len(inbox') = Len(inbox) - 1
        /\ Len(inbox) \in Nat \ {0} /\ Head(inbox) = inbox[1] /\ inbox[1] \in Responses
        /\ \A i \in 1 .. Len(inbox) - 1 : inbox'[i] = inbox[i + 1]
    BY <1>1, TailFacts
  <1>3. \A i \in 1 .. Len(inbox') : inbox'[i] = inbox[i + 1] /\ i + 1 \in 1 .. Len(inbox)
    BY <1>2
  <1>4. \A i \in Nat : i \in 1 .. Len(inbox') <=> i > 0 /\ i + 1 \in 1 .. Len(inbox)
    BY <1>2
  <1>5. \A i, id \in Nat : EndAt(i, id)' <=> i > 0 /\ EndAt(i + 1, id)
    BY <1>3, <1>4, Zenon DEF EndAt, Terminal
  <1>6. \A i, id \in Nat : MissAt(i, id)' <=> i > 0 /\ MissAt(i + 1, id)
    BY <1>3, <1>4, Zenon DEF MissAt
  <1> QED
    BY <1>1, <1>2, <1>3, <1>5, <1>6

-----------------------------------------------------------------------------
\* A step that leaves the session alone.
LEMMA SessionUnmoved ==
    ASSUME SessionInv, UNCHANGED session
    PROVE  /\ SessionInv' /\ next_order_id' = next_order_id
           /\ \A id : Live(id)' <=> Live(id)
           /\ \A id, t, s : Names(id, t, s)' <=> Names(id, t, s)
  <1>1. UNCHANGED <<next_order_id, requests, book, inbox>>
    BY DEF session
  <1>2. SessionOK'
    BY <1>1 DEF SessionInv, SessionOK
  <1>3. \A i, id \in Nat : /\ NewAt(i, id)' <=> NewAt(i, id)
                           /\ CancelAt(i, id)' <=> CancelAt(i, id)
                           /\ EndAt(i, id)' <=> EndAt(i, id)
                           /\ MissAt(i, id)' <=> MissAt(i, id)
    BY <1>1 DEF NewAt, CancelAt, EndAt, MissAt, Terminal
  <1>4. OnePlace'
    BY <1>1, <1>3 DEF SessionInv, OnePlace
  <1>5. CancelsBehind'
    BY <1>1, <1>3 DEF SessionInv, CancelsBehind
  <1>6. \A id : Live(id)' <=> Live(id)
    BY <1>1 DEF Live, Terminal
  <1>7. \A id, t, s : Names(id, t, s)' <=> Names(id, t, s)
    BY <1>1 DEF Names
  <1> QED
    BY <1>1, <1>2, <1>4, <1>5, <1>6, <1>7 DEF SessionInv

\* Reading a response keeps the order of the rest.
LEMMA ReceiveKeeps ==
    ASSUME SessionInv, receive
    PROVE  SessionInv'
  <1>1. /\ SessionOK /\ OnePlace /\ CancelsBehind
        /\ requests' = requests /\ book' = book /\ next_order_id' = next_order_id
    BY DEF SessionInv, receive
  <1>2. SessionOK'
    BY <1>1, ReceiveFacts, Zenon DEF SessionOK
  <1>3. \A i, id \in Nat : (NewAt(i, id)' <=> NewAt(i, id)) /\ (CancelAt(i, id)' <=> CancelAt(i, id))
    BY <1>1 DEF NewAt, CancelAt
  <1>4. \A i \in Nat : i + 1 \in Nat
    OBVIOUS
  <1>5. /\ \A i, id \in Nat : EndAt(i, id)' => EndAt(i + 1, id)
        /\ \A i, id \in Nat : MissAt(i, id)' => MissAt(i + 1, id)
    BY <1>1, ReceiveFacts, Zenon
  <1>6. OnePlace'
    <2> SUFFICES ASSUME NEW id \in Nat
                 PROVE  /\ \A i, j \in Nat : NewAt(i, id)' /\ NewAt(j, id)' => i = j
                        /\ \A i, j \in Nat : EndAt(i, id)' /\ EndAt(j, id)' => i = j
                        /\ \A i \in Nat : NewAt(i, id)' => id \notin DOMAIN book'
                        /\ \A i, j \in Nat : ~(NewAt(i, id)' /\ EndAt(j, id)')
                        /\ \A i \in Nat : EndAt(i, id)' => id \notin DOMAIN book'
      BY DEF OnePlace
    <2>1. \A i, j \in Nat : EndAt(i, id)' /\ EndAt(j, id)' => i = j
      <3> SUFFICES ASSUME NEW i \in Nat, NEW j \in Nat, EndAt(i, id)', EndAt(j, id)'
                   PROVE  i = j
        OBVIOUS
      <3>1. i + 1 = j + 1
        BY <1>1, <1>4, <1>5 DEF OnePlace
      <3> QED
        BY <3>1
    <2> QED
      BY <1>1, <1>3, <1>4, <1>5, <2>1 DEF OnePlace
  <1>7. CancelsBehind'
    <2> SUFFICES ASSUME NEW id \in Nat
                 PROVE  /\ \A i, j \in Nat : CancelAt(i, id)' /\ NewAt(j, id)' => j < i
                        /\ \A i, j \in Nat : ~(MissAt(i, id)' /\ NewAt(j, id)')
                        /\ \A i \in Nat : MissAt(i, id)' => id \notin DOMAIN book'
                        /\ \A i, j \in Nat : MissAt(i, id)' /\ EndAt(j, id)' => j < i
      BY DEF CancelsBehind
    <2>1. \A i, j \in Nat : MissAt(i, id)' /\ EndAt(j, id)' => j < i
      <3> SUFFICES ASSUME NEW i \in Nat, NEW j \in Nat, MissAt(i, id)', EndAt(j, id)'
                   PROVE  j < i
        OBVIOUS
      <3>1. j + 1 < i + 1
        BY <1>1, <1>4, <1>5 DEF CancelsBehind
      <3> QED
        BY <3>1
    <2> QED
      BY <1>1, <1>3, <1>4, <1>5, <2>1 DEF CancelsBehind
  <1> QED
    BY <1>2, <1>6, <1>7 DEF SessionInv

\* The exchange answers about order x, which it has taken from the requests or
\* found in its book: no end of x was sent before.
Answer(r, x) ==
    /\ Respond(r) /\ x = r.client_order_id /\ next_order_id' = next_order_id
    /\ (Served /\ x = requests[1].order_id) \/ requests' = requests
    /\ \A i \in Nat : ~NewAt(i, x)'
    /\ \A id : id # x => (id \in DOMAIN book' <=> id \in DOMAIN book)
                         /\ (id \in DOMAIN book => book'[id] = book[id])
    /\ x \in DOMAIN book' => book'[x] \in Tracked /\ book'[x].ticker_id = r.ticker_id
                             /\ book'[x].side = r.side
    /\ Terminal(r) \/ x \in DOMAIN book' => \A i \in Nat : ~EndAt(i, x) /\ ~MissAt(i, x)
    /\ Terminal(r) \/ r.msg_type = "CancelRejected" => x \notin DOMAIN book'
    /\ x \in DOMAIN book \/ NewAt(1, x) <=> Terminal(r) \/ x \in DOMAIN book'
    /\ \A t \in Tickers, s \in Sides : Names(x, t, s) => t = r.ticker_id /\ s = r.side

\* What the answer executes and leaves is what the exchange had of order x, and
\* is booked as traded.
Balances(r, x) ==
    /\ x \in DOMAIN book => book[x].qty = r.exec_qty + r.leaves_qty
    /\ NewAt(1, x) => requests[1].order.qty = r.exec_qty + r.leaves_qty
    /\ x \in DOMAIN book' => book'[x].qty = r.leaves_qty
    /\ IF r.msg_type = "Filled" THEN x \in DOMAIN book ELSE r.exec_qty = 0
    /\ r.msg_type = "Accepted" => NewAt(1, x) /\ r.leaves_qty = requests[1].order.qty
    /\ traded' = IF r.msg_type = "Filled"
                 THEN [traded EXCEPT ![r.ticker_id] = @ + r.side * r.exec_qty] ELSE traded

\* An answer keeps the messages in order.
LEMMA AnswerKeeps ==
    ASSUME SessionInv, NEW r \in Responses, NEW x \in 1 .. next_order_id - 1, Answer(r, x)
    PROVE  SessionInv'
  <1> /\ Respond(r) /\ x = r.client_order_id /\ next_order_id' = next_order_id
      /\ (Served /\ x = requests[1].order_id) \/ requests' = requests
      /\ \A i \in Nat : ~NewAt(i, x)'
      /\ \A id : id # x => (id \in DOMAIN book' <=> id \in DOMAIN book)
                           /\ (id \in DOMAIN book => book'[id] = book[id])
      /\ x \in DOMAIN book' => book'[x] \in Tracked /\ book'[x].ticker_id = r.ticker_id
                             /\ book'[x].side = r.side
      /\ Terminal(r) \/ x \in DOMAIN book' => \A i \in Nat : ~EndAt(i, x) /\ ~MissAt(i, x)
      /\ Terminal(r) \/ r.msg_type = "CancelRejected" => x \notin DOMAIN book'
      /\ x \in DOMAIN book \/ NewAt(1, x) <=> Terminal(r) \/ x \in DOMAIN book'
      /\ \A t \in Tickers, s \in Sides : Names(x, t, s) => t = r.ticker_id /\ s = r.side
    BY DEF Answer
  <1>1. SessionOK /\ OnePlace /\ CancelsBehind
    BY DEF SessionInv
  <1>2. SessionOK'
    <2>1. /\ requests' \in Seq(Requests)
          /\ \A i \in 1 .. Len(requests') : requests'[i].order_id \in 1 .. next_order_id - 1
      BY <1>1, ServedFacts, ZenonT(30) DEF SessionOK
    <2>2. /\ inbox' \in Seq(Responses) /\ Len(inbox') = Len(inbox) + 1 /\ Len(inbox) \in Nat
          /\ \A i \in 1 .. Len(inbox') : inbox'[i] = IF i = Len(inbox) + 1 THEN r ELSE inbox[i]
      BY <1>1, RespondFacts
    <2>3. \A i \in 1 .. Len(inbox') : inbox'[i].client_order_id \in 1 .. next_order_id - 1
      <3> SUFFICES ASSUME NEW i \in 1 .. Len(inbox')
                   PROVE  inbox'[i].client_order_id \in 1 .. next_order_id - 1
        OBVIOUS
      <3>1. inbox'[i] = r \/ (inbox'[i] = inbox[i] /\ i \in 1 .. Len(inbox))
        BY <2>2
      <3> QED
        BY <1>1, <3>1 DEF SessionOK
    <2>4. \A id \in DOMAIN book' : id \in 1 .. next_order_id - 1 /\ book'[id] \in Tracked
      BY <1>1 DEF SessionOK
    <2> QED
      BY <1>1, <2>1, <2>2, <2>3, <2>4 DEF SessionOK
  <1>3. ~(Terminal(r) /\ r.msg_type = "CancelRejected")
    BY DEF Terminal
  <1>4. PICK k \in {0, 1} : /\ \A i, id \in Nat : NewAt(i, id)' => NewAt(i + k, id) /\ i + k \in Nat
                            /\ \A i, id \in Nat : CancelAt(i, id)' => CancelAt(i + k, id) /\ i + k \in Nat
    <2>1. CASE Served
      <3>1. \A i, id \in Nat : /\ i + 1 \in Nat /\ (NewAt(i, id)' => NewAt(i + 1, id))
                               /\ (CancelAt(i, id)' => CancelAt(i + 1, id))
        BY <1>1, <2>1, ServedFacts
      <3> QED
        BY <3>1, Zenon
    <2>2. CASE requests' = requests
      <3>1. \A i, id \in Nat : i + 0 = i /\ (NewAt(i, id)' <=> NewAt(i, id))
                               /\ (CancelAt(i, id)' <=> CancelAt(i, id))
        BY <2>2 DEF NewAt, CancelAt
      <3> QED
        BY <3>1
    <2> QED
      BY <2>1, <2>2
  <1>5. /\ Len(inbox) \in Nat
        /\ \A i, id \in Nat : EndAt(i, id)' <=>
              EndAt(i, id) \/ (i = Len(inbox) + 1 /\ x = id /\ Terminal(r))
        /\ \A i, id \in Nat : MissAt(i, id)' <=>
              MissAt(i, id) \/ (i = Len(inbox) + 1 /\ x = id /\ r.msg_type = "CancelRejected")
        /\ \A i, id \in Nat : EndAt(i, id) \/ MissAt(i, id) => i =< Len(inbox)
    BY <1>1, RespondFacts
  <1>6. \A i, j, id \in Nat : NewAt(i, id)' /\ NewAt(j, id)' => i = j
    <2> SUFFICES ASSUME NEW i \in Nat, NEW j \in Nat, NEW id \in Nat, NewAt(i, id)', NewAt(j, id)'
                 PROVE  i = j
      BY Zenon
    <2>1. i + k = j + k
      BY <1>1, <1>4 DEF OnePlace
    <2> QED
      BY <2>1
  <1>7. \A i, j, id \in Nat : CancelAt(i, id)' /\ NewAt(j, id)' => j < i
    <2> SUFFICES ASSUME NEW i \in Nat, NEW j \in Nat, NEW id \in Nat, CancelAt(i, id)', NewAt(j, id)'
                 PROVE  j < i
      OBVIOUS
    <2>1. j + k < i + k
      BY <1>1, <1>4, Zenon DEF CancelsBehind
    <2> QED
      BY <2>1
  <1>8. OnePlace'
    <2> SUFFICES ASSUME NEW id \in Nat
                 PROVE  /\ \A i, j \in Nat : EndAt(i, id)' /\ EndAt(j, id)' => i = j
                        /\ \A i \in Nat : NewAt(i, id)' => id \notin DOMAIN book'
                        /\ \A i, j \in Nat : ~(NewAt(i, id)' /\ EndAt(j, id)')
                        /\ \A i \in Nat : EndAt(i, id)' => id \notin DOMAIN book'
      BY <1>6, Zenon DEF OnePlace
    <2>1. CASE id = x
      BY <1>1, <1>5, <2>1 DEF OnePlace
    <2>2. CASE id # x
      <3>1. \A i \in Nat : EndAt(i, id)' <=> EndAt(i, id)
        BY <1>5, <2>2, Zenon
      <3>2. \A i \in Nat : NewAt(i, id)' => \E j \in Nat : NewAt(j, id)
        BY <1>4, Zenon
      <3>3. id \in DOMAIN book' <=> id \in DOMAIN book
        BY <2>2, Zenon
      <3> QED
        BY <1>1, <3>1, <3>2, <3>3, Zenon DEF OnePlace
    <2> QED
      BY <2>1, <2>2
  <1>9. CancelsBehind'
    <2> SUFFICES ASSUME NEW id \in Nat
                 PROVE  /\ \A i, j \in Nat : ~(MissAt(i, id)' /\ NewAt(j, id)')
                        /\ \A i \in Nat : MissAt(i, id)' => id \notin DOMAIN book'
                        /\ \A i, j \in Nat : MissAt(i, id)' /\ EndAt(j, id)' => j < i
      BY <1>7, Zenon DEF CancelsBehind
    <2>1. CASE id = x
      BY <1>1, <1>3, <1>5, <2>1 DEF CancelsBehind
    <2>2. CASE id # x
      <3>1. \A i \in Nat : (EndAt(i, id)' <=> EndAt(i, id)) /\ (MissAt(i, id)' <=> MissAt(i, id))
        BY <1>5, <2>2, Zenon
      <3>2. \A i \in Nat : NewAt(i, id)' => \E j \in Nat : NewAt(j, id)
        BY <1>4, Zenon
      <3>3. id \in DOMAIN book' <=> id \in DOMAIN book
        BY <2>2
      <3> QED
        BY <1>1, <3>1, <3>2, <3>3, Zenon DEF CancelsBehind
    <2> QED
      BY <2>1, <2>2, Zenon
  <1> QED
    BY <1>2, <1>8, <1>9 DEF SessionInv

\* Live, in terms of places.
LEMMA LiveFacts ==
    ASSUME SessionOK
    PROVE  \A id \in Nat : Live(id) <=> \/ \E i \in Nat : NewAt(i, id)
                                        \/ id \in DOMAIN book
                                        \/ \E i \in Nat : EndAt(i, id)
  <1>1. /\ DOMAIN requests = 1 .. Len(requests) /\ DOMAIN inbox = 1 .. Len(inbox)
        /\ \A i \in 1 .. Len(requests) : i \in Nat
        /\ \A i \in 1 .. Len(inbox) : i \in Nat
    BY DEF SessionOK
  <1> QED
    BY <1>1, Zenon DEF Live, NewAt, EndAt

\* An answer about x neither ends a live order nor revives one.
LEMMA AnswerLive ==
    ASSUME SessionInv, SessionInv', NEW r \in Responses, NEW x \in Nat, Answer(r, x)
    PROVE  \A id \in Nat : Live(id)' <=> Live(id)
  <1> /\ Respond(r) /\ x = r.client_order_id /\ next_order_id' = next_order_id
      /\ (Served /\ x = requests[1].order_id) \/ requests' = requests
      /\ \A i \in Nat : ~NewAt(i, x)'
      /\ \A id : id # x => (id \in DOMAIN book' <=> id \in DOMAIN book)
                           /\ (id \in DOMAIN book => book'[id] = book[id])
      /\ x \in DOMAIN book' => book'[x] \in Tracked /\ book'[x].ticker_id = r.ticker_id
                             /\ book'[x].side = r.side
      /\ Terminal(r) \/ x \in DOMAIN book' => \A i \in Nat : ~EndAt(i, x) /\ ~MissAt(i, x)
      /\ Terminal(r) \/ r.msg_type = "CancelRejected" => x \notin DOMAIN book'
      /\ x \in DOMAIN book \/ NewAt(1, x) <=> Terminal(r) \/ x \in DOMAIN book'
      /\ \A t \in Tickers, s \in Sides : Names(x, t, s) => t = r.ticker_id /\ s = r.side
    BY DEF Answer
  <1>1. SessionOK /\ SessionOK'
    BY Zenon DEF SessionInv
  <1>2. \A id \in Nat : /\ Live(id) <=> \/ \E i \in Nat : NewAt(i, id)
                                        \/ id \in DOMAIN book
                                        \/ \E i \in Nat : EndAt(i, id)
                        /\ Live(id)' <=> \/ \E i \in Nat : NewAt(i, id)'
                                         \/ id \in DOMAIN book'
                                         \/ \E i \in Nat : EndAt(i, id)'
    <2>1. \A id \in Nat : Live(id) <=> \/ \E i \in Nat : NewAt(i, id)
                                       \/ id \in DOMAIN book
                                       \/ \E i \in Nat : EndAt(i, id)
      BY <1>1, LiveFacts
    <2>2. (\A id \in Nat : Live(id) <=> \/ \E i \in Nat : NewAt(i, id)
                                        \/ id \in DOMAIN book
                                        \/ \E i \in Nat : EndAt(i, id))'
      BY <1>1, LiveFacts, PTL
    <2> QED
      BY <2>1, <2>2
  <1>3. /\ Len(inbox) \in Nat
        /\ \A i, id \in Nat : EndAt(i, id)' <=>
              EndAt(i, id) \/ (i = Len(inbox) + 1 /\ x = id /\ Terminal(r))
    BY <1>1, RespondFacts, Zenon
  <1>4. \A i \in Nat : NewAt(i, x) => i = 1
    <2> SUFFICES ASSUME NEW i \in Nat, NewAt(i, x), i # 1
                 PROVE  FALSE
      OBVIOUS
    <2>1. CASE Served
      <3>1. i \in Nat \ {0} /\ i - 1 \in Nat /\ i - 1 > 0 /\ (i - 1) + 1 = i
        BY DEF NewAt
      <3>2. NewAt(i - 1, x)'
        BY <1>1, <2>1, <3>1, ServedFacts, Zenon
      <3> QED
        BY <3>1, <3>2, Zenon
    <2>2. CASE requests' = requests
      BY <2>2, Zenon DEF NewAt
    <2> QED
      BY <2>1, <2>2
  <1>5. ASSUME NEW id \in Nat, id # x
        PROVE  (\E i \in Nat : NewAt(i, id)') <=> (\E i \in Nat : NewAt(i, id))
    <2>1. CASE Served /\ x = requests[1].order_id
      <3>1. ASSUME NEW i \in Nat, NewAt(i, id)'
            PROVE  \E j \in Nat : NewAt(j, id)
        <4>1. NewAt(i + 1, id) /\ i + 1 \in Nat
          <5>1. i + 1 \in Nat
            OBVIOUS
          <5> QED
            BY <1>1, <2>1, <3>1, <5>1, ServedFacts, Zenon
        <4> QED
          BY <4>1, Zenon
      <3>2. ASSUME NEW i \in Nat, NewAt(i, id)
            PROVE  \E j \in Nat : NewAt(j, id)'
        <4>1. i # 1
          BY <1>5, <2>1, <3>2 DEF NewAt
        <4>2. i - 1 \in Nat /\ i - 1 > 0 /\ (i - 1) + 1 = i
          BY <3>2, <4>1 DEF NewAt
        <4>3. NewAt(i - 1, id)'
          BY <1>1, <2>1, <3>2, <4>2, ServedFacts, Zenon
        <4> QED
          BY <4>2, <4>3, Zenon
      <3> QED
        BY <3>1, <3>2
    <2>2. CASE requests' = requests
      BY <2>2, Zenon DEF NewAt
    <2> QED
      BY <2>1, <2>2, Zenon
  <1>6. ASSUME NEW id \in Nat
        PROVE  Live(id)' <=> Live(id)
    <2>1. CASE id # x
      BY <1>2, <1>3, <1>5, <2>1, Zenon
    <2>2. CASE id = x
      <3>1. Live(x) <=> NewAt(1, x) \/ x \in DOMAIN book \/ \E i \in Nat : EndAt(i, x)
        BY <1>2, <1>4, Zenon
      <3>2. (\E i \in Nat : EndAt(i, x)') <=> Terminal(r) \/ \E i \in Nat : EndAt(i, x)
        <4>1. Len(inbox) + 1 \in Nat
          BY <1>3
        <4> QED
          BY <1>3, <4>1
      <3>3. Live(x)' <=> x \in DOMAIN book' \/ Terminal(r) \/ \E i \in Nat : EndAt(i, x)
        BY <1>2, <3>2, Zenon
      <3> QED
        BY <2>2, <3>1, <3>3, Zenon
    <2> QED
      BY <2>1, <2>2
  <1> QED
    BY <1>6, Zenon

\* An answer names the ticker of the order.
LEMMA AnswerNames ==
    ASSUME SessionInv, NEW r \in Responses, NEW x \in Nat, Answer(r, x)
    PROVE  \A id \in Nat, t \in Tickers, s \in Sides : Names(id, t, s) => Names(id, t, s)'
  <1> /\ Respond(r) /\ x = r.client_order_id /\ next_order_id' = next_order_id
      /\ (Served /\ x = requests[1].order_id) \/ requests' = requests
      /\ \A i \in Nat : ~NewAt(i, x)'
      /\ \A id : id # x => (id \in DOMAIN book' <=> id \in DOMAIN book)
                           /\ (id \in DOMAIN book => book'[id] = book[id])
      /\ x \in DOMAIN book' => book'[x] \in Tracked /\ book'[x].ticker_id = r.ticker_id
                             /\ book'[x].side = r.side
      /\ Terminal(r) \/ x \in DOMAIN book' => \A i \in Nat : ~EndAt(i, x) /\ ~MissAt(i, x)
      /\ Terminal(r) \/ r.msg_type = "CancelRejected" => x \notin DOMAIN book'
      /\ x \in DOMAIN book \/ NewAt(1, x) <=> Terminal(r) \/ x \in DOMAIN book'
      /\ \A t \in Tickers, s \in Sides : Names(x, t, s) => t = r.ticker_id /\ s = r.side
    BY Zenon DEF Answer
  <1>1. SessionOK
    BY DEF SessionInv
  <1> SUFFICES ASSUME NEW id \in Nat, NEW t \in Tickers, NEW s \in Sides, Names(id, t, s)
               PROVE  Names(id, t, s)'
    BY Zenon
  <1>2. ASSUME NEW i \in 1 .. Len(requests'), requests'[i].order_id = id
        PROVE  requests'[i].order.ticker_id = t /\ requests'[i].order.side = s
    <2>1. CASE Served
      <3>1. requests'[i] = requests[i + 1] /\ i + 1 \in 1 .. Len(requests)
        BY <1>1, <2>1, ServedFacts, Zenon
      <3> QED
        BY <1>2, <3>1 DEF Names
    <2>2. CASE requests' = requests
      BY <1>2, <2>2, Zenon DEF Names
    <2> QED
      BY <2>1, <2>2, Zenon
  <1>3. ASSUME id \in DOMAIN book'
        PROVE  book'[id].ticker_id = t /\ book'[id].side = s
    <2>1. CASE id = x
      BY <1>3, <2>1, Zenon
    <2>2. CASE id # x
      BY <1>3, <2>2, Zenon DEF Names
    <2> QED
      BY <2>1, <2>2
  <1>4. ASSUME NEW i \in 1 .. Len(inbox'), inbox'[i].client_order_id = id
        PROVE  inbox'[i].ticker_id = t /\ inbox'[i].side = s
    <2>1. inbox'[i] = r \/ (i \in 1 .. Len(inbox) /\ inbox'[i] = inbox[i])
      BY <1>1, RespondFacts
    <2> QED
      BY <1>4, <2>1 DEF Names
  <1> QED
    BY <1>2, <1>3, <1>4, Zenon DEF Names

\* The oldest request is the only one for a new order of its id, and a cancel
\* that is the oldest has no such request before it.
LEMMA ServedIsGone ==
    ASSUME SessionInv, Served, NEW x, x = requests[1].order_id
    PROVE  /\ x \in 1 .. next_order_id - 1 /\ x \in Nat /\ requests[1].order \in Tracked
           /\ \A i \in Nat : ~NewAt(i, x)'
           /\ requests[1].msg_type = "New" =>
                 /\ x \notin DOMAIN book
                 /\ \A i \in Nat : ~EndAt(i, x) /\ ~MissAt(i, x)
           /\ NewAt(1, x) <=> requests[1].msg_type = "New"
           /\ \A t, s : Names(x, t, s) => requests[1].order.ticker_id = t /\ requests[1].order.side = s
  <1>1. SessionOK /\ OnePlace /\ CancelsBehind
    BY DEF SessionInv
  <1>2. /\ 1 \in 1 .. Len(requests) /\ requests[1] \in Requests
        /\ \A i, id \in Nat : NewAt(i, id)' => i > 0 /\ i + 1 \in Nat /\ NewAt(i + 1, id)
    BY <1>1, ServedFacts
  <1>3. x \in 1 .. next_order_id - 1 /\ x \in Nat /\ requests[1].order \in Tracked
    BY <1>1, <1>2 DEF SessionOK, Requests
  <1>4. requests[1].msg_type = "New" \/ requests[1].msg_type = "Cancel"
    BY <1>2 DEF Requests
  <1>5. /\ NewAt(1, x) <=> requests[1].msg_type = "New"
        /\ \A t, s : Names(x, t, s) => requests[1].order.ticker_id = t /\ requests[1].order.side = s
    BY <1>2, Zenon DEF NewAt, Names
  <1>6. CASE requests[1].msg_type = "New"
    <2>1. NewAt(1, x)
      BY <1>2, <1>6 DEF NewAt
    <2>2. \A i \in Nat : ~NewAt(i, x)'
      BY <1>1, <1>2, <1>3, <2>1 DEF OnePlace
    <2> QED
      BY <1>1, <1>3, <1>5, <2>1, <2>2, Zenon DEF OnePlace, CancelsBehind
  <1>7. CASE requests[1].msg_type = "Cancel"
    <2>1. CancelAt(1, x)
      BY <1>2, <1>7 DEF CancelAt
    <2>2. ASSUME NEW i \in Nat, NewAt(i, x)'
          PROVE  FALSE
      <3>1. i > 0 /\ i + 1 \in Nat /\ NewAt(i + 1, x)
        BY <1>2, <1>3, <2>2
      <3>2. i + 1 < 1
        BY <1>1, <1>3, <2>1, <3>1, Zenon DEF CancelsBehind
      <3> QED
        BY <3>1, <3>2
    <2> QED
      BY <1>3, <1>5, <1>7, <2>2
  <1> QED
    BY <1>4, <1>6, <1>7

\* The steps of the exchange are answers.
LEMMA AcceptAnswers ==
    ASSUME SessionInv, Accept
    PROVE  \E r \in Responses, x \in 1 .. next_order_id - 1 : Answer(r, x) /\ Balances(r, x)
  <1> PICK x, o : x = requests[1].order_id /\ o = requests[1].order
    OBVIOUS
  <1> PICK r : r = Response("Accepted", x, o, 0, o.qty)
    OBVIOUS
  <1>1. /\ Served /\ requests[1].msg_type = "New" /\ Respond(r) /\ next_order_id' = next_order_id
        /\ book' = [y \in DOMAIN book \cup {x} |-> IF y = x THEN o ELSE book[y]]
    <2>1. Served /\ SessionOK
      BY DEF Accept, SessionInv
    <2>2. Head(requests) = requests[1]
      BY <2>1, ServedFacts, Zenon
    <2> QED
      BY <2>1, <2>2 DEF Accept, Served
  <1>2. /\ x \in 1 .. next_order_id - 1 /\ x \in Nat /\ o \in Tracked
        /\ \A i \in Nat : ~NewAt(i, x)' /\ ~EndAt(i, x) /\ ~MissAt(i, x)
        /\ NewAt(1, x) /\ \A t, s : Names(x, t, s) => o.ticker_id = t /\ o.side = s
    BY <1>1, ServedIsGone, Zenon
  <1>3. /\ r \in Responses /\ r.client_order_id = x /\ r.msg_type = "Accepted"
        /\ r.ticker_id = o.ticker_id /\ r.side = o.side /\ r.exec_qty = 0 /\ r.leaves_qty = o.qty
    <2>1. o.qty \in Nat
      BY <1>2, Zenon DEF Tracked
    <2> QED
      BY <1>2, <2>1, Zenon DEF Response, Responses, Tracked
  <1>4. ~Terminal(r)
    BY <1>3 DEF Terminal
  <1>5. Answer(r, x)
    BY <1>1, <1>2, <1>3, <1>4, ZenonT(30) DEF Answer
  <1>6. Balances(r, x)
    <2>1. x \notin DOMAIN book /\ traded' = traded
      BY <1>1, ServedIsGone, Zenon DEF Accept, Served
    <2>2. o.qty \in Nat
      BY <1>2 DEF Tracked
    <2>3. o.qty = r.exec_qty + r.leaves_qty
      BY <1>3, <2>2, NothingAdded, Zenon
    <2>4. book'[x] = o
      BY <1>1, Zenon
    <2> QED
      BY <1>2, <1>3, <2>1, <2>3, <2>4, Zenon DEF Balances
  <1> QED
    BY <1>2, <1>3, <1>5, <1>6

\* Refusing a new order ends it with InvalidRequest.
LEMMA RefuseAnswers ==
    ASSUME SessionInv, Refuse
    PROVE  \E r \in Responses, x \in 1 .. next_order_id - 1 : Answer(r, x) /\ Balances(r, x)
  <1> PICK x, o : x = requests[1].order_id /\ o = requests[1].order
    OBVIOUS
  <1> PICK r : r = Response("InvalidRequest", x, o, 0, o.qty)
    OBVIOUS
  <1>1. /\ Served /\ requests[1].msg_type = "New" /\ Respond(r) /\ next_order_id' = next_order_id
        /\ book' = book
    <2>1. Served /\ SessionOK
      BY DEF Refuse, SessionInv
    <2>2. Head(requests) = requests[1]
      BY <2>1, ServedFacts
    <2> QED
      BY <2>1, <2>2, Zenon DEF Refuse, Served
  <1>2. /\ x \in 1 .. next_order_id - 1 /\ x \in Nat /\ o \in Tracked /\ x \notin DOMAIN book
        /\ \A i \in Nat : ~NewAt(i, x)' /\ ~EndAt(i, x) /\ ~MissAt(i, x)
        /\ NewAt(1, x) /\ \A t, s : Names(x, t, s) => o.ticker_id = t /\ o.side = s
    BY <1>1, ServedIsGone, Zenon
  <1>3. /\ r \in Responses /\ r.client_order_id = x /\ r.msg_type = "InvalidRequest"
        /\ r.ticker_id = o.ticker_id /\ r.side = o.side /\ r.exec_qty = 0 /\ r.leaves_qty = o.qty
    <2>1. o.qty \in Nat
      BY <1>2 DEF Tracked
    <2> QED
      BY <1>2, <2>1, Zenon DEF Response, Responses, Tracked
  <1>4. Terminal(r)
    BY <1>3, Zenon DEF Terminal
  <1>5. Answer(r, x)
    BY <1>1, <1>2, <1>3, <1>4, Zenon DEF Answer
  <1>6. Balances(r, x)
    <2>1. o.qty \in Nat /\ traded' = traded
      BY <1>2 DEF Tracked, Refuse, Served
    <2> QED
      BY <1>1, <1>2, <1>3, <2>1 DEF Balances
  <1> QED
    BY <1>2, <1>3, <1>5, <1>6

\* A cancel takes a resting order out of the book and answers Canceled; for one
\* that does not rest it answers CancelRejected and changes nothing.
LEMMA ServeCancelAnswers ==
    ASSUME SessionInv, ServeCancel
    PROVE  \E r \in Responses, x \in 1 .. next_order_id - 1 : Answer(r, x) /\ Balances(r, x)
  <1> PICK x, o : x = requests[1].order_id /\ o = requests[1].order
    OBVIOUS
  <1>1. /\ Served /\ requests[1].msg_type = "Cancel" /\ SessionOK /\ next_order_id' = next_order_id
        /\ IF x \in DOMAIN book
           THEN book' = OffBook(x) /\ Respond(Response("Canceled", x, book[x], 0, book[x].qty))
           ELSE book' = book /\ Respond(Response("CancelRejected", x, o, 0, 0))
    <2>1. Served /\ SessionOK
      BY DEF ServeCancel, SessionInv
    <2>2. Head(requests) = requests[1]
      BY <2>1, ServedFacts, Zenon
    <2> QED
      BY <2>1, <2>2 DEF ServeCancel, Served
  <1>2. /\ x \in 1 .. next_order_id - 1 /\ x \in Nat /\ o \in Tracked
        /\ \A i \in Nat : ~NewAt(i, x)'
        /\ ~NewAt(1, x) /\ \A t, s : Names(x, t, s) => o.ticker_id = t /\ o.side = s
    BY <1>1, ServedIsGone
  <1>3. CASE x \in DOMAIN book
    <2> PICK r : r = Response("Canceled", x, book[x], 0, book[x].qty)
      OBVIOUS
    <2>1. book[x] \in Tracked /\ book[x].qty \in Nat
      BY <1>1, <1>3, Zenon DEF SessionOK, Tracked
    <2>2. /\ r \in Responses /\ r.client_order_id = x /\ Respond(r) /\ r.msg_type = "Canceled"
          /\ r.ticker_id = book[x].ticker_id /\ r.side = book[x].side
          /\ r.exec_qty = 0 /\ r.leaves_qty = book[x].qty
      BY <1>1, <1>2, <1>3, <2>1, Zenon DEF Response, Responses, Tracked
    <2>3. \A i \in Nat : ~EndAt(i, x) /\ ~MissAt(i, x)
      BY <1>2, <1>3 DEF SessionInv, OnePlace, CancelsBehind
    <2>4. book' = [y \in DOMAIN book \ {x} |-> book[y]]
      BY <1>1, <1>3 DEF OffBook
    <2>5. Terminal(r) /\ \A t, s : Names(x, t, s) => t = r.ticker_id /\ s = r.side
      BY <1>3, <2>2, ZenonT(30) DEF Terminal, Names
    <2>6. Answer(r, x)
      BY <1>1, <1>2, <1>3, <2>2, <2>3, <2>4, <2>5, ZenonT(30) DEF Answer
    <2>7. Balances(r, x)
      <3>1. traded' = traded
        BY DEF ServeCancel, Served
      <3>2. book[x].qty = r.exec_qty + r.leaves_qty
        BY <2>1, <2>2, NothingAdded, Zenon
      <3>3. x \notin DOMAIN book'
        BY <2>4, Zenon
      <3> QED
        BY <1>2, <1>3, <2>2, <3>1, <3>2, <3>3, Zenon DEF Balances
    <2> QED
      BY <1>2, <2>2, <2>6, <2>7, Zenon
  <1>4. CASE x \notin DOMAIN book
    <2> PICK r : r = Response("CancelRejected", x, o, 0, 0)
      BY Zenon
    <2>1. /\ r \in Responses /\ r.client_order_id = x /\ Respond(r)
          /\ r.msg_type = "CancelRejected" /\ r.ticker_id = o.ticker_id /\ r.side = o.side
          /\ r.exec_qty = 0
      BY <1>1, <1>2, <1>4, Zenon DEF Response, Responses, Tracked
    <2>2. ~Terminal(r) /\ book' = book
      BY <1>1, <1>4, <2>1 DEF Terminal
    <2>3. Answer(r, x)
      BY <1>1, <1>2, <1>4, <2>1, <2>2, Zenon DEF Answer
    <2>4. Balances(r, x)
      <3>1. traded' = traded
        BY DEF ServeCancel, Served
      <3> QED
        BY <1>2, <1>4, <2>1, <2>2, <3>1 DEF Balances
    <2> QED
      BY <1>2, <2>1, <2>3, <2>4
  <1> QED
    BY <1>3, <1>4

\* A fill takes its quantity off the resting order, or the order off the book
\* when nothing is left, and reports what is left.
LEMMA FillAnswers ==
    ASSUME SessionInv, NEW x \in DOMAIN book, NEW qty \in 1 .. book[x].qty, Fill(x, qty)
    PROVE  \E r \in Responses, y \in 1 .. next_order_id - 1 : Answer(r, y) /\ Balances(r, y)
  <1> PICK r : r = Response("Filled", x, book[x], qty, book[x].qty - qty)
    OBVIOUS
  <1>1. /\ SessionOK /\ next_order_id' = next_order_id /\ requests' = requests /\ Respond(r)
        /\ book' = IF qty = book[x].qty THEN OffBook(x) ELSE [book EXCEPT ![x].qty = @ - qty]
    BY DEF Fill, SessionInv
  <1>2. /\ x \in 1 .. next_order_id - 1 /\ x \in Nat /\ book[x] \in Tracked /\ book[x].qty \in Nat
        /\ book[x].qty - qty \in Nat /\ (book[x].qty - qty = 0 <=> qty = book[x].qty)
    BY <1>1 DEF SessionOK, Tracked
  <1>3. /\ r \in Responses /\ r.client_order_id = x /\ r.msg_type = "Filled"
        /\ r.leaves_qty = book[x].qty - qty /\ r.ticker_id = book[x].ticker_id
        /\ r.side = book[x].side /\ r.exec_qty = qty
    BY <1>2 DEF Response, Responses, Tracked
  <1>4. Terminal(r) <=> qty = book[x].qty
    BY <1>2, <1>3, Zenon DEF Terminal
  <1>5. \A i \in Nat : ~EndAt(i, x) /\ ~MissAt(i, x) /\ ~NewAt(i, x)
    BY <1>2 DEF SessionInv, OnePlace, CancelsBehind
  <1>6. \A i \in Nat : ~NewAt(i, x)'
    BY <1>1, <1>5, Zenon DEF NewAt
  <1>7. /\ \A id : id # x => (id \in DOMAIN book' <=> id \in DOMAIN book)
                             /\ (id \in DOMAIN book => book'[id] = book[id])
        /\ x \in DOMAIN book' => book'[x] \in Tracked /\ book'[x].ticker_id = book[x].ticker_id
                                 /\ book'[x].side = book[x].side /\ book'[x].qty = book[x].qty - qty
        /\ Terminal(r) <=> x \notin DOMAIN book'
    <2>1. CASE qty = book[x].qty
      BY <1>1, <1>4, <2>1 DEF OffBook
    <2>2. CASE qty # book[x].qty
      BY <1>1, <1>2, <1>4, <2>2, Zenon DEF Tracked
    <2> QED
      BY <2>1, <2>2
  <1>8. \A t, s : Names(x, t, s) => t = r.ticker_id /\ s = r.side
    BY <1>3 DEF Names
  <1>9. Answer(r, x)
    BY <1>1, <1>2, <1>3, <1>5, <1>6, <1>7, <1>8 DEF Answer
  <1>10. Balances(r, x)
    <2>1. traded' = [traded EXCEPT ![r.ticker_id] = @ + r.side * r.exec_qty]
      BY <1>3, ZenonT(30) DEF Fill
    <2>2. book[x].qty = r.exec_qty + r.leaves_qty /\ ~NewAt(1, x)
      BY <1>2, <1>3, <1>5
    <2>3. x \in DOMAIN book' => book'[x].qty = r.leaves_qty
      BY <1>3, <1>7
    <2> QED
      BY <1>3, <2>1, <2>2, <2>3, Zenon DEF Balances
  <1> QED
    BY <1>2, <1>3, <1>9, <1>10

\* So every step of the exchange is an answer.
LEMMA ExchangeAnswers ==
    ASSUME SessionInv,
           \/ Accept \/ Refuse \/ ServeCancel
           \/ \E id \in DOMAIN book : \E qty \in 1 .. book[id].qty : Fill(id, qty)
    PROVE  \E r \in Responses, x \in 1 .. next_order_id - 1 : Answer(r, x) /\ Balances(r, x)
  BY AcceptAnswers, RefuseAnswers, ServeCancelAnswers, FillAnswers, Zenon

\* The exchange keeps the messages in order, and the orders alive or ended.
LEMMA ExchangeKeeps ==
    ASSUME SessionInv,
           \/ Accept \/ Refuse \/ ServeCancel
           \/ \E id \in DOMAIN book : \E qty \in 1 .. book[id].qty : Fill(id, qty)
    PROVE  /\ SessionInv' /\ next_order_id' = next_order_id
           /\ \A id \in Nat : Live(id)' <=> Live(id)
           /\ \A id \in Nat, t \in Tickers, s \in Sides : Names(id, t, s) => Names(id, t, s)'
  <1>1. PICK r \in Responses, x \in 1 .. next_order_id - 1 : Answer(r, x) /\ Balances(r, x)
    BY ExchangeAnswers
  <1>2. SessionInv'
    BY <1>1, AnswerKeeps
  <1>3. x \in Nat
    BY DEF SessionInv, SessionOK
  <1> QED
    BY <1>1, <1>2, <1>3, AnswerLive, AnswerNames, Zenon DEF Answer

-----------------------------------------------------------------------------
\* The engine sends an order with the next id.
LEMMA SubmitKeeps ==
    ASSUME SessionInv, NEW o \in Tracked, send_new_orders(<<o>>)
    PROVE  /\ SessionInv'
           /\ requests' = Append(requests, [msg_type |-> "New", order_id |-> next_order_id, order |-> o])
  <1> PICK m : m = [msg_type |-> "New", order_id |-> next_order_id, order |-> o]
    BY Zenon
  <1> PICK n : n = next_order_id
    OBVIOUS
  <1>1. /\ SessionOK /\ OnePlace /\ CancelsBehind /\ n \in Nat \ {0}
        /\ m \in Requests /\ m.msg_type = "New" /\ m.order_id = n
        /\ requests \in Seq(Requests)
    BY DEF SessionInv, SessionOK, Requests
  <1>2. next_order_id' = n + 1 /\ requests' = Append(requests, m) /\ book' = book /\ inbox' = inbox
    BY <1>1 DEF send_new_orders, NewRequests
  <1>3. /\ requests' \in Seq(Requests) /\ Len(requests') = Len(requests) + 1 /\ Len(requests) \in Nat
        /\ \A i \in 1 .. Len(requests) : requests'[i] = requests[i]
        /\ requests'[Len(requests) + 1] = m
    BY <1>1, <1>2, AppendFacts
  <1>4. \A i \in Nat : i \in 1 .. Len(requests') <=> i \in 1 .. Len(requests) \/ i = Len(requests) + 1
    BY <1>3
  <1>5. /\ \A i \in 1 .. Len(requests) : requests[i].order_id \in 1 .. n - 1
        /\ \A i \in 1 .. Len(inbox) : inbox[i].client_order_id \in 1 .. n - 1
        /\ \A id \in DOMAIN book : id \in 1 .. n - 1 /\ book[id] \in Tracked
        /\ inbox \in Seq(Responses)
    BY <1>1 DEF SessionOK
  <1>6. \A i \in 1 .. n - 1 : i \in 1 .. (n + 1) - 1
    BY <1>1
  <1>7. SessionOK'
    <2>1. \A i \in 1 .. Len(requests') : requests'[i].order_id \in 1 .. (n + 1) - 1
      <3> SUFFICES ASSUME NEW i \in 1 .. Len(requests')
                   PROVE  requests'[i].order_id \in 1 .. (n + 1) - 1
        OBVIOUS
      <3>1. requests'[i] = m \/ (i \in 1 .. Len(requests) /\ requests'[i] = requests[i])
        BY <1>3
      <3> QED
        BY <1>1, <1>5, <1>6, <3>1
    <2>2. /\ next_order_id' \in Nat \ {0}
          /\ \A i \in 1 .. Len(inbox') : inbox'[i].client_order_id \in 1 .. (n + 1) - 1
          /\ \A id \in DOMAIN book' : id \in 1 .. (n + 1) - 1 /\ book'[id] \in Tracked
      BY <1>1, <1>2, <1>5, <1>6
    <2> QED
      BY <1>2, <1>3, <1>5, <2>1, <2>2, Zenon DEF SessionOK
  <1>8. \A i, id \in Nat : /\ NewAt(i, id)' <=> NewAt(i, id) \/ (i = Len(requests) + 1 /\ id = n)
                           /\ CancelAt(i, id)' <=> CancelAt(i, id)
    <2>1. \A i \in 1 .. Len(requests) : i # Len(requests) + 1
      BY <1>3
    <2>2. \A i, id \in Nat : NewAt(i, id)' <=> NewAt(i, id) \/ (i = Len(requests) + 1 /\ id = n)
      BY <1>1, <1>3, <1>4, <2>1 DEF NewAt
    <2>3. \A i, id \in Nat : CancelAt(i, id)' <=> CancelAt(i, id)
      BY <1>1, <1>3, <1>4, <2>1 DEF CancelAt
    <2> QED
      BY <2>2, <2>3, Zenon
  <1>9. \A i, id \in Nat : (EndAt(i, id)' <=> EndAt(i, id)) /\ (MissAt(i, id)' <=> MissAt(i, id))
    BY <1>2, Zenon DEF EndAt, MissAt, Terminal
  <1>10. /\ n \in Nat /\ n \notin DOMAIN book
         /\ \A i \in Nat : ~NewAt(i, n) /\ ~CancelAt(i, n) /\ ~EndAt(i, n) /\ ~MissAt(i, n)
    <2>1. n \notin 1 .. n - 1
      BY <1>1
    <2> QED
      BY <1>1, <1>5, <2>1 DEF NewAt, CancelAt, EndAt, MissAt
  <1>11. OnePlace' /\ CancelsBehind'
    <2> SUFFICES ASSUME NEW id \in Nat
                 PROVE  /\ \A i, j \in Nat : NewAt(i, id)' /\ NewAt(j, id)' => i = j
                        /\ \A i, j \in Nat : EndAt(i, id)' /\ EndAt(j, id)' => i = j
                        /\ \A i \in Nat : NewAt(i, id)' => id \notin DOMAIN book'
                        /\ \A i, j \in Nat : ~(NewAt(i, id)' /\ EndAt(j, id)')
                        /\ \A i \in Nat : EndAt(i, id)' => id \notin DOMAIN book'
                        /\ \A i, j \in Nat : CancelAt(i, id)' /\ NewAt(j, id)' => j < i
                        /\ \A i, j \in Nat : ~(MissAt(i, id)' /\ NewAt(j, id)')
                        /\ \A i \in Nat : MissAt(i, id)' => id \notin DOMAIN book'
                        /\ \A i, j \in Nat : MissAt(i, id)' /\ EndAt(j, id)' => j < i
      BY Zenon DEF OnePlace, CancelsBehind
    <2>1. CASE id = n
      BY <1>2, <1>8, <1>9, <1>10, <2>1, Zenon
    <2>2. CASE id # n
      BY <1>1, <1>2, <1>8, <1>9, <2>2, Zenon DEF OnePlace, CancelsBehind
    <2> QED
      BY <2>1, <2>2, Zenon
  <1> QED
    BY <1>2, <1>7, <1>11 DEF SessionInv

\* The engine sends cancels of orders it has sent.
LEMMA CancelsKeep ==
    ASSUME SessionInv, NEW ms \in Seq(Requests), send_cancels(ms),
           \A i \in 1 .. Len(ms) : ms[i].msg_type = "Cancel" /\ ms[i].order_id \in 1 .. next_order_id - 1
    PROVE  /\ SessionInv'
           /\ \A i, id \in Nat : NewAt(i, id)' <=> NewAt(i, id)
           /\ \A i \in 1 .. Len(requests') : \/ i \in 1 .. Len(requests) /\ requests'[i] = requests[i]
                                             \/ \E j \in 1 .. Len(ms) : requests'[i] = ms[j]
  <1>1. /\ SessionOK /\ OnePlace /\ CancelsBehind /\ requests \in Seq(Requests)
        /\ next_order_id' = next_order_id /\ requests' = requests \o ms
        /\ book' = book /\ inbox' = inbox
    BY DEF SessionInv, SessionOK, send_cancels
  <1>2. /\ requests' \in Seq(Requests) /\ Len(requests') = Len(requests) + Len(ms)
        /\ Len(requests) \in Nat /\ Len(ms) \in Nat
        /\ \A i \in 1 .. Len(requests) : requests'[i] = requests[i]
        /\ \A i \in 1 .. Len(requests) + Len(ms) : i > Len(requests) => requests'[i] = ms[i - Len(requests)]
    BY <1>1, ConcatFacts
  <1>3. \A i \in 1 .. Len(requests') :
           \/ i \in 1 .. Len(requests) /\ requests'[i] = requests[i]
           \/ i > Len(requests) /\ \E j \in 1 .. Len(ms) : requests'[i] = ms[j]
    <2> SUFFICES ASSUME NEW i \in 1 .. Len(requests'), i \notin 1 .. Len(requests)
                 PROVE  i > Len(requests) /\ \E j \in 1 .. Len(ms) : requests'[i] = ms[j]
      BY <1>2, Zenon
    <2>1. i > Len(requests) /\ requests'[i] = ms[i - Len(requests)] /\ i - Len(requests) \in 1 .. Len(ms)
      BY <1>2
    <2> QED
      BY <2>1, Zenon
  <1>4. SessionOK'
    BY <1>1, <1>2, <1>3, Zenon DEF SessionOK
  <1>5. \A i \in 1 .. Len(requests) : i \in 1 .. Len(requests')
    BY <1>2
  <1>6. \A i, id \in Nat : NewAt(i, id)' <=> NewAt(i, id)
    BY <1>2, <1>3, <1>5 DEF NewAt
  <1>7. \A i, id \in Nat : CancelAt(i, id)' => CancelAt(i, id) \/ i > Len(requests)
    BY <1>3 DEF CancelAt
  <1>8. \A i, id \in Nat : NewAt(i, id) => i =< Len(requests)
    BY <1>2 DEF NewAt
  <1>9. \A i, id \in Nat : (EndAt(i, id)' <=> EndAt(i, id)) /\ (MissAt(i, id)' <=> MissAt(i, id))
    BY <1>1, Zenon DEF EndAt, MissAt, Terminal
  <1>10. OnePlace'
    BY <1>1, <1>6, <1>9 DEF OnePlace
  <1>11. CancelsBehind'
    <2>1. \A i, j, id \in Nat : CancelAt(i, id)' /\ NewAt(j, id)' => j < i
      <3> SUFFICES ASSUME NEW i \in Nat, NEW j \in Nat, NEW id \in Nat, CancelAt(i, id)', NewAt(j, id)
                   PROVE  j < i
        BY <1>6, Zenon
      <3>1. CASE CancelAt(i, id)
        BY <1>1, <3>1, Zenon DEF CancelsBehind
      <3>2. CASE i > Len(requests)
        BY <1>2, <1>8, <3>2
      <3> QED
        BY <1>7, <3>1, <3>2
    <2> QED
      BY <1>1, <1>6, <1>9, <2>1, Zenon DEF CancelsBehind
  <1> QED
    BY <1>3, <1>4, <1>6, <1>10, <1>11, Zenon DEF SessionInv

-----------------------------------------------------------------------------
\* Reading the end of an order, or the rejection of its cancel, ends it; any
\* other response leaves it alive.
LEMMA ReceiveLive ==
    ASSUME SessionInv, receive, NEW r, r = inbox[1]
    PROVE  /\ r \in Responses /\ r.client_order_id \in Nat /\ Head(inbox) = r
           /\ \A id \in Nat : id # r.client_order_id => (Live(id)' <=> Live(id))
           /\ Terminal(r) \/ r.msg_type = "CancelRejected" => ~Live(r.client_order_id)'
           /\ ~Terminal(r) => (Live(r.client_order_id)' <=> Live(r.client_order_id))
           /\ \A id \in Nat, t \in Tickers, s \in Sides : Names(id, t, s) => Names(id, t, s)'
           /\ \A t, s : Names(r.client_order_id, t, s) => r.ticker_id = t /\ r.side = s
  <1>1. /\ SessionOK /\ OnePlace /\ CancelsBehind
        /\ requests' = requests /\ book' = book /\ next_order_id' = next_order_id
    BY DEF SessionInv, receive
  <1>2. SessionOK'
    BY ReceiveKeeps DEF SessionInv
  <1> PICK x : x = r.client_order_id
    OBVIOUS
  <1>3. /\ r \in Responses /\ x \in Nat /\ Head(inbox) = r /\ 1 \in 1 .. Len(inbox)
        /\ \A i \in 1 .. Len(inbox') : inbox'[i] = inbox[i + 1] /\ i + 1 \in 1 .. Len(inbox)
        /\ \A i, id \in Nat : EndAt(i, id)' <=> i > 0 /\ EndAt(i + 1, id)
    BY <1>1, ReceiveFacts DEF Responses
  <1>4. \A id \in Nat : Live(id) <=> \/ \E i \in Nat : NewAt(i, id)
                                     \/ id \in DOMAIN book
                                     \/ \E i \in Nat : EndAt(i, id)
    BY <1>1, LiveFacts
  <1>5. \A id \in Nat : Live(id)' <=> \/ \E i \in Nat : NewAt(i, id)
                                      \/ id \in DOMAIN book
                                      \/ \E i \in Nat : EndAt(i + 1, id) /\ i > 0
    <2>1. (\A id \in Nat : Live(id) <=> \/ \E i \in Nat : NewAt(i, id)
                                        \/ id \in DOMAIN book
                                        \/ \E i \in Nat : EndAt(i, id))'
      BY <1>2, LiveFacts, PTL
    <2>2. \A i, id \in Nat : NewAt(i, id)' <=> NewAt(i, id)
      BY <1>1 DEF NewAt
    <2> QED
      BY <1>1, <1>3, <2>1, <2>2, Zenon
  <1>6. \A i, id \in Nat : EndAt(i, id) => i = 1 \/ (i - 1 \in Nat /\ i - 1 > 0 /\ (i - 1) + 1 = i)
    BY <1>1 DEF EndAt
  <1>7. \A id \in Nat : EndAt(1, id) <=> id = x /\ Terminal(r)
    BY <1>3 DEF EndAt
  <1>8. \A id \in Nat : (\E i \in Nat : EndAt(i + 1, id) /\ i > 0) <=>
                        \E i \in Nat : EndAt(i, id) /\ i # 1
    <2>1. \A i \in Nat : i > 0 => i + 1 \in Nat /\ i + 1 # 1
      OBVIOUS
    <2> QED
      BY <1>6, <2>1
  <1>9. ASSUME NEW id \in Nat, id # x \/ ~Terminal(r)
        PROVE  Live(id)' <=> Live(id)
    <2>1. (\E i \in Nat : EndAt(i, id) /\ i # 1) <=> (\E i \in Nat : EndAt(i, id))
      BY <1>7, <1>9
    <2> QED
      BY <1>4, <1>5, <1>8, <2>1, Zenon
  <1>10. ASSUME Terminal(r)
         PROVE  ~Live(x)'
    <2>1. EndAt(1, x) /\ 1 \in Nat
      BY <1>3, <1>7, <1>10, Zenon
    <2>2. /\ x \notin DOMAIN book /\ \A i \in Nat : ~NewAt(i, x)
          /\ \A i \in Nat : EndAt(i, x) => i = 1
      BY <1>1, <1>3, <2>1 DEF OnePlace
    <2> QED
      BY <1>3, <1>5, <1>8, <2>2, Zenon
  <1>11. ASSUME r.msg_type = "CancelRejected"
         PROVE  ~Live(x)'
    <2>1. MissAt(1, x) /\ 1 \in Nat
      BY <1>3, <1>11 DEF MissAt
    <2>2. /\ x \notin DOMAIN book /\ \A i \in Nat : ~NewAt(i, x)
          /\ \A i \in Nat : EndAt(i, x) => i < 1
      BY <1>1, <1>3, <2>1 DEF CancelsBehind
    <2>3. \A i \in Nat : ~EndAt(i, x)
      BY <1>3, <1>6, <2>2
    <2> QED
      BY <1>3, <1>5, <1>8, <2>2, <2>3, Zenon
  <1>12. ASSUME NEW id \in Nat, NEW t \in Tickers, NEW s \in Sides, Names(id, t, s)
         PROVE  Names(id, t, s)'
    BY <1>1, <1>3, <1>12 DEF Names
  <1>13. \A t, s : Names(x, t, s) => r.ticker_id = t /\ r.side = s
    BY <1>3 DEF Names
  <1> QED
    BY <1>3, <1>9, <1>10, <1>11, <1>12, <1>13, Zenon

\* A new order is alive.
LEMMA SubmitLive ==
    ASSUME SessionInv, NEW o \in Tracked, send_new_orders(<<o>>), NEW n, n = next_order_id
    PROVE  /\ n \in Nat \ {0} /\ next_order_id' = n + 1
           /\ \A id \in Nat : Live(id)' <=> Live(id) \/ id = n
           /\ \A id \in Nat, t \in Tickers, s \in Sides : id # n /\ Names(id, t, s) => Names(id, t, s)'
           /\ Names(n, o.ticker_id, o.side)'
  <1> PICK m : m = [msg_type |-> "New", order_id |-> n, order |-> o]
    BY Zenon
  <1>1. /\ SessionOK /\ SessionOK' /\ n \in Nat \ {0} /\ m.msg_type = "New" /\ m.order_id = n
        /\ m.order = o /\ requests' = Append(requests, m) /\ requests \in Seq(Requests)
        /\ m \in Requests
    BY SubmitKeeps, Zenon DEF SessionInv, SessionOK, Requests
  <1>2. next_order_id' = n + 1 /\ book' = book /\ inbox' = inbox
    BY <1>1 DEF send_new_orders
  <1>3. /\ Len(requests') = Len(requests) + 1 /\ Len(requests) \in Nat
        /\ \A i \in 1 .. Len(requests) : requests'[i] = requests[i]
        /\ requests'[Len(requests) + 1] = m
    BY <1>1, AppendFacts
  <1>4. /\ \A i \in 1 .. Len(requests') : \/ i \in 1 .. Len(requests) /\ requests'[i] = requests[i]
                                          \/ i = Len(requests) + 1 /\ requests'[i] = m
        /\ \A i \in 1 .. Len(requests) : i \in 1 .. Len(requests')
        /\ Len(requests) + 1 \in 1 .. Len(requests')
    BY <1>3
  <1>5. /\ DOMAIN requests = 1 .. Len(requests) /\ DOMAIN requests' = 1 .. Len(requests')
    BY <1>1 DEF SessionOK
  <1>6. \A id \in Nat : Live(id)' <=> Live(id) \/ id = n
    BY <1>1, <1>2, <1>3, <1>4, <1>5 DEF Live, Terminal
  <1>7. ASSUME NEW id \in Nat, NEW t \in Tickers, NEW s \in Sides, id # n, Names(id, t, s)
        PROVE  Names(id, t, s)'
    BY <1>1, <1>2, <1>4, <1>7 DEF Names
  <1>8. /\ n \notin DOMAIN book
        /\ \A i \in 1 .. Len(requests) : requests[i].order_id # n
        /\ \A i \in 1 .. Len(inbox) : inbox[i].client_order_id # n
    <2>1. n \notin 1 .. n - 1
      BY <1>1
    <2> QED
      BY <1>1, <2>1, Zenon DEF SessionOK
  <1>9. Names(n, o.ticker_id, o.side)'
    BY <1>1, <1>2, <1>4, <1>8, Zenon DEF Names
  <1> QED
    BY <1>1, <1>2, <1>6, <1>7, <1>9

\* Cancels of tracked orders change no order.
LEMMA CancelsLive ==
    ASSUME SessionInv, NEW ms \in Seq(Requests), send_cancels(ms),
           \A i \in 1 .. Len(ms) : ms[i].msg_type = "Cancel" /\ ms[i].order_id \in 1 .. next_order_id - 1
    PROVE  /\ next_order_id' = next_order_id
           /\ \A id \in Nat : Live(id)' <=> Live(id)
           /\ \A id \in Nat, t \in Tickers, s \in Sides :
                 /\ Names(id, t, s)
                 /\ \A i \in 1 .. Len(ms) : ms[i].order_id = id => ms[i].order.ticker_id = t /\ ms[i].order.side = s
                 => Names(id, t, s)'
  <1>1. /\ SessionOK /\ SessionOK' /\ next_order_id' = next_order_id
        /\ book' = book /\ inbox' = inbox
        /\ \A i, id \in Nat : NewAt(i, id)' <=> NewAt(i, id)
        /\ \A i \in 1 .. Len(requests') : \/ i \in 1 .. Len(requests) /\ requests'[i] = requests[i]
                                          \/ \E j \in 1 .. Len(ms) : requests'[i] = ms[j]
    BY CancelsKeep, Zenon DEF SessionInv, send_cancels
  <1>2. \A i, id \in Nat : EndAt(i, id)' <=> EndAt(i, id)
    BY <1>1 DEF EndAt, Terminal
  <1>3. \A id \in Nat : Live(id) <=> \/ \E i \in Nat : NewAt(i, id)
                                     \/ id \in DOMAIN book
                                     \/ \E i \in Nat : EndAt(i, id)
    BY <1>1, LiveFacts, Zenon
  <1>4. (\A id \in Nat : Live(id) <=> \/ \E i \in Nat : NewAt(i, id)
                                      \/ id \in DOMAIN book
                                      \/ \E i \in Nat : EndAt(i, id))'
    BY <1>1, LiveFacts, PTL
  <1>5. \A id \in Nat : Live(id)' <=> Live(id)
    BY <1>1, <1>2, <1>3, <1>4, Zenon
  <1>6. ASSUME NEW id \in Nat, NEW t \in Tickers, NEW s \in Sides, Names(id, t, s),
               \A i \in 1 .. Len(ms) : ms[i].order_id = id => ms[i].order.ticker_id = t /\ ms[i].order.side = s
        PROVE  Names(id, t, s)'
    BY <1>1, <1>6 DEF Names
  <1> QED
    BY <1>1, <1>5, <1>6
-----------------------------------------------------------------------------
\* The quantity of the fills of order id that are in flight behind position k.
FillAt(i, id) == i \in 1 .. Len(inbox) /\ inbox[i].client_order_id = id /\ inbox[i].msg_type = "Filled"

FilledAfter(id, k) ==
    SumFunctionOnSet([i \in DOMAIN inbox |-> inbox[i].exec_qty],
                     {i \in DOMAIN inbox : i > k /\ FillAt(i, id)})

\* The quantity of the responses in flight on side s of ticker t.
Executed(t, s) == InFlight(LAMBDA r : r.ticker_id = t /\ r.side = s)

\* A fill is behind its order: the order still rests, or its end is not ahead
\* of the fill.  What a fill leaves is what rests and the fills behind it.
FillsInv ==
    /\ \A i, id \in Nat : FillAt(i, id) =>
          /\ id \in DOMAIN book \/ \E j \in Nat : i =< j /\ EndAt(j, id)
          /\ inbox[i].leaves_qty = Resting(id) + FilledAfter(id, i)
    /\ \A i \in 1 .. Len(inbox) : inbox[i].msg_type # "Filled" => inbox[i].exec_qty = 0
    /\ traded \in [Tickers -> Int]

\* What rests of an order.
RestsAt ==
    \A id \in Nat :
       /\ Resting(id) \in Nat
       /\ id \in DOMAIN book => Resting(id) = book[id].qty
       /\ \A i \in Nat : NewAt(i, id) => Resting(id) = requests[i].order.qty
       /\ \A i \in Nat : EndAt(i, id) => Resting(id) = inbox[i].leaves_qty
       /\ ~Live(id) => Resting(id) = 0

\* It is read off the one place where the order is.
LEMMA RestingIs ==
    ASSUME SumFacts, SessionInv
    PROVE  RestsAt
  <1> SUFFICES ASSUME NEW id \in Nat
               PROVE  /\ Resting(id) \in Nat
                      /\ id \in DOMAIN book => Resting(id) = book[id].qty
                      /\ \A i \in Nat : NewAt(i, id) => Resting(id) = requests[i].order.qty
                      /\ \A i \in Nat : EndAt(i, id) => Resting(id) = inbox[i].leaves_qty
                      /\ ~Live(id) => Resting(id) = 0
    BY DEF RestsAt
  <1>1. SessionOK /\ OnePlace
    BY DEF SessionInv
  <1>2. /\ DOMAIN requests = 1 .. Len(requests) /\ DOMAIN inbox = 1 .. Len(inbox)
        /\ \A i \in 1 .. Len(requests) : i \in Nat /\ requests[i] \in Requests
        /\ \A i \in 1 .. Len(inbox) : i \in Nat /\ inbox[i] \in Responses
    BY <1>1 DEF SessionOK
  <1>3. Live(id) <=> (\E i \in Nat : NewAt(i, id)) \/ id \in DOMAIN book \/ (\E i \in Nat : EndAt(i, id))
    BY <1>1, LiveFacts
  <1>4. CASE id \in DOMAIN book
    <2>1. Resting(id) = book[id].qty /\ book[id].qty \in Nat
      BY <1>1, <1>4, Zenon DEF Resting, SessionOK, Tracked
    <2> QED
      BY <1>1, <1>3, <1>4, <2>1 DEF OnePlace
  <1>5. CASE id \notin DOMAIN book
    <2>1. PICK f : f = [i \in DOMAIN requests |-> requests[i].order.qty]
      BY Zenon
    <2>2. PICK g : g = [i \in DOMAIN inbox |-> inbox[i].leaves_qty]
      BY Zenon
    <2>3. PICK S : S = {i \in DOMAIN requests : requests[i].msg_type = "New" /\ requests[i].order_id = id}
      BY Zenon
    <2>4. PICK T : T = {i \in DOMAIN inbox : /\ inbox[i].client_order_id = id
                                             /\ inbox[i].msg_type \in {"Canceled", "InvalidRequest"}}
      BY Zenon
    <2>5. Resting(id) = SumFunctionOnSet(f, S) + SumFunctionOnSet(g, T)
      BY <1>5, <2>1, <2>2, <2>3, <2>4, Zenon DEF Resting
    <2>6. \A i : i \in S <=> NewAt(i, id)
      BY <1>2, <2>3 DEF NewAt
    <2>7. \A i : i \in T => EndAt(i, id)
      BY <1>2, <2>4 DEF EndAt, Terminal
    <2>8. \A i : EndAt(i, id) /\ i \notin T => inbox[i].leaves_qty = 0
      BY <1>2, <2>4 DEF EndAt, Terminal
    <2>9. SumFunctionOnSet(f, {}) = 0 /\ SumFunctionOnSet(g, {}) = 0
      BY Zenon DEF SumFacts, SumOfNone
    <2>10. CASE \E i \in Nat : NewAt(i, id)
      <3>1. PICK k \in Nat : NewAt(k, id)
        BY <2>10
      <3>2. S = {k} /\ T = {} /\ \A i \in Nat : ~EndAt(i, id) /\ (NewAt(i, id) => i = k)
        <4>1. \A i \in Nat : ~EndAt(i, id) /\ (NewAt(i, id) => i = k)
          BY <1>1, <3>1 DEF OnePlace
        <4>2. \A i : NewAt(i, id) \/ EndAt(i, id) => i \in Nat
          BY <1>2 DEF NewAt, EndAt
        <4>3. S = {k}
          BY <2>6, <3>1, <4>1, <4>2
        <4>4. T = {}
          BY <2>7, <4>1, <4>2
        <4> QED
          BY <4>1, <4>3, <4>4
      <3>3. f[k] = requests[k].order.qty /\ f[k] \in Nat
        BY <1>2, <2>1, <3>1 DEF NewAt, Requests, Tracked
      <3>4. SumFunctionOnSet(f, {k}) = f[k]
        BY <3>3 DEF SumFacts, SumOfOne
      <3>5. Resting(id) = f[k]
        BY <2>5, <2>9, <3>2, <3>3, <3>4
      <3> QED
        BY <1>3, <1>5, <3>1, <3>2, <3>3, <3>5
    <2>11. CASE ~(\E i \in Nat : NewAt(i, id))
      <3>1. S = {}
        BY <1>2, <2>6, <2>11 DEF NewAt
      <3>2. CASE T = {}
        <4>1. Resting(id) = 0
          BY <2>5, <2>9, <3>1, <3>2
        <4> QED
          BY <1>5, <2>8, <2>11, <3>2, <4>1
      <3>3. CASE T # {}
        <4>1. PICK k \in T : TRUE
          BY <3>3
        <4>2. k \in Nat /\ EndAt(k, id)
          BY <1>2, <2>7 DEF EndAt
        <4>3. \A i \in Nat : EndAt(i, id) => i = k
          BY <1>1, <4>2 DEF OnePlace
        <4>4. \A i \in T : i \in Nat
          BY <1>2, <2>7 DEF EndAt
        <4>5. T = {k}
          BY <2>7, <4>1, <4>3, <4>4, Zenon
        <4>6. g[k] = inbox[k].leaves_qty /\ g[k] \in Nat /\ g[k] \in Int
          BY <1>2, <2>2, <4>2 DEF EndAt, Responses
        <4>7. SumFunctionOnSet(g, {k}) = g[k]
          BY <4>6, Zenon DEF SumFacts, SumOfOne
        <4>8. Resting(id) = g[k]
          BY <2>5, <2>9, <3>1, <4>5, <4>6, <4>7
        <4> QED
          BY <1>3, <1>5, <2>11, <4>2, <4>3, <4>6, <4>8, Zenon
      <3> QED
        BY <3>2, <3>3
    <2> QED
      BY <2>10, <2>11
  <1> QED
    BY <1>4, <1>5

\* The fills in flight when the client reads a response: the first leaves, the
\* others move up.
LEMMA FillsReceived ==
    ASSUME SumFacts, SessionOK, receive, NEW id \in Nat
    PROVE  /\ \A k \in Nat : FilledAfter(id, k)' = FilledAfter(id, k + 1)
           /\ FilledAfter(id, 0) = FilledAfter(id, 0)' + (IF FillAt(1, id) THEN inbox[1].exec_qty ELSE 0)
           /\ FilledAfter(id, 0)' \in Int
  <1>1. /\ inbox' \in Seq(Responses) /\ Len(inbox') = Len(inbox) - 1 /\ Len(inbox) \in Nat \ {0}
        /\ \A i \in 1 .. Len(inbox') : inbox'[i] = inbox[i + 1] /\ i + 1 \in 1 .. Len(inbox)
        /\ \A i \in 1 .. Len(inbox) : inbox[i] \in Responses
    BY ReceiveFacts DEF SessionOK
  <1>2. PICK n : n = Len(inbox)
    BY Zenon
  <1>3. /\ n \in Nat \ {0} /\ DOMAIN inbox = 1 .. n /\ DOMAIN inbox' = 1 .. n - 1
        /\ \A i \in 1 .. n - 1 : inbox'[i] = inbox[i + 1]
        /\ \A i \in 1 .. n : inbox[i].exec_qty \in Int
    <2>1. \A i \in 1 .. n : inbox[i].exec_qty \in Int
      BY <1>1, <1>2 DEF Responses
    <2>2. DOMAIN inbox = 1 .. n /\ DOMAIN inbox' = 1 .. n - 1
      BY <1>1, <1>2 DEF SessionOK
    <2> QED
      BY <1>1, <1>2, <2>1, <2>2, Zenon
  <1>4. PICK f : f = [i \in DOMAIN inbox |-> inbox[i].exec_qty]
    BY Zenon
  <1>5. PICK f1 : f1 = [i \in DOMAIN inbox' |-> inbox'[i].exec_qty]
    BY Zenon
  <1>6. \A i \in 1 .. n : f[i] = inbox[i].exec_qty
    BY <1>3, <1>4, Zenon
  <1>7. \A i \in 1 .. n - 1 : f1[i] = f[i + 1] /\ (FillAt(i, id)' <=> FillAt(i + 1, id))
    <2> TAKE i \in 1 .. n - 1
    <2>1. i + 1 \in 1 .. n
      BY <1>3
    <2>2. f1[i] = inbox'[i].exec_qty
      BY <1>3, <1>5
    <2> QED
      BY <1>1, <1>2, <1>3, <1>6, <2>1, <2>2, Zenon DEF FillAt
  <1>8. ASSUME NEW k \in Nat
        PROVE  FilledAfter(id, k)' = FilledAfter(id, k + 1)
    <2>1. PICK S : S = {i \in DOMAIN inbox : i > k + 1 /\ FillAt(i, id)}
      BY Zenon
    <2>2. PICK S1 : S1 = {i \in DOMAIN inbox' : i > k /\ FillAt(i, id)'}
      BY Zenon
    <2>3. FilledAfter(id, k + 1) = SumFunctionOnSet(f, S) /\ FilledAfter(id, k)' = SumFunctionOnSet(f1, S1)
      BY <1>4, <1>5, <2>1, <2>2, Zenon DEF FilledAfter
    <2>4. Tailed(f, S, f1, S1, n) /\ 1 \notin S
      <3>1. S \subseteq 1 .. n /\ S1 \subseteq 1 .. n - 1 /\ 1 \notin S
        BY <1>3, <2>1, <2>2
      <3>2. \A i \in 1 .. n - 1 : i \in S1 <=> i + 1 \in S
        BY <1>3, <1>7, <2>1, <2>2
      <3>3. \A i \in S : f[i] \in Int
        BY <1>3, <1>6, <2>1
      <3> QED
        BY <1>7, <3>1, <3>2, <3>3, Zenon DEF Tailed
    <2> QED
      BY <1>3, <2>3, <2>4 DEF SumFacts, SumTails
  <1>9. /\ FilledAfter(id, 0) = FilledAfter(id, 0)' + (IF FillAt(1, id) THEN inbox[1].exec_qty ELSE 0)
        /\ FilledAfter(id, 0)' \in Int
    <2>1. PICK S : S = {i \in DOMAIN inbox : i > 0 /\ FillAt(i, id)}
      BY Zenon
    <2>2. PICK S1 : S1 = {i \in DOMAIN inbox' : i > 0 /\ FillAt(i, id)'}
      BY Zenon
    <2>3. FilledAfter(id, 0) = SumFunctionOnSet(f, S) /\ FilledAfter(id, 0)' = SumFunctionOnSet(f1, S1)
      BY <1>4, <1>5, <2>1, <2>2, Zenon DEF FilledAfter
    <2>4. Tailed(f, S, f1, S1, n)
      <3>1. S \subseteq 1 .. n /\ S1 \subseteq 1 .. n - 1
        BY <1>3, <2>1, <2>2, Zenon
      <3>2. \A i \in 1 .. n - 1 : i \in S1 <=> i + 1 \in S
        BY <1>3, <1>7, <2>1, <2>2
      <3>3. \A i \in S : f[i] \in Int
        BY <1>3, <1>6, <2>1
      <3> QED
        BY <1>7, <3>1, <3>2, <3>3, Zenon DEF Tailed
    <2>5. 1 \in S <=> FillAt(1, id)
      BY <1>3, <2>1
    <2>6. f[1] = inbox[1].exec_qty
      BY <1>3, <1>6
    <2>7. /\ SumFunctionOnSet(f, S) = SumFunctionOnSet(f1, S1) + (IF 1 \in S THEN f[1] ELSE 0)
          /\ SumFunctionOnSet(f1, S1) \in Int
      BY <1>3, <2>4, Zenon DEF SumFacts, SumTails
    <2> QED
      BY <2>3, <2>5, <2>6, <2>7
  <1> QED
    BY <1>8, <1>9, Zenon

\* ... and when the exchange sends one: it is the last.
LEMMA FillsSent ==
    ASSUME SumFacts, SessionOK, NEW r \in Responses, Respond(r), NEW id \in Nat
    PROVE  \A k \in Nat : k =< Len(inbox) =>
              /\ FilledAfter(id, k)' = FilledAfter(id, k)
                    + (IF r.client_order_id = id /\ r.msg_type = "Filled" THEN r.exec_qty ELSE 0)
              /\ FilledAfter(id, k) \in Int
  <1>1. /\ inbox' \in Seq(Responses) /\ Len(inbox') = Len(inbox) + 1 /\ Len(inbox) \in Nat
        /\ \A i \in 1 .. Len(inbox') : inbox'[i] = IF i = Len(inbox) + 1 THEN r ELSE inbox[i]
        /\ \A i \in 1 .. Len(inbox) : inbox[i] \in Responses
    BY RespondFacts DEF SessionOK
  <1>2. PICK n : n = Len(inbox)
    BY Zenon
  <1>3. /\ n \in Nat /\ DOMAIN inbox = 1 .. n /\ DOMAIN inbox' = 1 .. n + 1
        /\ \A i \in 1 .. n : i \in 1 .. n + 1 /\ i # n + 1 /\ inbox'[i] = inbox[i]
        /\ inbox'[n + 1] = r /\ r.exec_qty \in Int
        /\ \A i \in 1 .. n : inbox[i].exec_qty \in Int
    <2>1. r.exec_qty \in Int /\ \A i \in 1 .. n : inbox[i].exec_qty \in Int
      BY <1>1, <1>2 DEF Responses
    <2>2. DOMAIN inbox = 1 .. n /\ DOMAIN inbox' = 1 .. n + 1
      BY <1>1, <1>2 DEF SessionOK
    <2> QED
      BY <1>1, <1>2, <2>1, <2>2
  <1>4. PICK f : f = [i \in DOMAIN inbox |-> inbox[i].exec_qty]
    BY Zenon
  <1>5. PICK f1 : f1 = [i \in DOMAIN inbox' |-> inbox'[i].exec_qty]
    BY Zenon
  <1>6. /\ \A i \in 1 .. n : f[i] = inbox[i].exec_qty /\ f1[i] = f[i] /\ f[i] \in Int
        /\ f1[n + 1] = r.exec_qty
    BY <1>3, <1>4, <1>5
  <1>7. /\ \A i \in 1 .. n : FillAt(i, id)' <=> FillAt(i, id)
        /\ FillAt(n + 1, id)' <=> r.client_order_id = id /\ r.msg_type = "Filled"
    BY <1>1, <1>2, <1>3 DEF FillAt
  <1> SUFFICES ASSUME NEW k \in Nat, k =< n
               PROVE  /\ FilledAfter(id, k)' = FilledAfter(id, k)
                            + (IF r.client_order_id = id /\ r.msg_type = "Filled" THEN r.exec_qty ELSE 0)
                      /\ FilledAfter(id, k) \in Int
    BY <1>2
  <1>8. PICK S : S = {i \in DOMAIN inbox : i > k /\ FillAt(i, id)}
    BY Zenon
  <1>9. PICK S1 : S1 = {i \in DOMAIN inbox' : i > k /\ FillAt(i, id)'}
    BY Zenon
  <1>10. FilledAfter(id, k) = SumFunctionOnSet(f, S) /\ FilledAfter(id, k)' = SumFunctionOnSet(f1, S1)
    BY <1>4, <1>5, <1>8, <1>9, Zenon DEF FilledAfter
  <1>11. Appended(f, S, f1, S1, n)
    <2>1. S \subseteq 1 .. n /\ S1 \subseteq 1 .. n + 1
      BY <1>3, <1>8, <1>9, Zenon
    <2>2. \A i \in 1 .. n : i \in S1 <=> i \in S
      BY <1>3, <1>7, <1>8, <1>9, Zenon
    <2> QED
      BY <1>3, <1>6, <2>1, <2>2, Zenon DEF Appended
  <1>12. n + 1 \in S1 <=> r.client_order_id = id /\ r.msg_type = "Filled"
    BY <1>3, <1>7, <1>9
  <1>13. /\ SumFunctionOnSet(f1, S1) = SumFunctionOnSet(f, S) + (IF n + 1 \in S1 THEN f1[n + 1] ELSE 0)
         /\ SumFunctionOnSet(f, S) \in Int
    BY <1>3, <1>11, Zenon DEF SumFacts, SumAppends
  <1> QED
    BY <1>6, <1>10, <1>12, <1>13, Zenon

\* The executed quantity in flight on a side of a ticker, likewise.
LEMMA ExecutedReceived ==
    ASSUME SumFacts, SessionOK, receive, NEW t, NEW s
    PROVE  /\ Executed(t, s) = Executed(t, s)'
                 + (IF inbox[1].ticker_id = t /\ inbox[1].side = s THEN inbox[1].exec_qty ELSE 0)
           /\ Executed(t, s)' \in Int
  <1>1. PICK n : n = Len(inbox)
    BY Zenon
  <1>2. /\ n \in Nat \ {0} /\ DOMAIN inbox = 1 .. n /\ DOMAIN inbox' = 1 .. n - 1 /\ 1 \in 1 .. n
        /\ \A i \in 1 .. n - 1 : inbox'[i] = inbox[i + 1] /\ i + 1 \in 1 .. n
        /\ \A i \in 1 .. n : inbox[i].exec_qty \in Int
    <2>1. /\ inbox' \in Seq(Responses) /\ Len(inbox') = n - 1 /\ n \in Nat \ {0} /\ 1 \in 1 .. n
          /\ \A i \in 1 .. n - 1 : inbox'[i] = inbox[i + 1] /\ i + 1 \in 1 .. n
          /\ \A i \in 1 .. n : inbox[i] \in Responses
      BY <1>1, ReceiveFacts DEF SessionOK
    <2>2. \A i \in 1 .. n : inbox[i].exec_qty \in Int
      BY <2>1 DEF Responses
    <2>3. DOMAIN inbox = 1 .. n /\ DOMAIN inbox' = 1 .. n - 1
      BY <1>1, <2>1 DEF SessionOK
    <2> QED
      BY <2>1, <2>2, <2>3, Zenon
  <1>3. PICK f : f = [i \in DOMAIN inbox |-> inbox[i].exec_qty]
    BY Zenon
  <1>4. PICK f1 : f1 = [i \in DOMAIN inbox' |-> inbox'[i].exec_qty]
    BY Zenon
  <1>5. PICK S : S = {i \in DOMAIN inbox : inbox[i].ticker_id = t /\ inbox[i].side = s}
    BY Zenon
  <1>6. PICK S1 : S1 = {i \in DOMAIN inbox' : inbox'[i].ticker_id = t /\ inbox'[i].side = s}
    BY Zenon
  <1>7. Executed(t, s) = SumFunctionOnSet(f, S) /\ Executed(t, s)' = SumFunctionOnSet(f1, S1)
    BY <1>3, <1>4, <1>5, <1>6, Zenon DEF Executed, InFlight
  <1>8. Tailed(f, S, f1, S1, n)
    <2>1. S \subseteq 1 .. n /\ S1 \subseteq 1 .. n - 1
      BY <1>2, <1>5, <1>6, Zenon
    <2>2. \A i \in 1 .. n - 1 : (i \in S1 <=> i + 1 \in S) /\ f1[i] = f[i + 1]
      BY <1>2, <1>3, <1>4, <1>5, <1>6, Zenon
    <2>3. \A i \in S : f[i] \in Int
      BY <1>2, <1>3, <1>5, Zenon
    <2> QED
      BY <2>1, <2>2, <2>3, Zenon DEF Tailed
  <1>9. f[1] = inbox[1].exec_qty /\ (1 \in S <=> inbox[1].ticker_id = t /\ inbox[1].side = s)
    BY <1>2, <1>3, <1>5
  <1>10. /\ SumFunctionOnSet(f, S) = SumFunctionOnSet(f1, S1) + (IF 1 \in S THEN f[1] ELSE 0)
         /\ SumFunctionOnSet(f1, S1) \in Int
    BY <1>2, <1>8, Zenon DEF SumFacts, SumTails
  <1> QED
    BY <1>7, <1>9, <1>10

\* One more response: its quantity counts on its side of its ticker.
LEMMA ExecutedSent ==
    ASSUME SumFacts, SessionOK, NEW r \in Responses, Respond(r), NEW t, NEW s
    PROVE  /\ Executed(t, s)' = Executed(t, s) + (IF r.ticker_id = t /\ r.side = s THEN r.exec_qty ELSE 0)
           /\ Executed(t, s) \in Int
  <1>1. PICK n : n = Len(inbox)
    BY Zenon
  <1>2. /\ n \in Nat /\ DOMAIN inbox = 1 .. n /\ DOMAIN inbox' = 1 .. n + 1
        /\ \A i \in 1 .. n : i \in 1 .. n + 1 /\ inbox'[i] = inbox[i]
        /\ inbox'[n + 1] = r /\ r.exec_qty \in Int /\ n + 1 \in 1 .. n + 1
        /\ \A i \in 1 .. n : inbox[i].exec_qty \in Int
    <2>1. /\ inbox' \in Seq(Responses) /\ Len(inbox') = n + 1 /\ n \in Nat
          /\ \A i \in 1 .. n + 1 : inbox'[i] = IF i = n + 1 THEN r ELSE inbox[i]
          /\ \A i \in 1 .. n : inbox[i] \in Responses
      BY <1>1, RespondFacts DEF SessionOK
    <2>2. r.exec_qty \in Int /\ \A i \in 1 .. n : inbox[i].exec_qty \in Int
      BY <2>1 DEF Responses
    <2>3. DOMAIN inbox = 1 .. n /\ DOMAIN inbox' = 1 .. n + 1
      BY <1>1, <2>1 DEF SessionOK
    <2> QED
      BY <2>1, <2>2, <2>3
  <1>3. PICK f : f = [i \in DOMAIN inbox |-> inbox[i].exec_qty]
    BY Zenon
  <1>4. PICK f1 : f1 = [i \in DOMAIN inbox' |-> inbox'[i].exec_qty]
    BY Zenon
  <1>5. PICK S : S = {i \in DOMAIN inbox : inbox[i].ticker_id = t /\ inbox[i].side = s}
    BY Zenon
  <1>6. PICK S1 : S1 = {i \in DOMAIN inbox' : inbox'[i].ticker_id = t /\ inbox'[i].side = s}
    BY Zenon
  <1>7. Executed(t, s) = SumFunctionOnSet(f, S) /\ Executed(t, s)' = SumFunctionOnSet(f1, S1)
    BY <1>3, <1>4, <1>5, <1>6, Zenon DEF Executed, InFlight
  <1>8. Appended(f, S, f1, S1, n)
    <2>1. S \subseteq 1 .. n /\ S1 \subseteq 1 .. n + 1
      BY <1>2, <1>5, <1>6, Zenon
    <2>2. \A i \in 1 .. n : (i \in S1 <=> i \in S) /\ f1[i] = f[i] /\ f[i] \in Int
      BY <1>2, <1>3, <1>4, <1>5, <1>6, Zenon
    <2>3. f1[n + 1] \in Int
      BY <1>2, <1>4
    <2> QED
      BY <2>1, <2>2, <2>3, Zenon DEF Appended
  <1>9. f1[n + 1] = r.exec_qty /\ (n + 1 \in S1 <=> r.ticker_id = t /\ r.side = s)
    BY <1>2, <1>4, <1>6, Zenon
  <1>10. /\ SumFunctionOnSet(f1, S1) = SumFunctionOnSet(f, S) + (IF n + 1 \in S1 THEN f1[n + 1] ELSE 0)
         /\ SumFunctionOnSet(f, S) \in Int
    BY <1>2, <1>8 DEF SumFacts, SumAppends
  <1> QED
    BY <1>7, <1>9, <1>10

\* Where no fill follows, nothing is filled behind.
NoneBehind ==
    \A id, k \in Nat : (\A i \in DOMAIN inbox : ~(i > k /\ FillAt(i, id))) => FilledAfter(id, k) = 0

\* An empty sum.
LEMMA NoFillsBehind ==
    ASSUME SumFacts
    PROVE  NoneBehind
  <1> SUFFICES ASSUME NEW id \in Nat, NEW k \in Nat, \A i \in DOMAIN inbox : ~(i > k /\ FillAt(i, id))
               PROVE  FilledAfter(id, k) = 0
    BY DEF NoneBehind
  <1>1. {i \in DOMAIN inbox : i > k /\ FillAt(i, id)} = {}
    OBVIOUS
  <1>2. SumFunctionOnSet([i \in DOMAIN inbox |-> inbox[i].exec_qty], {}) = 0
    BY Zenon DEF SumFacts, SumOfNone
  <1> QED
    BY <1>1, <1>2 DEF FilledAfter

\* The order stays where it is, with its quantity.
Stays(id) ==
    /\ id \in DOMAIN book' <=> id \in DOMAIN book
    /\ id \in DOMAIN book => book'[id].qty = book[id].qty
    /\ \A i \in Nat : NewAt(i, id) =>
          \E j \in Nat : NewAt(j, id)' /\ requests'[j].order.qty = requests[i].order.qty
    /\ \A i \in Nat : EndAt(i, id) =>
          \E j \in Nat : EndAt(j, id)' /\ inbox'[j].leaves_qty = inbox[i].leaves_qty
    /\ Live(id)' => Live(id)

\* So its resting quantity does not change.
LEMMA RestingSame ==
    ASSUME SumFacts, SessionInv, SessionInv', NEW id \in Nat, Stays(id)
    PROVE  Resting(id)' = Resting(id)
  <1>1. RestsAt /\ RestsAt'
    <2>1. RestsAt
      BY RestingIs
    <2>2. RestsAt'
      BY RestingIs, PTL
    <2> QED
      BY <2>1, <2>2
  <1>2. /\ id \in DOMAIN book => Resting(id) = book[id].qty
        /\ \A i \in Nat : NewAt(i, id) => Resting(id) = requests[i].order.qty
        /\ \A i \in Nat : EndAt(i, id) => Resting(id) = inbox[i].leaves_qty
        /\ ~Live(id) => Resting(id) = 0
    BY <1>1, Zenon DEF RestsAt
  <1>3. /\ id \in DOMAIN book' => Resting(id)' = book'[id].qty
        /\ \A i \in Nat : NewAt(i, id)' => Resting(id)' = requests'[i].order.qty
        /\ \A i \in Nat : EndAt(i, id)' => Resting(id)' = inbox'[i].leaves_qty
        /\ ~Live(id)' => Resting(id)' = 0
    BY <1>1, Zenon DEF RestsAt
  <1>4. Live(id) => (\E i \in Nat : NewAt(i, id)) \/ id \in DOMAIN book \/ (\E i \in Nat : EndAt(i, id))
    BY LiveFacts DEF SessionInv
  <1> QED
    BY <1>2, <1>3, <1>4 DEF Stays

\* What the client will have seen filled, or ended, of an order.
Left(id) == Resting(id) + FilledAfter(id, 0)

\* Nothing that matters to the fills moves.
LEMMA FillsKept ==
    ASSUME SumFacts, SessionInv, SessionInv', FillsInv, inbox' = inbox, book' = book, traded' = traded,
           NEW n \in Nat, \A i \in Nat : ~FillAt(i, n),
           \A id \in Nat : id # n => Stays(id)
    PROVE  /\ FillsInv'
           /\ \A id \in Nat : id # n => Left(id)' = Left(id)
           /\ Left(n)' = Resting(n)'
  <1>1. \A id, k \in Nat : FilledAfter(id, k)' = FilledAfter(id, k)
    BY Zenon DEF FilledAfter, FillAt
  <1>2. \A i, id \in Nat : (FillAt(i, id)' <=> FillAt(i, id)) /\ (EndAt(i, id)' <=> EndAt(i, id))
    BY DEF FillAt, EndAt
  <1>3. \A id \in Nat : id # n => Resting(id)' = Resting(id)
    BY RestingSame, Zenon
  <1>4. FillsInv'
    <2>1. ASSUME NEW i \in Nat, NEW id \in Nat, FillAt(i, id)'
          PROVE  /\ id \in DOMAIN book' \/ \E j \in Nat : i =< j /\ EndAt(j, id)'
                 /\ inbox'[i].leaves_qty = Resting(id)' + FilledAfter(id, i)'
      <3>1. FillAt(i, id) /\ id # n
        BY <1>2, <2>1
      <3> QED
        BY <1>1, <1>2, <1>3, <3>1 DEF FillsInv
    <2> QED
      BY <2>1, Zenon DEF FillsInv
  <1>5. FilledAfter(n, 0) = 0
    <2>1. \A i \in DOMAIN inbox : ~(i > 0 /\ FillAt(i, n))
      BY DEF FillAt
    <2> QED
      BY <2>1, NoFillsBehind DEF NoneBehind
  <1>6. Resting(n)' \in Nat
    <2>1. RestsAt'
      BY RestingIs, PTL
    <2> QED
      BY <2>1 DEF RestsAt
  <1> QED
    BY <1>1, <1>3, <1>4, <1>5, <1>6 DEF Left

\* The client reads a response: a fill leaves what its leaves_qty says.
LEMMA ReceiveFills ==
    ASSUME SumFacts, SessionInv, FillsInv, receive, NEW r, r = inbox[1], NEW x, x = r.client_order_id
    PROVE  /\ FillsInv'
           /\ \A id \in Nat : id # x => Left(id)' = Left(id)
           /\ r.msg_type = "Filled" => Left(x) = r.exec_qty + r.leaves_qty
           /\ ~Terminal(r) => Left(x) = Left(x)' + r.exec_qty
  <1>1. /\ SessionOK /\ OnePlace /\ SessionInv' /\ r \in Responses /\ x \in Nat
        /\ requests' = requests /\ book' = book /\ traded' = traded
    BY ReceiveKeeps, ReceiveLive, Zenon DEF SessionInv, receive
  <1>2. /\ Len(inbox') = Len(inbox) - 1 /\ 1 \in 1 .. Len(inbox) /\ Len(inbox) \in Nat
        /\ \A i \in 1 .. Len(inbox') : inbox'[i] = inbox[i + 1] /\ i + 1 \in 1 .. Len(inbox)
        /\ \A i, id \in Nat : EndAt(i, id)' <=> i > 0 /\ EndAt(i + 1, id)
    BY <1>1, ReceiveFacts DEF SessionOK
  <1>3. /\ \A i, id \in Nat : FillAt(i, id)' <=> i > 0 /\ FillAt(i + 1, id)
        /\ \A i, id \in Nat : NewAt(i, id)' <=> NewAt(i, id)
        /\ \A id \in Nat : (FillAt(1, id) <=> id = x /\ r.msg_type = "Filled")
        /\ \A id \in Nat : (EndAt(1, id) <=> id = x /\ Terminal(r))
        /\ \A i, id \in Nat : FillAt(i, id) \/ EndAt(i, id) => i > 0 /\ i =< Len(inbox)
    <2>1. \A i, id \in Nat : FillAt(i, id)' <=> i > 0 /\ FillAt(i + 1, id)
      <3> TAKE i, id \in Nat
      <3>1. i \in 1 .. Len(inbox') <=> i > 0 /\ i + 1 \in 1 .. Len(inbox)
        BY <1>2
      <3> QED
        BY <1>2, <3>1, Zenon DEF FillAt
    <2> QED
      BY <1>1, <1>2, <2>1 DEF FillAt, EndAt, NewAt
  <1>4. \A id \in Nat : (id # x => (Live(id)' <=> Live(id))) /\ (~Terminal(r) => (Live(id)' <=> Live(id)))
    BY ReceiveLive, Zenon
  <1>5. ASSUME NEW id \in Nat, id # x \/ ~Terminal(r)
        PROVE  Stays(id)
    <2>1. ASSUME NEW i \in Nat, EndAt(i, id)
          PROVE  \E j \in Nat : EndAt(j, id)' /\ inbox'[j].leaves_qty = inbox[i].leaves_qty
      <3>1. i # 1 /\ i - 1 \in Nat /\ i - 1 > 0 /\ (i - 1) + 1 = i
        BY <1>3, <1>5, <2>1
      <3>2. EndAt(i - 1, id)'
        BY <1>2, <2>1, <3>1
      <3>3. i - 1 \in 1 .. Len(inbox')
        BY <3>2 DEF EndAt
      <3>4. inbox'[i - 1] = inbox[i]
        BY <1>2, <3>1, <3>3, Zenon
      <3> QED
        BY <3>1, <3>2, <3>4, Zenon
    <2> QED
      BY <1>1, <1>3, <1>4, <1>5, <2>1 DEF Stays
  <1>6. \A id \in Nat : id # x \/ ~Terminal(r) => Resting(id)' = Resting(id)
    BY <1>1, <1>5, RestingSame, Zenon
  <1>7. \A id \in Nat :
           /\ \A k \in Nat : FilledAfter(id, k)' = FilledAfter(id, k + 1)
           /\ FilledAfter(id, 0) = FilledAfter(id, 0)' + (IF FillAt(1, id) THEN inbox[1].exec_qty ELSE 0)
           /\ FilledAfter(id, 0)' \in Int
    BY <1>1, FillsReceived, Zenon
  <1>8. FillsInv'
    <2>1. ASSUME NEW i \in Nat, NEW id \in Nat, FillAt(i, id)'
          PROVE  /\ id \in DOMAIN book' \/ \E j \in Nat : i =< j /\ EndAt(j, id)'
                 /\ inbox'[i].leaves_qty = Resting(id)' + FilledAfter(id, i)'
      <3>1. i > 0 /\ i + 1 \in Nat /\ FillAt(i + 1, id) /\ i \in 1 .. Len(inbox') /\ inbox'[i] = inbox[i + 1]
        <4>1. i \in 1 .. Len(inbox')
          BY <2>1 DEF FillAt
        <4> QED
          BY <1>2, <1>3, <2>1, <4>1
      <3>2. /\ id \in DOMAIN book \/ \E j \in Nat : i + 1 =< j /\ EndAt(j, id)
            /\ inbox[i + 1].leaves_qty = Resting(id) + FilledAfter(id, i + 1)
        BY <3>1, Zenon DEF FillsInv
      <3>3. ASSUME NEW j \in Nat, i + 1 =< j, EndAt(j, id)
            PROVE  j - 1 \in Nat /\ i =< j - 1 /\ EndAt(j - 1, id)'
        <4>1. j - 1 \in Nat /\ j - 1 > 0 /\ (j - 1) + 1 = j /\ i =< j - 1
          BY <3>1, <3>3
        <4> QED
          BY <1>2, <3>3, <4>1, Zenon
      <3>4. id # x \/ ~Terminal(r)
        <4> SUFFICES ASSUME id = x, Terminal(r)
                     PROVE  FALSE
          BY Zenon
        <4>1. EndAt(1, id)
          BY <1>3, Zenon
        <4>2. id \notin DOMAIN book /\ \A j \in Nat : EndAt(j, id) => j = 1
          BY <1>1, <4>1, ZenonT(30) DEF OnePlace
        <4> QED
          BY <3>1, <3>2, <4>2
      <3> QED
        BY <1>1, <1>6, <1>7, <3>1, <3>2, <3>3, <3>4, Zenon
    <2>2. \A i \in 1 .. Len(inbox') : inbox'[i].msg_type # "Filled" => inbox'[i].exec_qty = 0
      BY <1>2, ZenonT(30) DEF FillsInv
    <2> QED
      BY <1>1, <2>1, <2>2, Zenon DEF FillsInv
  <1>9. \A id \in Nat : id # x => Left(id)' = Left(id)
    <2> TAKE id \in Nat
    <2> HAVE id # x
    <2>1. ~FillAt(1, id) /\ Resting(id)' = Resting(id)
      BY <1>3, <1>6
    <2>2. FilledAfter(id, 0) = FilledAfter(id, 0)' + 0 /\ FilledAfter(id, 0)' \in Int
      BY <1>7, <2>1
    <2>3. FilledAfter(id, 0) = FilledAfter(id, 0)'
      BY <2>2
    <2> QED
      BY <2>1, <2>3 DEF Left
  <1>10. Resting(x) \in Nat /\ r.exec_qty \in Nat /\ r.leaves_qty \in Nat
    BY <1>1, RestingIs, Zenon DEF RestsAt, Responses
  <1>11. ASSUME r.msg_type = "Filled"
         PROVE  Left(x) = r.exec_qty + r.leaves_qty
    <2>1. FillAt(1, x)
      BY <1>1, <1>3, <1>11, Zenon
    <2>2. r.leaves_qty = Resting(x) + FilledAfter(x, 1)
      BY <1>1, <2>1 DEF FillsInv
    <2>3. FilledAfter(x, 0)' = FilledAfter(x, 0 + 1) /\ 0 + 1 = 1
      BY <1>1, <1>7
    <2>4. FilledAfter(x, 0) = FilledAfter(x, 0)' + r.exec_qty /\ FilledAfter(x, 0)' \in Int
      BY <1>1, <1>7, <2>1
    <2>5. FilledAfter(x, 0)' = FilledAfter(x, 1)
      BY <2>3
    <2> QED
      BY <1>10, <2>2, <2>4, <2>5 DEF Left
  <1>12. ASSUME ~Terminal(r)
         PROVE  Left(x) = Left(x)' + r.exec_qty
    <2>1. Resting(x)' = Resting(x)
      BY <1>1, <1>6, <1>12
    <2>2. FilledAfter(x, 0) = FilledAfter(x, 0)' + r.exec_qty /\ FilledAfter(x, 0)' \in Int
      <3>1. r.msg_type # "Filled" => r.exec_qty = 0
        BY <1>2 DEF FillsInv
      <3>2. /\ FilledAfter(x, 0) = FilledAfter(x, 0)' + (IF FillAt(1, x) THEN r.exec_qty ELSE 0)
            /\ FilledAfter(x, 0)' \in Int
        BY <1>1, <1>7
      <3>3. FillAt(1, x) <=> r.msg_type = "Filled"
        BY <1>1, <1>3
      <3> QED
        BY <3>1, <3>2, <3>3
    <2> QED
      BY <1>10, <2>1, <2>2 DEF Left
  <1> QED
    BY <1>8, <1>9, <1>11, <1>12

\* An answer of the exchange moves quantity from what rests to what is in
\* flight.
LEMMA AnswerFills ==
    ASSUME SumFacts, SessionInv, SessionInv', FillsInv, NEW r \in Responses, NEW x \in Nat,
           Answer(r, x), Balances(r, x)
    PROVE  FillsInv' /\ \A id \in Nat : Left(id)' = Left(id)
  <1>1. /\ SessionOK /\ OnePlace /\ Respond(r) /\ x = r.client_order_id
        /\ (Served /\ x = requests[1].order_id) \/ requests' = requests
        /\ \A i \in Nat : ~NewAt(i, x)'
        /\ \A id : id # x => (id \in DOMAIN book' <=> id \in DOMAIN book)
                             /\ (id \in DOMAIN book => book'[id] = book[id])
        /\ x \in DOMAIN book \/ NewAt(1, x) <=> Terminal(r) \/ x \in DOMAIN book'
    BY ZenonT(30) DEF Answer, SessionInv
  <1>2. /\ x \in DOMAIN book => book[x].qty = r.exec_qty + r.leaves_qty
        /\ NewAt(1, x) => requests[1].order.qty = r.exec_qty + r.leaves_qty
        /\ x \in DOMAIN book' => book'[x].qty = r.leaves_qty
        /\ IF r.msg_type = "Filled" THEN x \in DOMAIN book ELSE r.exec_qty = 0
        /\ traded' \in [Tickers -> Int]
    <2>1. traded \in [Tickers -> Int] /\ r.side * r.exec_qty \in Int
      <3>1. r.exec_qty \in Int /\ (r.side = 1 \/ r.side = -1)
        BY DEF Responses, Sides, BUY, SELL
      <3> QED
        BY <3>1 DEF FillsInv
    <2>2. traded' \in [Tickers -> Int]
      <3>1. PICK q : q = r.side * r.exec_qty
        BY Zenon
      <3>2. traded' = IF r.msg_type = "Filled" THEN [traded EXCEPT ![r.ticker_id] = @ + q] ELSE traded
        BY <3>1 DEF Balances
      <3>3. r.ticker_id \in Tickers /\ q \in Int
        BY <2>1, <3>1, Zenon DEF Responses
      <3> QED
        BY <2>1, <3>2, <3>3
    <2> QED
      BY <2>2, Zenon DEF Balances
  <1>3. /\ Len(inbox') = Len(inbox) + 1 /\ Len(inbox) \in Nat
        /\ \A i \in 1 .. Len(inbox') : inbox'[i] = IF i = Len(inbox) + 1 THEN r ELSE inbox[i]
        /\ \A i, id \in Nat : EndAt(i, id)' <=>
              EndAt(i, id) \/ (i = Len(inbox) + 1 /\ x = id /\ Terminal(r))
        /\ \A i, id \in Nat : EndAt(i, id) => i =< Len(inbox)
    BY <1>1, RespondFacts, Zenon
  <1>4. PICK n : n = Len(inbox) + 1
    BY Zenon
  <1>5. /\ n \in Nat /\ inbox'[n] = r /\ r.exec_qty \in Nat /\ r.leaves_qty \in Nat
        /\ Terminal(r) => EndAt(n, x)'
        /\ \A i \in 1 .. Len(inbox) : inbox'[i] = inbox[i] /\ i \in 1 .. Len(inbox')
        /\ \A i, id \in Nat : EndAt(i, id) => EndAt(i, id)' /\ inbox'[i] = inbox[i]
    <2>1. \A i \in 1 .. Len(inbox) : inbox'[i] = inbox[i] /\ i \in 1 .. Len(inbox')
      BY <1>3, Longer, Zenon
    <2>2. \A i, id \in Nat : EndAt(i, id) => EndAt(i, id)' /\ inbox'[i] = inbox[i]
      BY <1>3, <2>1 DEF EndAt
    <2>3. n \in Nat /\ inbox'[n] = r
      BY <1>3, <1>4, Longer, Zenon
    <2>4. r.exec_qty \in Nat /\ r.leaves_qty \in Nat
      BY DEF Responses
    <2> QED
      BY <1>3, <1>4, <2>1, <2>2, <2>3, <2>4, ZenonT(30)
  <1>6. \A id \in Nat : Live(id)' <=> Live(id)
    BY AnswerLive, Zenon
  <1>7. \A i, id \in Nat : NewAt(i, id) /\ ~(id = x /\ i = 1) =>
           \E j \in Nat : NewAt(j, id)' /\ requests'[j] = requests[i]
    <2> SUFFICES ASSUME NEW i \in Nat, NEW id \in Nat, NewAt(i, id), ~(id = x /\ i = 1)
                 PROVE  \E j \in Nat : NewAt(j, id)' /\ requests'[j] = requests[i]
      BY Zenon
    <2>1. CASE requests' = requests
      BY <2>1, Zenon DEF NewAt
    <2>2. CASE Served /\ x = requests[1].order_id
      <3>1. /\ \A j \in 1 .. Len(requests') : requests'[j] = requests[j + 1] /\ j + 1 \in 1 .. Len(requests)
            /\ \A j, k \in Nat : NewAt(j, k)' <=> j > 0 /\ NewAt(j + 1, k)
        BY <1>1, <2>2, ServedFacts, Zenon
      <3>2. i # 1 /\ i > 0
        BY <2>2 DEF NewAt
      <3>3. i - 1 \in Nat /\ i - 1 > 0 /\ (i - 1) + 1 = i
        BY <3>2
      <3>4. NewAt(i - 1, id)'
        BY <3>1, <3>3, Zenon
      <3>5. i - 1 \in 1 .. Len(requests')
        BY <3>4, Zenon DEF NewAt
      <3>6. requests'[i - 1] = requests[i]
        BY <3>1, <3>3, <3>5
      <3> QED
        BY <3>3, <3>4, <3>6
    <2> QED
      BY <1>1, <2>1, <2>2, Zenon
  <1>8. ASSUME NEW id \in Nat, id # x
        PROVE  Resting(id)' = Resting(id)
    <2>1. Stays(id)
      BY <1>1, <1>5, <1>6, <1>7, <1>8 DEF Stays
    <2> QED
      BY <2>1, RestingSame, Zenon
  <1>9. RestsAt /\ RestsAt'
    <2>1. RestsAt'
      BY RestingIs, PTL
    <2> QED
      BY <2>1, RestingIs
  <1>10. Terminal(r) \/ x \in DOMAIN book' => Resting(x)' = r.leaves_qty
    BY <1>2, <1>5, <1>9, ZenonT(30) DEF RestsAt
  <1>11. Resting(x) = Resting(x)' + r.exec_qty /\ Resting(x)' \in Nat
    <2>1. Resting(x)' \in Nat /\ Resting(x) \in Nat
      BY <1>9 DEF RestsAt
    <2>2. CASE x \in DOMAIN book
      <3>1. Resting(x) = book[x].qty /\ Resting(x)' = r.leaves_qty
        BY <1>1, <1>9, <1>10, <2>2, Zenon DEF RestsAt
      <3>2. book[x].qty = r.exec_qty + r.leaves_qty
        BY <1>2, <2>2, Zenon
      <3>3. r.exec_qty + r.leaves_qty = r.leaves_qty + r.exec_qty
        BY <1>5, Swapped, Zenon
      <3> QED
        BY <2>1, <3>1, <3>2, <3>3, Zenon
    <2>3. CASE NewAt(1, x)
      <3>1. \A i \in Nat : NewAt(i, x) => Resting(x) = requests[i].order.qty
        BY <1>9 DEF RestsAt
      <3>2. Resting(x) = requests[1].order.qty /\ Resting(x)' = r.leaves_qty
        BY <1>1, <1>10, <2>3, <3>1, Zenon
      <3>3. requests[1].order.qty = r.exec_qty + r.leaves_qty
        BY <1>2, <2>3, Zenon
      <3>4. r.exec_qty + r.leaves_qty = r.leaves_qty + r.exec_qty
        BY <1>5, Swapped, Zenon
      <3> QED
        BY <2>1, <3>2, <3>3, <3>4, Zenon
    <2>4. CASE x \notin DOMAIN book /\ ~NewAt(1, x)
      <3>1. x \notin DOMAIN book' /\ r.exec_qty = 0
        BY <1>1, <1>2, <2>4
      <3>2. \A i \in Nat : ~NewAt(i, x)
        BY <1>1, <1>7, <2>4, ZenonT(30)
      <3>3. Stays(x)
        BY <1>5, <1>6, <2>4, <3>1, <3>2, Zenon DEF Stays
      <3>4. Resting(x)' = Resting(x)
        BY <3>3, RestingSame, Zenon
      <3> QED
        BY <2>1, <3>1, <3>4
    <2> QED
      BY <2>2, <2>3, <2>4
  <1>12. \A id, k \in Nat : k =< Len(inbox) =>
           /\ FilledAfter(id, k)' = FilledAfter(id, k)
                 + (IF x = id /\ r.msg_type = "Filled" THEN r.exec_qty ELSE 0)
           /\ FilledAfter(id, k) \in Int
    BY <1>1, FillsSent
  <1>13. \A id, k \in Nat : k =< Len(inbox) =>
            Resting(id)' + FilledAfter(id, k)' = Resting(id) + FilledAfter(id, k)
    <2> TAKE id, k \in Nat
    <2> HAVE k =< Len(inbox)
    <2>1. CASE id # x
      <3>1. FilledAfter(id, k)' = FilledAfter(id, k)
        BY <1>12, <2>1
      <3> QED
        BY <1>8, <2>1, <3>1
    <2>2. CASE id = x
      <3>1. FilledAfter(x, k)' = FilledAfter(x, k) + r.exec_qty /\ FilledAfter(x, k) \in Int
        BY <1>2, <1>12, <2>2
      <3> QED
        BY <1>5, <1>11, <2>2, <3>1
    <2> QED
      BY <2>1, <2>2
  <1>14. \A id \in Nat : Left(id)' = Left(id)
    BY <1>3, <1>13 DEF Left
  <1>15. \A i, id \in Nat : FillAt(i, id)' <=>
            FillAt(i, id) \/ (i = n /\ id = x /\ r.msg_type = "Filled")
    <2>1. \A i \in Nat : /\ i \in 1 .. Len(inbox') <=> i \in 1 .. Len(inbox) \/ i = n
                         /\ i \in 1 .. Len(inbox) => i # n
      BY <1>3, <1>4
    <2> QED
      BY <1>1, <1>5, <2>1, Zenon DEF FillAt
  <1>16. ASSUME NEW i \in Nat, NEW id \in Nat, FillAt(i, id)'
         PROVE  /\ id \in DOMAIN book' \/ \E j \in Nat : i =< j /\ EndAt(j, id)'
                /\ inbox'[i].leaves_qty = Resting(id)' + FilledAfter(id, i)'
    <2>1. CASE FillAt(i, id)
      <3>1. i \in 1 .. Len(inbox) /\ i =< Len(inbox) /\ i =< n
        BY <1>3, <1>4, <2>1 DEF FillAt
      <3>2. /\ id \in DOMAIN book \/ \E j \in Nat : i =< j /\ EndAt(j, id)
            /\ inbox[i].leaves_qty = Resting(id) + FilledAfter(id, i)
        BY <2>1, Zenon DEF FillsInv
      <3>3. id \in DOMAIN book' \/ \E j \in Nat : i =< j /\ EndAt(j, id)'
        BY <1>1, <1>5, <3>1, <3>2, ZenonT(30)
      <3> QED
        BY <1>5, <1>13, <3>1, <3>2, <3>3, Zenon
    <2>2. CASE i = n /\ id = x /\ r.msg_type = "Filled"
      <3>1. Terminal(r) \/ x \in DOMAIN book'
        BY <1>1, <1>2, <2>2, Zenon
      <3>2. FilledAfter(x, n)' = 0
        <4>1. \A j \in DOMAIN inbox' : ~(j > n /\ FillAt(j, x)')
          BY <1>3, <1>4 DEF FillAt
        <4>2. NoneBehind'
          BY NoFillsBehind, PTL
        <4> QED
          BY <1>5, <4>1, <4>2, Zenon DEF NoneBehind
      <3>3. inbox'[i].leaves_qty = Resting(id)' + FilledAfter(id, i)'
        BY <1>5, <1>10, <1>11, <2>2, <3>1, <3>2, NothingAdded, Zenon
      <3>4. i =< n
        BY <1>5, <2>2, NothingAdded, Zenon
      <3> QED
        BY <1>5, <2>2, <3>1, <3>3, <3>4, Zenon
    <2> QED
      BY <1>15, <1>16, <2>1, <2>2, Zenon
  <1>17. \A i \in 1 .. Len(inbox') : inbox'[i].msg_type # "Filled" => inbox'[i].exec_qty = 0
    <2>1. r.msg_type # "Filled" => r.exec_qty = 0
      BY <1>2, Zenon DEF Balances
    <2>2. \A i \in 1 .. Len(inbox) : inbox[i].msg_type # "Filled" => inbox[i].exec_qty = 0
      BY <1>2, Zenon DEF FillsInv
    <2> QED
      BY <1>3, <2>1, <2>2, Longer, Zenon
  <1>18. FillsInv'
    BY <1>2, <1>16, <1>17, ZenonT(30) DEF FillsInv
  <1> QED
    BY <1>14, <1>18, Zenon

\* A new order is all left, and moves nothing else.
LEMMA SubmitFills ==
    ASSUME SumFacts, SessionInv, FillsInv, NEW o \in Tracked, send_new_orders(<<o>>), NEW n, n = next_order_id
    PROVE  /\ FillsInv' /\ Left(n)' = o.qty
           /\ \A id \in Nat : id # n => Left(id)' = Left(id)
  <1> PICK m : m = [msg_type |-> "New", order_id |-> n, order |-> o]
    BY ZenonT(30)
  <1>1. /\ SessionOK /\ SessionInv' /\ n \in Nat \ {0} /\ m.msg_type = "New" /\ m.order_id = n
        /\ m.order = o /\ requests' = Append(requests, m) /\ requests \in Seq(Requests)
        /\ m \in Requests /\ book' = book /\ inbox' = inbox /\ traded' = traded
    BY SubmitKeeps, Zenon DEF SessionInv, SessionOK, Requests, send_new_orders
  <1>2. /\ Len(requests') = Len(requests) + 1 /\ Len(requests) \in Nat
        /\ \A i \in 1 .. Len(requests) : requests'[i] = requests[i]
        /\ requests'[Len(requests) + 1] = m
    <2>1. requests \in Seq(Requests) /\ m \in Requests /\ requests' = Append(requests, m)
      BY <1>1, Zenon
    <2> QED
      BY <2>1, AppendFacts
  <1>3. \A i \in 1 .. Len(requests) : i \in 1 .. Len(requests')
    BY <1>2, Longer, Zenon
  <1>4. \A i, id \in Nat : NewAt(i, id) => NewAt(i, id)' /\ requests'[i] = requests[i]
    BY <1>2, <1>3, Zenon DEF NewAt
  <1>5. \A id \in Nat : id # n => (Live(id)' <=> Live(id))
    BY SubmitLive
  <1>6. \A i, id \in Nat : EndAt(i, id)' <=> EndAt(i, id)
    BY <1>1, Zenon DEF EndAt
  <1>7. \A id \in Nat : id # n => Stays(id)
    BY <1>1, <1>4, <1>5, <1>6, ZenonT(30) DEF Stays
  <1>8. \A i \in Nat : ~FillAt(i, n)
    <2>1. n \notin 1 .. n - 1
      BY <1>1
    <2> QED
      BY <1>1, <2>1, Zenon DEF SessionOK, FillAt
  <1>9. /\ FillsInv' /\ Left(n)' = Resting(n)'
        /\ \A id \in Nat : id # n => Left(id)' = Left(id)
    BY <1>1, <1>7, <1>8, FillsKept
  <1>10. Resting(n)' = o.qty
    <2>1. RestsAt'
      BY <1>1, RestingIs, PTL
    <2>2. PICK k : k = Len(requests) + 1
      BY Zenon
    <2>3. k \in Nat /\ k \in 1 .. Len(requests') /\ requests'[k] = m
      BY <1>2, <2>2, Longer, Zenon
    <2>4. NewAt(k, n)'
      BY <1>1, <2>3, Zenon DEF NewAt
    <2>5. n \in Nat
      BY <1>1, Zenon
    <2>6. \A i \in Nat : NewAt(i, n)' => Resting(n)' = requests'[i].order.qty
      BY <2>1, <2>5, Zenon DEF RestsAt
    <2>7. Resting(n)' = requests'[k].order.qty
      BY <2>3, <2>4, <2>6, Zenon
    <2> QED
      BY <1>1, <2>3, <2>7, Zenon
  <1> QED
    BY <1>9, <1>10

\* Cancels move no quantity.
LEMMA CancelsFills ==
    ASSUME SumFacts, SessionInv, FillsInv, NEW ms \in Seq(Requests), send_cancels(ms),
           \A i \in 1 .. Len(ms) : ms[i].msg_type = "Cancel" /\ ms[i].order_id \in 1 .. next_order_id - 1
    PROVE  FillsInv' /\ \A id \in Nat : Left(id)' = Left(id)
  <1>1. /\ SessionOK /\ SessionInv' /\ requests \in Seq(Requests) /\ requests' = requests \o ms
        /\ book' = book /\ inbox' = inbox /\ traded' = traded
        /\ \A i, id \in Nat : NewAt(i, id)' <=> NewAt(i, id)
    BY CancelsKeep, ZenonT(30) DEF SessionInv, SessionOK, send_cancels
  <1>2. \A i \in 1 .. Len(requests) : requests'[i] = requests[i]
    BY <1>1, ConcatFacts
  <1>3. \A i, id \in Nat : NewAt(i, id) => NewAt(i, id)' /\ requests'[i] = requests[i]
    BY <1>1, <1>2, Zenon DEF NewAt
  <1>4. \A id \in Nat : Live(id)' <=> Live(id)
    BY CancelsLive, Zenon
  <1>5. \A i, id \in Nat : EndAt(i, id)' <=> EndAt(i, id)
    BY <1>1 DEF EndAt
  <1>6. \A id \in Nat : Stays(id)
    BY <1>1, <1>3, <1>4, <1>5, Zenon DEF Stays
  <1>7. 0 \in Nat /\ \A i \in Nat : ~FillAt(i, 0)
    BY <1>1 DEF SessionOK, FillAt
  <1>8. FillsInv' /\ \A id \in Nat : id # 0 => Left(id)' = Left(id)
    BY <1>1, <1>6, <1>7, FillsKept, Zenon
  <1>9. Left(0)' = Left(0)
    <2>1. \A k \in Nat : FilledAfter(0, k)' = FilledAfter(0, k)
      BY <1>1, Zenon DEF FilledAfter, FillAt
    <2>2. Resting(0)' = Resting(0)
      BY <1>1, <1>6, RestingSame, Zenon
    <2> QED
      BY <2>1, <2>2 DEF Left
  <1> QED
    BY <1>8, <1>9

\* A step that leaves the session alone.
LEMMA UnmovedFills ==
    ASSUME UNCHANGED session
    PROVE  /\ FillsInv' <=> FillsInv
           /\ \A id : Left(id)' = Left(id)
           /\ \A t, s : Executed(t, s)' = Executed(t, s)
  <1>1. /\ next_order_id' = next_order_id /\ requests' = requests /\ book' = book /\ inbox' = inbox
        /\ traded' = traded
    BY Zenon DEF session
  <1>2. \A id : Resting(id)' = Resting(id)
    BY <1>1, Zenon DEF Resting
  <1>3. \A id, k : FilledAfter(id, k)' = FilledAfter(id, k)
    BY <1>1 DEF FilledAfter, FillAt
  <1>4. \A t, s : Executed(t, s)' = Executed(t, s)
    BY <1>1, Zenon DEF Executed, InFlight
  <1>5. \A i, id : (FillAt(i, id)' <=> FillAt(i, id)) /\ (EndAt(i, id)' <=> EndAt(i, id))
    BY <1>1, Zenon DEF FillAt, EndAt
  <1>6. FillsInv' <=> FillsInv
    BY <1>1, <1>2, <1>3, <1>5, Zenon DEF FillsInv
  <1> QED
    BY <1>2, <1>3, <1>4, <1>6 DEF Left

\* With an empty inbox nothing is in flight.
LEMMA NothingInFlight ==
    ASSUME SumFacts, inbox = <<>>, traded \in [Tickers -> Int]
    PROVE  FillsInv /\ \A t, s : Executed(t, s) = 0
  <1>1. Len(inbox) = 0 /\ DOMAIN inbox = {}
    OBVIOUS
  <1>2. FillsInv
    BY <1>1 DEF FillsInv, FillAt
  <1>3. ASSUME NEW t, NEW s
        PROVE  Executed(t, s) = 0
    <2>1. {i \in DOMAIN inbox : inbox[i].ticker_id = t /\ inbox[i].side = s} = {}
      BY <1>1
    <2>2. Executed(t, s) = SumFunctionOnSet([i \in DOMAIN inbox |-> inbox[i].exec_qty], {})
      BY <2>1, Zenon DEF Executed, InFlight
    <2> QED
      BY <2>2 DEF SumFacts, SumOfNone
  <1> QED
    BY <1>2, <1>3
=============================================================================
