----------------------------- MODULE MCOrderBook -----------------------------
(***************************************************************************)
(* Model-checking instances of OrderBook, and the FIFO lists that the      *)
(* comments of the source promise.                                         *)
(***************************************************************************)
EXTENDS OrderBook

\* "Orders within each price level in FIFO order (doubly-linked list)": the
\* head of a level is its oldest order, its tail the newest, and next_idx and
\* prev_idx lead from each order to the next younger and the next older one.
LevelListIsFifo ==
    \A k \in DOMAIN book.levels :
       LET ids      == IdsAt(book, k)
           o(id)    == OrderOf(book, id)
           Older(a, b) == o(a).priority < o(b).priority
           Adjacent(a, b) == /\ Older(a, b)
                             /\ \A c \in ids : ~(Older(a, c) /\ Older(c, b))
       IN  /\ \A id \in ids : /\ (\A c \in ids : ~Older(c, id)) <=>
                                    book.levels[k].head_idx = book.order_map[id]
                              /\ (\A c \in ids : ~Older(id, c)) <=>
                                    book.levels[k].tail_idx = book.order_map[id]
           /\ \A a, b \in ids : Adjacent(a, b) =>
                 /\ o(a).next_idx = book.order_map[b]
                 /\ o(b).prev_idx = book.order_map[a]
=============================================================================
