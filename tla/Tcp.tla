-------------------------------- MODULE Tcp ---------------------------------
(***************************************************************************)
(* common/src/net/tcp.rs: the TCP connections between the trading clients  *)
(* and the exchange, as the two ends use them.  A stream is a sequence of  *)
(* parts, a frame is two of them: a receive may end inside a frame, and a  *)
(* send into a buffer with room for one part writes half a frame.          *)
(***************************************************************************)
EXTENDS Integers, Sequences, TLC, Functions

CONSTANTS MaxConns,     \* bound: connections made in a behaviour
          SendBuffer    \* parts one direction of a connection holds

ASSUME TcpAssumption == MaxConns \in Nat /\ SendBuffer \in Nat

VARIABLES backlog,        \* connections the listener has not accepted, oldest first
          made,           \* number of connections made so far: they are 1 .. made
          up, down,       \* connection -> parts sent by the client, by the server
          client_closed,  \* connections closed by the client, by the server
          server_closed

tcp == <<backlog, made, up, down, client_closed, server_closed>>

Conns == 1 .. MaxConns

TcpInit ==
    /\ backlog = <<>> /\ made = 0
    /\ up = [k \in Conns |-> <<>>] /\ down = [k \in Conns |-> <<>>]
    /\ client_closed = {} /\ server_closed = {}

Parts(m) == <<[msg |-> m, part |-> 1], [msg |-> m, part |-> 2]>>

\* What TcpSocket::send of a frame leaves in the stream: as much as fits.
Sent(stream, m) ==
    LET room == SendBuffer - Len(stream)
    IN  stream \o SubSeq(Parts(m), 1, IF room < 2 THEN room ELSE 2)

SentWhole(stream) == SendBuffer - Len(stream) >= 2

\* TcpSocket::try_recv with n parts arrived: the parts, and the stream after.
Received(stream, n) == SubSeq(stream, 1, n)
Remaining(stream, n) == SubSeq(stream, n + 1, Len(stream))

\* from_bytes on the bytes of two parts: it accepts any bytes of the right
\* length, so that parts of two frames decode to a message nobody sent.
Decode(p, q) ==
    IF p.part = 1 /\ q.part = 2 /\ p.msg = q.msg THEN p.msg
    ELSE [msg_type |-> "Other", client_id |-> 0, ticker_id |-> 0, order_id |-> 0,
          side |-> 0, price |-> 0, qty |-> 0]
=============================================================================
