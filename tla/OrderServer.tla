----------------------------- MODULE OrderServer -----------------------------
(***************************************************************************)
(* exchange/src/order_server.rs: accepts trading clients, reassembles      *)
(* their requests, and numbers them with the FIFO sequencer.               *)
(***************************************************************************)
EXTENDS Tcp, SequencesExt

VARIABLES clients,         \* client id -> [conn, recv_buffer]
          next_client_id,
          next_seq,        \* FifoSequencer
          requests         \* what poll returned and the main loop has not handled

server == <<clients, next_client_id, next_seq, requests>>

EOF == -1                  \* receive returns Err: closed by the client, or reset

ServerInit ==
    /\ clients = [id \in {} |-> 0]
    /\ next_client_id = 1 /\ next_seq = 1 /\ requests = <<>>

\* ClientConnection::receive: the complete frames of the buffer, and the rest.
Frames(buf) == [i \in 1 .. Len(buf) \div 2 |-> Decode(buf[2*i - 1], buf[2*i])]

\* Mutant: a parsed frame stays in the buffer.
RestKept(buf) == buf

\* Mutant: the buffer is cleared instead of drained.
RestCleared(buf) == <<>>

Rest(buf) == SubSeq(buf, 2 * (Len(buf) \div 2) + 1, Len(buf))

\* accept_connections: an id for every pending connection; the sockets of
\* failed refuse the non-blocking mode and are dropped.
Accepted(failed) ==
    [id \in {next_client_id + i - 1 : i \in DOMAIN backlog \ failed} |->
       [conn |-> backlog[id - next_client_id + 1], recv_buffer |-> <<>>]]

\* The outcomes of one try_recv on connection k.  A reset may discard what
\* the client had sent before it closed.
Outcomes(k) == 0 .. Len(up[k]) \cup (IF k \in client_closed THEN {EOF} ELSE {})

\* Mutant: the numbering starts over with every poll.
NumberedPerPoll(batch) ==
    [n \in DOMAIN batch |-> [sequence_number |-> n] @@ batch[n]]

\* The loop over self.clients assigns the numbers, the sort keeps their order.
Numbered(batch) ==
    SortSeq([n \in DOMAIN batch |-> [sequence_number |-> next_seq + n - 1] @@ batch[n]],
            LAMBDA r, s : r.sequence_number < s.sequence_number)

\* Mutant: a client whose end is closed is removed with its last requests.
KeptIfOpen(all, take) ==
    {id \in DOMAIN all : take[id] # EOF /\ all[id].conn \notin client_closed}

\* The clients that are not in disconnected_clients.
Kept(all, take) == {id \in DOMAIN all : take[id] # EOF}

\* OrderServer::poll.  The iteration order of the HashMap is arbitrary.
poll ==
    \E failed \in SUBSET DOMAIN backlog :
       LET all == clients @@ Accepted(failed)
           Conn(id) == all[id].conn
       IN  \E take \in [DOMAIN all -> EOF .. SendBuffer],
              order \in SetToSeqs(DOMAIN all) :
              LET live == {id \in DOMAIN all : take[id] # EOF}
                  buf == [id \in live |-> all[id].recv_buffer \o Received(up[Conn(id)], take[id])]
                  Of(id) == [i \in DOMAIN Frames(buf[id]) |->
                               [client_id |-> id, request |-> Frames(buf[id])[i]]]
                  batch == FlattenSeq([i \in DOMAIN order |->
                               IF order[i] \in live THEN Of(order[i]) ELSE <<>>])
                  gone == DOMAIN all \ Kept(all, take)
              IN  /\ \A id \in DOMAIN all : take[id] \in Outcomes(Conn(id))
                  /\ requests' = Numbered(batch)
                  /\ next_seq' = next_seq + Len(batch)
                  /\ clients' = [id \in Kept(all, take) |->
                                   [all[id] EXCEPT !.recv_buffer = Rest(buf[id])]]
                  /\ next_client_id' = next_client_id + Len(backlog)
                  /\ backlog' = <<>>
                  /\ up' = [k \in Conns |->
                              IF \E id \in live : Conn(id) = k
                              THEN Remaining(up[k], take[CHOOSE id \in live : Conn(id) = k])
                              ELSE up[k]]
                  /\ server_closed' = server_closed \cup {Conn(id) : id \in gone}
                                                    \cup {backlog[i] : i \in failed}
                  /\ UNCHANGED <<made, down, client_closed>>

\* Mutant: the client id of the message is taken for that of the connection.
send_response_by_message(id, r) ==
    /\ down' = IF r.client_id \in DOMAIN clients
               THEN [down EXCEPT ![clients[r.client_id].conn] = Sent(@, r)]
               ELSE down
    /\ UNCHANGED <<clients, next_client_id, backlog, made, up, client_closed, server_closed>>

\* send_response: an error, which the caller logs, unless the client is there.
send_response(id, r) ==
    /\ down' = IF id \in DOMAIN clients
               THEN [down EXCEPT ![clients[id].conn] = Sent(@, r)]
               ELSE down
    /\ UNCHANGED <<clients, next_client_id, backlog, made, up, client_closed, server_closed>>

\* disconnect_all, and the end of the process that owns the listener.
disconnect_all ==
    /\ clients' = [id \in {} |-> 0]
    /\ server_closed' = 1 .. made
    /\ backlog' = <<>>
    /\ UNCHANGED <<next_client_id, next_seq, requests, made, up, down, client_closed>>
=============================================================================
