------------------------------- MODULE LFQueue -------------------------------
(***************************************************************************)
(* common/src/lf_queue.rs: the lock-free single-producer single-consumer   *)
(* ring buffer.  One action is one access to shared memory, so that every  *)
(* interleaving of a push with a pop is explored.                          *)
(*                                                                         *)
(* Memory orderings.  An acquire load may return any value of the index    *)
(* that is not older than the one its thread last read: tail_log (head_log)*)
(* holds the values the consumer (producer) may still read, oldest first.  *)
(* A release store carries the number of buffer accesses its thread had    *)
(* made; an acquire load that reads it learns that number.  The clocks     *)
(* write_clk and read_clk stamp each slot with its last write and read, so *)
(* "this access is ordered after that one" is a comparison of numbers, and *)
(* an access that is not so ordered is a data race.  The clocks are not    *)
(* part of the program.                                                    *)
(*                                                                         *)
(* Indices are usize: modulo W (2^64 in the code).  N is a power of two, so*)
(* index & MASK is index % N, and N divides W.                             *)
(***************************************************************************)
EXTENDS Integers, Sequences

CONSTANTS N,            \* capacity
          W,            \* number of values of an index word
          Items, NoItem,
          MaxPushes     \* bound: buffer writes in a behaviour

ASSUME QueueCapacity ==
    /\ N \in Nat \ {0} /\ W \in Nat
    /\ N < W /\ \E k \in 1 .. W : W = k * N
ASSUME NoItemFresh == NoItem \notin Items
ASSUME PushBound == MaxPushes \in Nat

VARIABLES buffer,                 \* slot -> item
          tail_log, head_log,     \* stores the other thread may still read
          ppc, pitem,             \* producer: pc and the item being pushed
          cpc, citem,             \* consumer: pc and the item being popped
          popped,                 \* what the last successful pop returned
          writes, reads,          \* buffer accesses made so far
          p_sees, c_sees,         \* reads (writes) the producer (consumer) knows of
          write_clk, read_clk     \* slot -> writes (reads) at its last write (read)

producer == <<ppc, pitem, writes, p_sees, write_clk, buffer>>
consumer == <<cpc, citem, popped, reads, c_sees, read_clk>>
queue_vars == <<producer, consumer, tail_log, head_log>>

Slots == 0 .. N-1

\* Mutant: index arithmetic that does not wrap.
SubUnwrapped(a, b) == a - b

\* wrapping_sub, wrapping_add(1), & MASK
Sub(a, b) == (a - b) % W
Inc(a)    == (a + 1) % W
Slot(a)   == a % N

\* The values in memory: the newest stores.
tail == tail_log[Len(tail_log)].val
head == head_log[Len(head_log)].val

\* The log after its reader has read its i-th store.
ReadFrom(log, i) == SubSeq(log, i, Len(log))

later(a, b) == IF a > b THEN a ELSE b

-----------------------------------------------------------------------------
QueueInit ==
    /\ buffer = [s \in Slots |-> NoItem]
    /\ tail_log = <<[val |-> 0, clk |-> 0]>>
    /\ head_log = <<[val |-> 0, clk |-> 0]>>
    /\ ppc = "idle" /\ pitem = NoItem
    /\ cpc = "idle" /\ citem = NoItem /\ popped = NoItem
    /\ writes = 0 /\ reads = 0 /\ p_sees = 0 /\ c_sees = 0
    /\ write_clk = [s \in Slots |-> 0] /\ read_clk = [s \in Slots |-> 0]

\* Mutant: the check for a full queue is off by one.
push_load_late(item, i) ==
    /\ ppc = "idle"
    /\ writes < MaxPushes
    /\ Sub(tail, head_log[i].val) =< N
    /\ p_sees' = later(p_sees, head_log[i].clk)
    /\ head_log' = ReadFrom(head_log, i)
    /\ ppc' = "write" /\ pitem' = item
    /\ UNCHANGED <<writes, write_clk, buffer, consumer, tail_log>>

\* push: load tail, load head with Acquire, and find the queue not full.
push_load(item, i) ==
    /\ ppc = "idle"
    /\ writes < MaxPushes
    /\ Sub(tail, head_log[i].val) < N
    /\ p_sees' = later(p_sees, head_log[i].clk)
    /\ head_log' = ReadFrom(head_log, i)
    /\ ppc' = "write" /\ pitem' = item
    /\ UNCHANGED <<writes, write_clk, buffer, consumer, tail_log>>

\* push: load tail, load head, find the queue full and return Err(item).
push_full(i) ==
    /\ ppc = "idle"
    /\ Sub(tail, head_log[i].val) >= N
    /\ p_sees' = later(p_sees, head_log[i].clk)
    /\ head_log' = ReadFrom(head_log, i)
    /\ UNCHANGED <<ppc, pitem, writes, write_clk, buffer, consumer, tail_log>>

\* push: buffer[tail & MASK].write(item)
push_write ==
    /\ ppc = "write"
    /\ buffer' = [buffer EXCEPT ![Slot(tail)] = pitem]
    /\ writes' = writes + 1
    /\ write_clk' = [write_clk EXCEPT ![Slot(tail)] = writes + 1]
    /\ ppc' = "store"
    /\ UNCHANGED <<pitem, p_sees, consumer, tail_log, head_log>>

\* Mutant: tail.store(tail + 1, Relaxed)
push_store_relaxed ==
    /\ ppc = "store"
    /\ tail_log' = Append(tail_log, [val |-> Inc(tail), clk |-> 0])
    /\ ppc' = "idle"
    /\ UNCHANGED <<pitem, writes, p_sees, write_clk, buffer, consumer, head_log>>

\* push: tail.store(tail + 1, Release)
push_store ==
    /\ ppc = "store"
    /\ tail_log' = Append(tail_log, [val |-> Inc(tail), clk |-> writes])
    /\ ppc' = "idle"
    /\ UNCHANGED <<pitem, writes, p_sees, write_clk, buffer, consumer, head_log>>

-----------------------------------------------------------------------------
\* pop: load head, load tail with Acquire, and find the queue not empty.
pop_load(i) ==
    /\ cpc = "idle"
    /\ head # tail_log[i].val
    /\ c_sees' = later(c_sees, tail_log[i].clk)
    /\ tail_log' = ReadFrom(tail_log, i)
    /\ cpc' = "read"
    /\ UNCHANGED <<citem, popped, reads, read_clk, producer, head_log>>

\* pop: load head, load tail, find the queue empty and return None.
pop_empty(i) ==
    /\ cpc = "idle"
    /\ head = tail_log[i].val
    /\ c_sees' = later(c_sees, tail_log[i].clk)
    /\ tail_log' = ReadFrom(tail_log, i)
    /\ UNCHANGED <<cpc, citem, popped, reads, read_clk, producer, head_log>>

\* A read of slot s sees the slot's value if it is initialised and the write
\* is ordered before the read.
Readable(s) == write_clk[s] \in 1 .. c_sees

\* pop: buffer[head & MASK].assume_init_read()
pop_read ==
    /\ cpc = "read"
    /\ citem' \in IF Readable(Slot(head)) THEN {buffer[Slot(head)]}
                  ELSE Items \cup {NoItem}
    /\ reads' = reads + 1
    /\ read_clk' = [read_clk EXCEPT ![Slot(head)] = reads + 1]
    /\ cpc' = "store"
    /\ UNCHANGED <<popped, c_sees, producer, tail_log, head_log>>

\* pop: head.store(head + 1, Release), and return Some(item)
pop_store ==
    /\ cpc = "store"
    /\ head_log' = Append(head_log, [val |-> Inc(head), clk |-> reads])
    /\ popped' = citem
    /\ cpc' = "idle"
    /\ UNCHANGED <<citem, reads, c_sees, read_clk, producer, tail_log>>

\* drop() has exclusive access: both threads are done with the queue and
\* everything they did is visible to the dropping thread, which then pops
\* until the queue is empty.
drop ==
    /\ ppc = "idle" /\ cpc = "idle"
    /\ ppc' = "dropped"
    /\ c_sees' = writes
    /\ tail_log' = ReadFrom(tail_log, Len(tail_log))
    /\ UNCHANGED <<pitem, writes, p_sees, write_clk, buffer,
                   cpc, citem, popped, reads, read_clk, head_log>>

Push == \/ \E item \in Items, i \in DOMAIN head_log : push_load(item, i)
        \/ \E i \in DOMAIN head_log : push_full(i)
        \/ push_write
        \/ push_store

Pop == \/ \E i \in DOMAIN tail_log : pop_load(i)
       \/ \E i \in DOMAIN tail_log : pop_empty(i)
       \/ pop_read
       \/ pop_store

QueueNext == Push \/ Pop \/ drop

QueueSpec == QueueInit /\ [][QueueNext]_queue_vars

\* Mutant: drop() does not loop.
SpecNoLoop == QueueSpec

\* drop() is a loop: the dropping thread keeps popping.
FairQueueSpec == QueueSpec /\ WF_queue_vars(ppc = "dropped" /\ Pop)

-----------------------------------------------------------------------------
Stores == [val : 0 .. W-1, clk : Nat]
Log == Seq(Stores)

\* Type invariant; the logs are never empty.
QueueTyped ==
    /\ buffer \in [Slots -> Items \cup {NoItem}]
    /\ tail_log \in Log /\ Len(tail_log) > 0
    /\ head_log \in Log /\ Len(head_log) > 0
    /\ ppc \in {"idle", "write", "store", "dropped"}
    /\ cpc \in {"idle", "read", "store"}
    /\ pitem \in Items \cup {NoItem} /\ citem \in Items \cup {NoItem}
    /\ popped \in Items \cup {NoItem}
    /\ writes \in Nat /\ reads \in Nat /\ p_sees \in Nat /\ c_sees \in Nat
    /\ write_clk \in [Slots -> Nat] /\ read_clk \in [Slots -> Nat]

\* The SAFETY comments of push and pop: the producer writes a slot only after
\* the consumer's last read of it, and the consumer reads a slot only after
\* the producer's last write of it, ordered by the Release and Acquire pairs
\* and not by the interleaving; a slot that pop reads is initialised.
AccessesOrdered ==
    /\ ppc = "write" => read_clk[Slot(tail)] =< p_sees
    /\ cpc = "read"  => Readable(Slot(head))

\* The number of items in the queue.
QueueLen == Sub(tail, head)

\* len() from the producer, whose view of head may be old, never says less
\* than there is, so its is_empty() is right when it says TRUE; len() from the
\* consumer never says more; both stay within the capacity across the
\* wraparound of the indices.
LenOneSided ==
    /\ \A i \in DOMAIN head_log : Sub(tail, head_log[i].val) \in QueueLen .. N
    /\ \A i \in DOMAIN tail_log : Sub(tail_log[i].val, head) \in 0 .. QueueLen

\* The items between head and tail.
Contents == [i \in 1 .. QueueLen |-> buffer[Slot((head + i - 1) % W)]]

Abstract == INSTANCE FifoSpec WITH Capacity <- N, q <- Contents, last <- popped

\* The ring buffer is a FIFO: whatever the interleaving and however old the
\* indices a thread reads, pop returns each pushed item once, in order.
ImplementsFifo == Abstract!Spec

\* drop() leaves no item behind in the buffer.
DropDrains == (ppc = "dropped") ~> (QueueLen = 0)
=============================================================================
