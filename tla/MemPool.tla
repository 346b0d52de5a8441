------------------------------- MODULE MemPool -------------------------------
(***************************************************************************)
(* common/src/mem_pool.rs: a fixed pool of N slots with a LIFO free list.  *)
(*                                                                         *)
(* The free list is an array of slot indices used as a stack: the entries  *)
(* below free_count are the free slots, the entries above it are leftovers *)
(* of earlier allocations that are never read.  The module defines the     *)
(* pool operations as functions of a pool record, because the code never   *)
(* runs a pool on its own: the order book owns one and calls it.           *)
(***************************************************************************)
EXTENDS Integers

CONSTANT N      \* MemPool<T, N>: the number of slots

ASSUME PoolCapacity == N \in Nat \ {0}      \* assert!(N > 0)

Slots == 0 .. N-1

Pools == [free_list : [Slots -> Slots], free_count : 0 .. N]

\* new() and new_boxed(): every slot free, the stack holds 0, 1, ..., N-1.
NewPool == [free_list |-> [i \in Slots |-> i], free_count |-> N]

\* allocate() returns None when this is FALSE.
CanAllocate(pool) == pool.free_count > 0

\* The index of the PoolPtr that allocate() returns: the top of the stack.
AllocatedIndex(pool) == pool.free_list[pool.free_count - 1]

Allocate(pool) == [free_list  |-> pool.free_list,
                   free_count |-> pool.free_count - 1]

\* Mutant: the index is not written to the stack.
DeallocateNoPush(pool, index) ==
    [free_list |-> pool.free_list, free_count |-> pool.free_count + 1]

\* deallocate() and deallocate_by_index(): push the index back.  The array
\* write is in bounds, and the debug assertion holds, iff HasRoom(pool).
Deallocate(pool, index) ==
    [free_list  |-> [pool.free_list EXCEPT ![pool.free_count] = index],
     free_count |-> pool.free_count + 1]

HasRoom(pool) == pool.free_count < N

\* get_by_index(): Some for an index inside the storage array, free or not.
InBounds(index) == index \in Slots

Stack(pool) == 0 .. pool.free_count - 1

FreeSlots(pool) == {pool.free_list[i] : i \in Stack(pool)}

\* No slot is on the free stack twice.
DistinctFree(pool) ==
    \A i, j \in Stack(pool) : pool.free_list[i] = pool.free_list[j] => i = j
=============================================================================
