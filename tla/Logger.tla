-------------------------------- MODULE Logger --------------------------------
(***************************************************************************)
(* common/src/logging.rs: the thread that owns a Logger and the background *)
(* thread that writes its entries.  They share an LFQueue and three flags; *)
(* one action is one access to these.                                      *)
(*                                                                         *)
(* The queue is the FIFO that LFQueue is shown to implement, so entries    *)
(* are numbered and the queue is two counters: pushed entries were         *)
(* accepted, written of them were popped and written out.  A pop may       *)
(* return None although the queue is not empty if it loads an old tail;    *)
(* sees is the oldest tail the writer may still load.  StaleLoads says     *)
(* whether old values can be loaded: TRUE is the memory model of the       *)
(* language, FALSE a machine with loads in order and one memory (x86-64).  *)
(* The flags themselves are read in the order of the interleaving; running *)
(* is loaded with Relaxed, so reading it makes no push visible.            *)
(***************************************************************************)
EXTENDS Naturals

CONSTANTS Capacity,     \* of the queue: 4096 in the code
          StaleLoads,
          LogLevels,    \* Debug < Info < Warn < Error, as numbers
          MaxLogs       \* bound: accepted entries in a behaviour

ASSUME LoggerAssumption ==
    /\ Capacity \in Nat \ {0} /\ MaxLogs \in Nat
    /\ StaleLoads \in BOOLEAN /\ LogLevels \subseteq Nat

VARIABLES pushed, written,      \* the queue, and the output
          sees,                 \* pushes visible to the writer thread
          running, flush_requested, flush_complete,
          request_view,         \* pushes before the store of flush_requested
          min_level,
          opc, wpc              \* owner and writer thread

ring == <<pushed, written, sees>>
flags == <<running, flush_requested, flush_complete, request_view>>
logger_vars == <<ring, flags, min_level, opc, wpc>>

LoggerInit ==
    /\ pushed = 0 /\ written = 0 /\ sees = 0
    /\ running = TRUE /\ flush_requested = FALSE /\ flush_complete = FALSE
    /\ request_view = 0
    /\ min_level \in LogLevels
    /\ opc = "run" /\ wpc = "check"

-----------------------------------------------------------------------------
\* The owner's thread.

\* Mutant: no check for a full queue.
log_unbounded(level) ==
    /\ opc = "run"
    /\ level >= min_level
    /\ pushed < MaxLogs
    /\ pushed' = pushed + 1
    /\ UNCHANGED <<written, sees, flags, min_level, opc, wpc>>

\* log and its variants: the entry is pushed.
log(level) ==
    /\ opc = "run"
    /\ level >= min_level
    /\ pushed - written < Capacity
    /\ pushed < MaxLogs
    /\ pushed' = pushed + 1
    /\ UNCHANGED <<written, sees, flags, min_level, opc, wpc>>

\* The oldest head that push may load; what the owner loaded before is not kept,
\* so this allows more refusals than the code can make.
OldestHead == IF StaleLoads THEN 0 ELSE written

\* log of an entry below min_level, or with a queue that looks full: nothing is pushed.
log_dropped(level) ==
    /\ opc = "run"
    /\ level < min_level \/ pushed - OldestHead >= Capacity
    /\ UNCHANGED logger_vars

set_level(level) ==
    /\ opc = "run"
    /\ min_level' = level
    /\ UNCHANGED <<ring, flags, opc, wpc>>

\* flush: flush_complete.store(false)
flush_reset ==
    /\ opc = "run"
    /\ flush_complete' = FALSE
    /\ opc' = "request"
    /\ UNCHANGED <<ring, running, flush_requested, request_view, min_level, wpc>>

\* Mutant: the request is not stored.
flush_request_lost ==
    /\ opc = "request"
    /\ opc' = "wait"
    /\ UNCHANGED <<ring, flags, min_level, wpc>>

\* flush: flush_requested.store(true, Release)
flush_request ==
    /\ opc = "request"
    /\ flush_requested' = TRUE /\ request_view' = pushed
    /\ opc' = "wait"
    /\ UNCHANGED <<ring, running, flush_complete, min_level, wpc>>

\* flush: the loop ends when flush_complete is loaded as true.
flush_wait ==
    /\ opc = "wait"
    /\ flush_complete
    /\ opc' = "clear"
    /\ UNCHANGED <<ring, flags, min_level, wpc>>

\* flush: flush_requested.store(false), and return
flush_return ==
    /\ opc = "clear"
    /\ flush_requested' = FALSE
    /\ opc' = "run"
    /\ UNCHANGED <<ring, running, flush_complete, request_view, min_level, wpc>>

\* drop: running.store(false)
drop_stop ==
    /\ opc = "run"
    /\ running' = FALSE
    /\ opc' = "join"
    /\ UNCHANGED <<ring, flush_requested, flush_complete, request_view, min_level, wpc>>

\* drop: join returns when the writer thread has ended.
drop_join ==
    /\ opc = "join"
    /\ wpc = "exit"
    /\ opc' = "dropped"
    /\ UNCHANGED <<ring, flags, min_level, wpc>>

-----------------------------------------------------------------------------
\* The writer's thread: writer_loop.

\* Mutant: the loop goes on while a flush is marked complete.
check_running_or_flushed ==
    /\ wpc = "check"
    /\ wpc' = IF running \/ flush_complete THEN "drain" ELSE "final"
    /\ UNCHANGED <<ring, flags, min_level, opc>>

\* while running.load(Relaxed): into the loop, or on to the final drain.
check_running ==
    /\ wpc = "check"
    /\ wpc' = IF running THEN "drain" ELSE "final"
    /\ UNCHANGED <<ring, flags, min_level, opc>>

\* pop returns an entry, and write_entry writes it: in the loop and in the
\* final drain.  The load of tail returned n.
write_entry(n) ==
    /\ wpc \in {"drain", "final"}
    /\ written < n /\ sees =< n
    /\ written' = written + 1
    /\ sees' = n
    /\ UNCHANGED <<pushed, flags, min_level, opc, wpc>>

\* What a load of tail that finds the queue empty requires.
LoadsEmpty == IF StaleLoads THEN sees =< written ELSE pushed = written

\* pop returns None in the loop.
drained ==
    /\ wpc = "drain"
    /\ LoadsEmpty
    /\ wpc' = "flush?"
    /\ UNCHANGED <<ring, flags, min_level, opc>>

\* Mutant: the writer waits for the next flush request.
no_flush_wait ==
    /\ wpc = "flush?"
    /\ ~flush_requested
    /\ UNCHANGED logger_vars

\* flush_requested.load(Acquire) gives false: back off, next iteration.
no_flush ==
    /\ wpc = "flush?"
    /\ ~flush_requested
    /\ wpc' = "check"
    /\ UNCHANGED <<ring, flags, min_level, opc>>

\* flush_requested.load(Acquire) gives true, and stderr is flushed.
see_flush ==
    /\ wpc = "flush?"
    /\ flush_requested
    /\ sees' = IF sees > request_view THEN sees ELSE request_view
    /\ wpc' = "signal"
    /\ UNCHANGED <<pushed, written, flags, min_level, opc>>

\* flush_complete.store(true), back off, next iteration.
signal_flush ==
    /\ wpc = "signal"
    /\ flush_complete' = TRUE
    /\ wpc' = "check"
    /\ UNCHANGED <<ring, running, flush_requested, request_view, min_level, opc>>

\* pop returns None in the final drain: the thread ends.
finish ==
    /\ wpc = "final"
    /\ LoadsEmpty
    /\ wpc' = "exit"
    /\ UNCHANGED <<ring, flags, min_level, opc>>

-----------------------------------------------------------------------------
\* A store becomes visible to other threads in finite time, without any
\* synchronisation.
stores_visible ==
    /\ sees < pushed
    /\ sees' = pushed
    /\ UNCHANGED <<pushed, written, flags, min_level, opc, wpc>>

Calls == \/ \E level \in LogLevels : log(level)
         \/ \E level \in LogLevels : log_dropped(level)
         \/ \E level \in LogLevels : set_level(level)
         \/ flush_reset
         \/ drop_stop

\* The rest of a flush or drop once it was called.
InCall == flush_request \/ flush_wait \/ flush_return \/ drop_join

writer_loop == \/ check_running
               \/ \E n \in 1 .. pushed : write_entry(n)
               \/ drained \/ no_flush \/ see_flush \/ signal_flush \/ finish

LoggerNext == Calls \/ InCall \/ writer_loop \/ stores_visible

\* The writer is a thread of its own that never blocks, and the owner keeps
\* running inside a call; nothing makes it call again.
LoggerSpec == /\ LoggerInit /\ [][LoggerNext]_logger_vars
        /\ WF_logger_vars(writer_loop)
        /\ WF_logger_vars(InCall)
        /\ WF_logger_vars(stores_visible)

-----------------------------------------------------------------------------
\* Type invariant; the queue never holds more than its capacity.
LoggerTyped ==
    /\ pushed \in 0 .. MaxLogs /\ written \in 0 .. pushed /\ sees \in 0 .. pushed
    /\ pushed - written =< Capacity
    /\ running \in BOOLEAN /\ flush_requested \in BOOLEAN /\ flush_complete \in BOOLEAN
    /\ request_view \in 0 .. pushed
    /\ min_level \in LogLevels
    /\ opc \in {"run", "request", "wait", "clear", "join", "dropped"}
    /\ wpc \in {"check", "drain", "flush?", "signal", "final", "exit"}

\* Every accepted entry is eventually written, without flush or drop, unless the
\* logger is dropped first.
EntriesReachOutput ==
    \A k \in 1 .. MaxLogs : (pushed >= k) ~> (written >= k \/ ~running)

\* A flush() returns, also when the writer was about to go idle, was serving
\* an older flush, or finds the queue full.
FlushReturns == (opc = "request") ~> (opc = "run")

\* drop() returns: the join never waits for a writer that waits for flush.
DropReturns == (opc = "join") ~> (opc = "dropped")

\* "This blocks until all queued entries have been written": when flush() has
\* seen flush_complete, what was logged before the call is written.
FlushWritesAll == opc = "clear" => written >= request_view

\* "Drain remaining entries before exiting": when drop() returns, every accepted
\* entry has been written.
DropWritesAll == opc = "dropped" => written = pushed
=============================================================================
