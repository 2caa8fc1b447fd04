------------------------------ MODULE LogStore ------------------------------
(***************************************************************************)
(* The way of a log message to the log file: the page cache that           *)
(* logger_task fills, the bounded queue of deferred writes, and the idle   *)
(* loop of main() that writes its entries to the file.  A message is the   *)
(* value that timer_counter has when it is written to the cache.           *)
(***************************************************************************)
EXTENDS Integers, Sequences, SequencesExt

CONSTANTS
    LogFrames,        \* LOG_FRAMES
    FlashQueueSize,   \* FLASH_QUEUE_SIZE
    FlushEvery,       \* messages between two flushes, 50 in logger_task
    MaxMessages,      \* bound: messages written in a behaviour
    MaxRestarts       \* bound: restarts of logger_task

ASSUME LogStoreAssumption ==
    /\ LogFrames \in Nat \ {0} /\ FlashQueueSize \in Nat \ {0}
    /\ FlushEvery \in Nat \ {0} /\ MaxMessages \in Nat /\ MaxRestarts \in Nat

VARIABLES
    frames,          \* the page cache: valid, dirty, last_use
    timer_counter,
    flush_counter,   \* local to logger_task
    flash_queue,     \* flash_work_queue
    writing,         \* the entry popped and not yet appended, or 0
    file,            \* the messages in the log file
    restarts,
    trouble          \* history: something failed that may lose messages

vars == <<frames, timer_counter, flush_counter, flash_queue, writing, file, restarts, trouble>>

Frames == 1 .. LogFrames
NoPage == [valid |-> FALSE, dirty |-> FALSE, last_use |-> 0]

LogTypeOK ==
    /\ frames \in [Frames -> [valid : BOOLEAN, dirty : BOOLEAN, last_use : 0 .. timer_counter]]
    /\ timer_counter \in 0 .. MaxMessages
    /\ flush_counter \in 0 .. FlushEvery
    /\ flash_queue \in Seq(1 .. timer_counter) /\ Len(flash_queue) <= FlashQueueSize
    /\ writing \in 0 .. timer_counter
    /\ file \in Seq(1 .. timer_counter)
    /\ restarts \in 0 .. MaxRestarts /\ trouble \in BOOLEAN

Init ==
    /\ frames = [f \in Frames |-> NoPage]
    /\ timer_counter = 0 /\ flush_counter = 0
    /\ flash_queue = <<>> /\ writing = 0 /\ file = <<>>
    /\ restarts = 0 /\ trouble = FALSE

\* Mutant: no check of the queue's room.
PushAll(entries) == flash_queue' = flash_queue \o entries /\ UNCHANGED trouble

\* flash_queue_push for several entries: what finds no room is dropped, and
\* neither caller looks at the result.
Push(entries) ==
    LET all == flash_queue \o entries
        overflow == Len(all) > FlashQueueSize
    IN  /\ flash_queue' = IF overflow THEN SubSeq(all, 1, FlashQueueSize) ELSE all
        /\ trouble' = (trouble \/ overflow)

\* Mutant: the victim is the page used last.
MostUsed(f) == \A g \in Frames : frames[f].last_use >= frames[g].last_use
LeastUsed(f) == \A g \in Frames : frames[f].last_use <= frames[g].last_use

FreeFrames == {f \in Frames : ~frames[f].valid}
Victims == {f \in Frames : LeastUsed(f)}
Lowest(S) == CHOOSE f \in S : \A g \in S : f <= g

UnusedFrame == Lowest(IF FreeFrames # {} THEN FreeFrames ELSE Victims)

EvictionKeeps == <<>>                                   \* mutant: no write-back
Evicted ==
    IF FreeFrames = {} /\ frames[UnusedFrame].dirty
    THEN <<frames[UnusedFrame].last_use>> ELSE <<>>

\* logger_task takes a message from log_queue: sys_log_write.
LogWrite ==
    /\ flush_counter < FlushEvery /\ timer_counter < MaxMessages
    /\ timer_counter' = timer_counter + 1
    /\ Push(Evicted)
    /\ frames' = [frames EXCEPT ![UnusedFrame] =
                     [valid |-> TRUE, dirty |-> TRUE, last_use |-> timer_counter']]
    /\ flush_counter' = flush_counter + 1
    /\ UNCHANGED <<writing, file, restarts>>

DirtyFrames == {f \in Frames : frames[f].valid /\ frames[f].dirty}
\* The one way to go through the dirty frames in ascending order.
FlushOrders ==
    {order \in [1 .. Cardinality(DirtyFrames) -> DirtyFrames] :
        \A i, j \in DOMAIN order : i < j => order[i] < order[j]}
CleanedNothing == frames                                \* mutant: dirty is kept
Cleaned == [f \in Frames |-> [frames[f] EXCEPT !.dirty = FALSE]]

\* sys_log_flush: in the order of the frames, not of the messages.
LogFlush ==
    /\ flush_counter >= FlushEvery
    /\ \E order \in FlushOrders : Push([i \in DOMAIN order |-> frames[order[i]].last_use])
    /\ frames' = Cleaned
    /\ flush_counter' = 0
    /\ UNCHANGED <<timer_counter, writing, file, restarts>>

\* The watchdog has restarted logger_task, whose first call is
\* sys_logger_init: fs_init and fs_create keep the file, log_memory_init
\* empties the cache.
LoggerRestart ==
    /\ restarts < MaxRestarts
    /\ restarts' = restarts + 1
    /\ trouble' = (trouble \/ DirtyFrames # {})
    /\ frames' = [f \in Frames |-> NoPage]
    /\ flush_counter' = 0
    /\ UNCHANGED <<timer_counter, flash_queue, writing, file>>

\* The idle loop pops an entry and appends it to the file.  It may be preempted
\* within the pop, but does not come back to it then (IdleLoopDrains in Core0).
DrainPop ==
    /\ writing = 0 /\ flash_queue # <<>>
    /\ writing' = Head(flash_queue)
    /\ flash_queue' = Tail(flash_queue)
    /\ UNCHANGED <<frames, timer_counter, flush_counter, file, restarts, trouble>>

DrainWrite ==
    /\ writing # 0
    /\ \/ file' = Append(file, writing) /\ UNCHANGED trouble
       \/ trouble' = TRUE /\ UNCHANGED file             \* fs_write_append failed
    /\ writing' = 0
    /\ UNCHANGED <<frames, timer_counter, flush_counter, flash_queue, restarts>>

Next == LogWrite \/ LogFlush \/ LoggerRestart \/ DrainPop \/ DrainWrite

Spec == Init /\ [][Next]_vars

-----------------------------------------------------------------------------
(* Properties *)

\* Everything that has left the cache, in its order.
Stream == file \o (IF writing = 0 THEN <<>> ELSE <<writing>>) \o flash_queue
Dirty == {frames[f].last_use : f \in {g \in Frames : frames[g].dirty}}

(***************************************************************************)
(* No message is persisted twice, however evictions and flushes alternate. *)
(***************************************************************************)
AtMostOnce == IsInjective(Stream) /\ Dirty \cap ToSet(Stream) = {}

(***************************************************************************)
(* "debe persistirse a Flash antes de ser reemplazada" (REPORTE.md:54): a  *)
(* message is in the cache, on its way or in the file, unless a push found *)
(* the queue full, an append failed or a restart emptied the cache.        *)
(***************************************************************************)
NothingLost == ~trouble => ToSet(Stream) \cup Dirty = 1 .. timer_counter

(***************************************************************************)
(* The log file is not in the order of the messages, since a flush goes by *)
(* frames, but LRU eviction keeps every message within LOG_FRAMES places   *)
(* of its turn, also across restarts.                                      *)
(***************************************************************************)
NearlyOrdered ==
    \A p \in 1 .. Len(Stream) :
        /\ \A q \in p .. Len(Stream) : Stream[p] - Stream[q] < LogFrames
        /\ \A m \in Dirty : Stream[p] - m < LogFrames
=============================================================================
