----------------------------- MODULE AccessLog -----------------------------
(***************************************************************************)
(* The access log of a process in either of its modes: with a writer       *)
(* thread and a queue for each worker (ACCESS_LOG_FORCE_ASYNC_WRITER), or  *)
(* with a ring for each worker that the worker itself writes to the file,  *)
(* as it is when the configuration says how many workers there are.  The   *)
(* modes share no state; the one that is not used stays as it was          *)
(* initialised.                                                            *)
(***************************************************************************)
EXTENDS Naturals

CONSTANTS
  \* with a writer thread
  QueueWorkers,   \* workers, each with a queue
  ShardCap,       \* ACCESS_LOG_SHARD_CAP
  BatchMax,       \* ACCESS_LOG_BATCH_MAX_LINES
  QueueMax,       \* bound: the lines that a worker offers
  \* without
  RingWorkers,    \* workers, each with a ring
  RingCap,        \* ACCESS_LOG_SW_RING_CAP
  FlushLines,     \* ACCESS_LOG_SW_FLUSH_LINES
  RingMax,        \* bound: the lines that a worker offers
  LogMayFail      \* formatting and writing may fail

VARIABLES
  entries, prod_head, cons_tail, wake, stop, log_workers, writer, log_main, offered,
  written, dropped,
  st, filling, phase, direct_offered, direct_written, direct_dropped

Queue == INSTANCE AccessLogQueue WITH
  NumWorkers <- QueueWorkers, Cap <- ShardCap, MaxLines <- QueueMax, MayFail <- LogMayFail,
  main <- log_main, workers <- log_workers
Direct == INSTANCE AccessLogDirect WITH
  NumWorkers <- RingWorkers, NumRings <- RingWorkers, Cap <- RingCap, MaxLines <- RingMax,
  MayFail <- LogMayFail,
  offered <- direct_offered, written <- direct_written, dropped <- direct_dropped

ASSUME LogAssumption == Queue!ConstantsOK /\ Direct!ConstantsOK

queue == <<entries, prod_head, cons_tail, wake, stop, log_workers, writer, log_main,
           offered, written, dropped>>
rings == <<st, filling, phase, direct_offered, direct_written, direct_dropped>>

LogInit == Queue!Init /\ Direct!Init
LogNext ==
  \/ Queue!Next /\ UNCHANGED rings
  \/ Direct!Next /\ UNCHANGED queue
LogSpec == LogInit /\ [][LogNext]_<<queue, rings>>

-----------------------------------------------------------------------------
\* With a writer the file has the lines of each worker once, in order, and when
\* the writer has ended every line was written or counted as dropped; without
\* one every finished line is in the file, waits in a ring or was counted.
NoLineLost == Queue!LinesInOrder /\ Queue!ShutdownWritesAll /\ Direct!NoLineLost
=============================================================================
