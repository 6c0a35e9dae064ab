--------------------------- MODULE AccessLogQueue ---------------------------
(***************************************************************************)
(* The access log with a writer thread (ACCESS_LOG_FORCE_ASYNC_WRITER):    *)
(* one ring for each worker, filled by that worker and emptied by the      *)
(* writer, and an eventfd that wakes the writer.                           *)
(*                                                                         *)
(* One step is one access to memory that the threads share.  A line is its *)
(* number among the lines that its worker offers; only the loss of a line  *)
(* can be seen of formatting and writing.  A batch is bounded by its lines *)
(* alone: ACCESS_LOG_BATCH_MAX_LINES lines of ACCESS_LOG_LINE_MAX bytes    *)
(* are just ACCESS_LOG_BATCH_MAX_BYTES bytes.                              *)
(***************************************************************************)
EXTENDS Naturals, Sequences, FiniteSets, Functions

CONSTANTS
  NumWorkers,
  Cap,        \* ACCESS_LOG_SHARD_CAP
  BatchMax,   \* ACCESS_LOG_BATCH_MAX_LINES
  MaxLines,   \* the lines that a worker offers
  MayFail     \* formatting, writing and the writer's buffers may fail

ConstantsOK ==
  /\ NumWorkers \in Nat \ {0} /\ Cap \in Nat \ {0, 1} /\ BatchMax \in Nat \ {0}
  /\ MaxLines \in Nat /\ MayFail \in BOOLEAN

Shards == 1 .. NumWorkers
Places == 0 .. Cap - 1
Lines == 0 .. MaxLines           \* 0: an entry that was never written

VARIABLES
  entries,    \* [Shards -> [Places -> Lines]]
  prod_head,
  cons_tail,
  wake,       \* the count of the eventfd is not zero
  stop,
  workers,    \* what each worker does, with what it has loaded
  writer,     \* what the writer does, with what it has loaded
  main,       \* what access_log_runtime_shutdown does
  offered,    \* how many lines each worker has offered
  written,    \* the lines of each worker in the file
  dropped     \* the lines of each worker that were counted as dropped

vars == <<entries, prod_head, cons_tail, wake, stop, workers, writer, main, offered, written, dropped>>
log == <<offered, written, dropped>>

NextPlace(p) == (p + 1) % Cap
Empty(s) == prod_head[s] = cons_tail[s]

Scanning == [at |-> "scan", i |-> 1, tail |-> 0, head |-> 0, batch_tail |-> 0,
             batch |-> <<>>, did_work |-> FALSE, stop |-> FALSE]

Init ==
  /\ entries = [s \in Shards |-> [p \in Places |-> 0]]
  /\ prod_head = [s \in Shards |-> 0]
  /\ cons_tail = [s \in Shards |-> 0]
  /\ wake = FALSE
  /\ stop = FALSE
  /\ workers = [s \in Shards |-> [at |-> "idle", head |-> 0, tail |-> 0]]
  /\ writer = [Scanning EXCEPT !.at = "start"]
  /\ main = "running"
  /\ offered = [s \in Shards |-> 0]
  /\ written = [s \in Shards |-> <<>>]
  /\ dropped = [s \in Shards |-> {}]

-----------------------------------------------------------------------------
(* A worker: access_log_enqueue *)

Full(head, tail) == NextPlace(head) = tail

LoadIndices(s) ==
  /\ workers[s].at = "idle" /\ offered[s] < MaxLines
  /\ offered' = [offered EXCEPT ![s] = @ + 1]
  /\ workers' = [workers EXCEPT ![s] =
       [at |-> IF Full(prod_head[s], cons_tail[s]) THEN "nudge" ELSE "store",
        head |-> prod_head[s], tail |-> cons_tail[s]]]
  /\ UNCHANGED <<entries, prod_head, cons_tail, wake, stop, writer, main, written, dropped>>

\* The ring is full: the writer is woken and the line is dropped.
NudgeNot(s) ==
  /\ workers[s].at = "nudge"
  /\ workers' = [workers EXCEPT ![s].at = "idle"]
  /\ dropped' = [dropped EXCEPT ![s] = @ \cup {offered[s]}]
  /\ UNCHANGED <<entries, prod_head, cons_tail, stop, writer, main, offered, written, wake>>
Nudge(s) ==
  /\ workers[s].at = "nudge"
  /\ wake' = TRUE
  /\ workers' = [workers EXCEPT ![s].at = "idle"]
  /\ dropped' = [dropped EXCEPT ![s] = @ \cup {offered[s]}]
  /\ UNCHANGED <<entries, prod_head, cons_tail, stop, writer, main, offered, written>>

StoreEntry(s) ==
  /\ workers[s].at = "store"
  /\ entries' = [entries EXCEPT ![s][workers[s].head] = offered[s]]
  /\ workers' = [workers EXCEPT ![s].at = "publish"]
  /\ UNCHANGED <<prod_head, cons_tail, wake, stop, writer, main, log>>

PublishEntry(s) ==
  /\ workers[s].at = "publish"
  /\ prod_head' = [prod_head EXCEPT ![s] = NextPlace(workers[s].head)]
  /\ workers' = [workers EXCEPT ![s].at =
       IF workers[s].head = workers[s].tail THEN "notify" ELSE "idle"]
  /\ UNCHANGED <<entries, cons_tail, wake, stop, writer, main, log>>

access_log_notify_writer(s) ==
  /\ workers[s].at = "notify"
  /\ wake' = TRUE
  /\ workers' = [workers EXCEPT ![s].at = "idle"]
  /\ UNCHANGED <<entries, prod_head, cons_tail, stop, writer, main, log>>

\* The worker thread ends; access_log_runtime_shutdown joins no worker but is
\* called when all have ended.
WorkerEnds(s) ==
  /\ workers[s].at = "idle"
  /\ workers' = [workers EXCEPT ![s].at = "ended"]
  /\ UNCHANGED <<entries, prod_head, cons_tail, wake, stop, writer, main, log>>

-----------------------------------------------------------------------------
(* The writer: access_log_writer_thread *)

WriterUnchanged == UNCHANGED <<entries, prod_head, stop, workers, main, offered>>

WriterStarts ==
  /\ writer.at = "start"
  /\ \/ writer' = Scanning
     \/ MayFail /\ writer' = [writer EXCEPT !.at = "failed"]
  /\ WriterUnchanged /\ UNCHANGED <<cons_tail, wake, written, dropped>>

\* A batch of shard i begins, or shard i has nothing more and is left.
Batching(w, tail, head) ==
  IF tail # head THEN [w EXCEPT !.at = "batch", !.tail = tail, !.head = head,
                                !.batch_tail = tail, !.batch = <<>>]
  ELSE [w EXCEPT !.at = "scan", !.i = @ + 1]

ScanShard ==
  /\ writer.at = "scan" /\ writer.i \in Shards
  /\ writer' = Batching(writer, cons_tail[writer.i], prod_head[writer.i])
  /\ WriterUnchanged /\ UNCHANGED <<cons_tail, wake, written, dropped>>

BatchOpen == writer.batch_tail # writer.head /\ Len(writer.batch) < BatchMax

TakeEntry ==
  /\ writer.at = "batch" /\ BatchOpen
  /\ LET line == entries[writer.i][writer.batch_tail] IN
     \/ /\ writer' = [writer EXCEPT !.batch = Append(@, line),
                                    !.batch_tail = NextPlace(@)]
        /\ UNCHANGED dropped
     \/ /\ MayFail
        /\ writer' = [writer EXCEPT !.batch_tail = NextPlace(@)]
        /\ dropped' = [dropped EXCEPT ![writer.i] = @ \cup {line}]
  /\ WriterUnchanged /\ UNCHANGED <<cons_tail, wake, written>>

ReleaseBatch ==
  /\ writer.at = "batch" /\ ~BatchOpen
  /\ cons_tail' = [cons_tail EXCEPT ![writer.i] = writer.batch_tail]
  /\ writer' = IF writer.batch = <<>>
               THEN Batching(writer, writer.batch_tail, prod_head[writer.i])
               ELSE [writer EXCEPT !.at = "write"]
  /\ WriterUnchanged /\ UNCHANGED <<wake, written, dropped>>

WriteBatchAgain ==
  /\ writer.at = "write"
  /\ \/ /\ written' = [written EXCEPT ![writer.i] = @ \o writer.batch]
        /\ UNCHANGED dropped
     \/ /\ MayFail
        /\ dropped' = [dropped EXCEPT ![writer.i] = @ \cup Range(writer.batch)]
        /\ UNCHANGED written
  /\ writer' = [Batching([writer EXCEPT !.did_work = TRUE], writer.batch_tail, prod_head[writer.i])
                EXCEPT !.batch = writer.batch]
  /\ WriterUnchanged /\ UNCHANGED <<cons_tail, wake>>
WriteBatch ==
  /\ writer.at = "write"
  /\ \/ /\ written' = [written EXCEPT ![writer.i] = @ \o writer.batch]
        /\ UNCHANGED dropped
     \/ /\ MayFail
        /\ dropped' = [dropped EXCEPT ![writer.i] = @ \cup Range(writer.batch)]
        /\ UNCHANGED written
  /\ writer' = Batching([writer EXCEPT !.did_work = TRUE], writer.batch_tail, prod_head[writer.i])
  /\ WriterUnchanged /\ UNCHANGED <<cons_tail, wake>>

\* All shards were scanned.
ScanEnds ==
  /\ writer.at = "scan" /\ writer.i \notin Shards
  /\ writer' = IF writer.did_work THEN Scanning
               ELSE [Scanning EXCEPT !.at = "check", !.stop = stop]
  /\ WriterUnchanged /\ UNCHANGED <<cons_tail, wake, written, dropped>>

\* access_log_q_all_empty, for the end of the thread or before it sleeps.
CheckShard ==
  /\ writer.at = "check" /\ writer.i \in Shards
  /\ writer' = IF Empty(writer.i) THEN [writer EXCEPT !.i = @ + 1] ELSE Scanning
  /\ WriterUnchanged /\ UNCHANGED <<cons_tail, wake, written, dropped>>
CheckEnds(w) == w.i \notin Shards
AllEmpty ==
  /\ writer.at = "check" /\ CheckEnds(writer)
  /\ writer' = [Scanning EXCEPT !.at = IF writer.stop THEN "done" ELSE "sleep"]
  /\ WriterUnchanged /\ UNCHANGED <<cons_tail, wake, written, dropped>>

ReadWake ==
  /\ writer.at = "sleep"
  /\ wake' = FALSE
  /\ writer' = IF wake THEN Scanning ELSE [writer EXCEPT !.at = "poll"]
  /\ WriterUnchanged /\ UNCHANGED <<cons_tail, written, dropped>>

PollWake ==
  /\ writer.at = "poll" /\ wake
  /\ writer' = Scanning
  /\ WriterUnchanged /\ UNCHANGED <<cons_tail, wake, written, dropped>>

-----------------------------------------------------------------------------
(* access_log_runtime_shutdown *)

SetStop ==
  /\ main = "running" /\ \A s \in Shards : workers[s].at = "ended"
  /\ stop' = TRUE /\ main' = "notify"
  /\ UNCHANGED <<entries, prod_head, cons_tail, wake, workers, writer, log>>

NotifyStop ==
  /\ main = "notify"
  /\ wake' = TRUE /\ main' = "join"
  /\ UNCHANGED <<entries, prod_head, cons_tail, stop, workers, writer, log>>

Join ==
  /\ main = "join" /\ writer.at \in {"done", "failed"}
  /\ main' = "joined"
  /\ UNCHANGED <<entries, prod_head, cons_tail, wake, stop, workers, writer, log>>

Worker(s) ==
  \/ LoadIndices(s) \/ Nudge(s) \/ StoreEntry(s) \/ PublishEntry(s)
  \/ access_log_notify_writer(s) \/ WorkerEnds(s)
Writer ==
  \/ WriterStarts \/ ScanShard \/ TakeEntry \/ ReleaseBatch \/ WriteBatch \/ ScanEnds
  \/ CheckShard \/ AllEmpty \/ ReadWake \/ PollWake
Main == SetStop \/ NotifyStop \/ Join

Next == Writer \/ Main \/ \E s \in Shards : Worker(s)
Spec == Init /\ [][Next]_vars

\* What a worker that has begun to log a line goes on to do.
Finishes(s) == Nudge(s) \/ StoreEntry(s) \/ PublishEntry(s) \/ access_log_notify_writer(s)

-----------------------------------------------------------------------------
TypeOK ==
  /\ entries \in [Shards -> [Places -> Lines]]
  /\ prod_head \in [Shards -> Places] /\ cons_tail \in [Shards -> Places]
  /\ wake \in BOOLEAN /\ stop \in BOOLEAN
  /\ workers \in [Shards -> [at : {"idle", "nudge", "store", "publish", "notify", "ended"},
                             head : Places, tail : Places]]
  /\ writer.at \in {"start", "failed", "scan", "batch", "write", "check", "sleep", "poll", "done"}
  /\ writer.i \in 1 .. NumWorkers + 1 /\ Len(writer.batch) <= BatchMax
  /\ main \in {"running", "notify", "join", "joined"}
  /\ offered \in [Shards -> Lines]

\* A worker never stores an entry that the writer is still to read: the entry
\* that the worker fills lies outside those between the writer's place and the
\* head that the writer has seen (access_log_enqueue against the writer's loop).
Ahead(p, q) == (q + Cap - p) % Cap
EntriesApart ==
  \A s \in Shards :
    workers[s].at = "store" /\ writer.at = "batch" /\ writer.i = s =>
      Ahead(writer.batch_tail, workers[s].head) >= Ahead(writer.batch_tail, writer.head)

\* The file has the lines of a worker in the order in which it offered them,
\* each at most once, and none that was counted as dropped.
LinesInOrder ==
  \A s \in Shards :
    /\ \A j, k \in DOMAIN written[s] : j < k => written[s][j] < written[s][k]
    /\ Range(written[s]) \cap dropped[s] = {}

\* When the writer has ended, every line that was offered has been written or
\* counted as dropped (the drain at access_log_runtime_shutdown).
ShutdownWritesAll ==
  writer.at = "done" =>
    \A s \in Shards : Range(written[s]) \cup dropped[s] = 1 .. offered[s]

\* The writer does not wait for a wake-up that nobody is about to send while
\* an entry is in a ring ("Avoid sleeping on wakefd while any shard already
\* has pending entries").
NeverSleepsOnPending ==
  (writer.at = "poll" /\ ~wake /\ \A s \in Shards : workers[s].at \in {"idle", "ended"})
    => \A s \in Shards : Empty(s)

\* A worker that finds its ring full makes the writer empty it.
FullRingIsEmptied ==
  \A s \in Shards : workers[s].at = "nudge" ~> (Empty(s) \/ writer.at = "failed")

\* access_log_runtime_shutdown returns.
ShutdownReturns == stop ~> main = "joined"
=============================================================================
