------------------------------- MODULE Shutdown -------------------------------
(***************************************************************************)
(* How the process stops: signals, the main thread that waits for them,    *)
(* the wake pipes and the workers.  The first signal starts a graceful     *)
(* drain, which ends when no connection is left or its time is over; the   *)
(* second one forces the end.                                              *)
(*                                                                         *)
(* A signal handler runs on the main thread between two of its steps.  A   *)
(* worker is reduced to whether it accepts and how many connections it     *)
(* has; AcceptController and Worker model the rest.                        *)
(***************************************************************************)
EXTENDS Naturals, FiniteSetsExt

CONSTANTS
  Threads,          \* number of workers
  SignalAnyTime,    \* can the first signal come while main is not waiting?
  StartMayFail,     \* can a worker fail to arm its wake poll?
  MaxConns          \* connections of a worker

ASSUME ShutdownAssumption ==
  /\ Threads \in Nat \ {0} /\ MaxConns \in Nat
  /\ SignalAnyTime \in BOOLEAN /\ StartMayFail \in BOOLEAN

Workers == 1 .. Threads
VARIABLES
  wake_pipe_mode,   \* from the configuration; never changes
  g_shutdown_state, g_shutdown_signal_count, g_running, g_tls_reload_requested,
  main,             \* where the main thread is
  next_wake,        \* the worker it wakes next
  grace_over,       \* shutdown_grace_ms have passed since the drain began
  worker,           \* where a worker is
  accepting,        \* its listeners have accepts armed
  wake_poll,        \* its poll of the wake pipe: "off", "armed", or "done"
  conns,            \* its connections
  bytes             \* bytes in a wake pipe

vars == <<wake_pipe_mode, g_shutdown_state, g_shutdown_signal_count, g_running,
          g_tls_reload_requested, main, next_wake, grace_over, worker, accepting, wake_poll,
          conns, bytes>>
globals == <<g_shutdown_state, g_shutdown_signal_count, g_running, g_tls_reload_requested>>
workers == <<worker, accepting, conns>>
pipes == <<wake_poll, bytes>>

SharedPipe == wake_pipe_mode = "shared"
PipeOf(w) == IF SharedPipe THEN 1 ELSE w

MainPlaces == {"top", "before_pause", "pause", "woken", "check", "wake", "drain",
               "complete", "wake_last", "join", "done"}

Init ==
  /\ wake_pipe_mode \in {"shared", "per-worker"}
  /\ g_shutdown_state = "RUNNING" /\ g_shutdown_signal_count = 0
  /\ g_running = TRUE /\ g_tls_reload_requested = FALSE
  /\ main = "top" /\ next_wake = 1 /\ grace_over = FALSE
  /\ worker = [w \in Workers |-> "start"]
  /\ accepting = [w \in Workers |-> FALSE]
  /\ wake_poll = [w \in Workers |-> "off"]
  /\ conns = [w \in Workers |-> 0]
  /\ bytes = [w \in Workers |-> 0]

-----------------------------------------------------------------------------
\* Signals.  pause returns when a handler has run.

Waiting == main \notin {"top", "before_pause"}
Interrupted == main' = IF main = "pause" THEN "woken" ELSE main

handle_signal ==
  /\ main # "done"
  /\ SignalAnyTime \/ Waiting
  /\ g_shutdown_signal_count < 2
  /\ g_shutdown_signal_count' = g_shutdown_signal_count + 1
  /\ IF g_shutdown_signal_count = 0
     THEN g_shutdown_state' = "DRAIN" /\ g_running' = g_running
     ELSE g_shutdown_state' = "FORCE" /\ g_running' = FALSE
  /\ Interrupted
  /\ UNCHANGED <<g_tls_reload_requested, next_wake, grace_over, workers, pipes>>

handle_reload_signal ==
  /\ main # "done" /\ ~g_tls_reload_requested
  /\ g_tls_reload_requested' = TRUE
  /\ Interrupted
  /\ UNCHANGED <<g_shutdown_state, g_shutdown_signal_count, g_running, next_wake,
                 grace_over, workers, pipes>>

-----------------------------------------------------------------------------
\* The main thread.

Goto(from, to) == main = from /\ main' = to

MainTop ==
  /\ Goto("top", IF g_running THEN "before_pause" ELSE "wake_last")
  /\ UNCHANGED <<globals, next_wake, grace_over, workers, pipes>>

MainPause ==
  /\ Goto("before_pause", "pause")
  /\ UNCHANGED <<globals, next_wake, grace_over, workers, pipes>>

\* A reload of the TLS contexts and the access log, if one was asked for.
MainReloadContinues ==
  /\ Goto("woken", IF g_tls_reload_requested THEN "top" ELSE "check")
  /\ g_tls_reload_requested' = (g_tls_reload_requested /\ g_shutdown_state # "RUNNING")
  /\ UNCHANGED <<g_shutdown_state, g_shutdown_signal_count, g_running, next_wake,
                 grace_over, workers, pipes>>
MainReload ==
  /\ Goto("woken", "check")
  /\ g_tls_reload_requested' = (g_tls_reload_requested /\ g_shutdown_state # "RUNNING")
  /\ UNCHANGED <<g_shutdown_state, g_shutdown_signal_count, g_running, next_wake,
                 grace_over, workers, pipes>>

MainCheck ==
  /\ Goto("check", IF g_shutdown_state = "DRAIN" THEN "wake" ELSE "top")
  /\ UNCHANGED <<globals, next_wake, grace_over, workers, pipes>>

\* wake_workers_via_pipe and wake_workers_via_pipes, one byte at a time.  A
\* write completes every armed poll of the pipe.
LastWakeTooEarly(w) == w >= Threads - 1
LastWake(w) == w = Threads
MainWake ==
  /\ main \in {"wake", "wake_last"}
  /\ LET p == PipeOf(next_wake)
     IN  /\ bytes' = [bytes EXCEPT ![p] = @ + 1]
         /\ wake_poll' = [w \in Workers |->
              IF PipeOf(w) = p /\ wake_poll[w] = "armed" THEN "done" ELSE wake_poll[w]]
  /\ IF LastWake(next_wake)
     THEN /\ main' = IF main = "wake" THEN "drain" ELSE "join"
          /\ next_wake' = 1
     ELSE main' = main /\ next_wake' = next_wake + 1
  /\ UNCHANGED <<globals, grace_over, workers>>

active_conns_total == MapThenSumSet(LAMBDA w : conns[w], Workers)

\* One turn of the loop that waits for the drain.
MainDrainOver ==
  /\ ~g_running \/ g_shutdown_state # "DRAIN"
  /\ Goto("drain", "top")
  /\ UNCHANGED <<globals, next_wake, grace_over, workers, pipes>>

MainDrainEmpty ==
  /\ g_running /\ g_shutdown_state = "DRAIN" /\ active_conns_total = 0
  /\ Goto("drain", "complete")
  /\ UNCHANGED <<globals, next_wake, grace_over, workers, pipes>>

MainDrainComplete ==
  /\ Goto("complete", "top")
  /\ g_running' = FALSE
  /\ UNCHANGED <<g_shutdown_state, g_shutdown_signal_count, g_tls_reload_requested,
                 next_wake, grace_over, workers, pipes>>

GraceReachedWhenEmpty == grace_over /\ active_conns_total = 0
GraceReached == grace_over
MainDrainForce ==
  /\ g_running /\ g_shutdown_state = "DRAIN" /\ active_conns_total # 0
  /\ GraceReached
  /\ Goto("drain", "top")
  /\ g_shutdown_state' = "FORCE" /\ g_shutdown_signal_count' = 2 /\ g_running' = FALSE
  /\ UNCHANGED <<g_tls_reload_requested, next_wake, grace_over, workers, pipes>>

GraceElapses ==
  /\ main = "drain" /\ ~grace_over
  /\ grace_over' = TRUE
  /\ UNCHANGED <<globals, main, next_wake, workers, pipes>>

MainJoin ==
  /\ \A w \in Workers : worker[w] = "exited"
  /\ Goto("join", "done")
  /\ UNCHANGED <<globals, next_wake, grace_over, workers, pipes>>

-----------------------------------------------------------------------------
\* The workers.

At(w, from, to) == worker[w] = from /\ worker' = [worker EXCEPT ![w] = to]
mains == <<main, next_wake, grace_over>>

\* Polling a pipe that has bytes completes at once.
ArmedPoll(w, n) == [wake_poll EXCEPT ![w] = IF n > 0 THEN "done" ELSE "armed"]

WorkerStart(w) ==
  /\ At(w, "start", "loop")
  /\ accepting' = [accepting EXCEPT ![w] = TRUE]
  /\ wake_poll' = ArmedPoll(w, bytes[PipeOf(w)])
  /\ UNCHANGED <<globals, mains, conns, bytes>>

WorkerStartFails(w) ==
  /\ StartMayFail
  /\ At(w, "start", "exited")
  /\ g_running' = FALSE
  /\ UNCHANGED <<g_shutdown_state, g_shutdown_signal_count, g_tls_reload_requested,
                 mains, accepting, conns, pipes>>

\* The head of the loop.  The sweep timer ends a wait for completions in which
\* nothing else happens.
WorkerLoop(w) ==
  /\ At(w, "loop", IF g_running THEN "batch" ELSE "exited")
  /\ UNCHANGED <<globals, mains, accepting, conns, pipes>>

\* OP_WAKE
EntersDrain == g_shutdown_state # "RUNNING"
WorkerWake(w) ==
  /\ wake_poll[w] = "done"
  /\ At(w, "batch", "loop")
  /\ accepting' = [accepting EXCEPT ![w] = @ /\ ~EntersDrain]
  /\ bytes' = [bytes EXCEPT ![PipeOf(w)] = 0]
  /\ wake_poll' = ArmedPoll(w, 0)
  /\ UNCHANGED <<globals, mains, conns>>

WorkerAccept(w) ==
  /\ accepting[w] /\ conns[w] < MaxConns
  /\ At(w, "batch", "loop")
  /\ conns' = [conns EXCEPT ![w] = @ + 1]
  /\ UNCHANGED <<globals, mains, accepting, pipes>>

WorkerClose(w) ==
  /\ conns[w] > 0
  /\ At(w, "batch", "loop")
  /\ conns' = [conns EXCEPT ![w] = @ - 1]
  /\ UNCHANGED <<globals, mains, accepting, pipes>>

WorkerSweep(w) ==
  /\ wake_poll[w] # "done"
  /\ At(w, "batch", "loop")
  /\ UNCHANGED <<globals, mains, accepting, conns, pipes>>

Main ==
  \/ MainTop \/ MainPause \/ MainReload \/ MainCheck \/ MainWake
  \/ MainDrainOver \/ MainDrainEmpty \/ MainDrainComplete \/ MainDrainForce
  \/ MainJoin

Worker(w) ==
  \/ WorkerStart(w) \/ WorkerStartFails(w) \/ WorkerLoop(w)
  \/ WorkerWake(w) \/ WorkerAccept(w) \/ WorkerClose(w) \/ WorkerSweep(w)

Next ==
  /\ UNCHANGED wake_pipe_mode
  /\ \/ handle_signal \/ handle_reload_signal \/ GraceElapses
     \/ Main \/ \E w \in Workers : Worker(w)

Spec == Init /\ [][Next]_vars

\* Threads are scheduled, and a worker whose wake poll is done handles it with
\* one of its next batches.
ThreadsFair ==
  /\ WF_vars(Main)
  /\ \A w \in Workers : WF_vars(Worker(w)) /\ SF_vars(WorkerWake(w))

-----------------------------------------------------------------------------
TypeOK ==
  /\ wake_pipe_mode \in {"shared", "per-worker"}
  /\ g_shutdown_state \in {"RUNNING", "DRAIN", "FORCE"}
  /\ g_shutdown_signal_count \in 0 .. 2
  /\ g_running \in BOOLEAN /\ g_tls_reload_requested \in BOOLEAN /\ grace_over \in BOOLEAN
  /\ main \in MainPlaces /\ next_wake \in Workers
  /\ worker \in [Workers -> {"start", "loop", "batch", "exited"}]
  /\ accepting \in [Workers -> BOOLEAN]
  /\ wake_poll \in [Workers -> {"off", "armed", "done"}]
  /\ conns \in [Workers -> 0 .. MaxConns] /\ bytes \in [Workers -> Nat]

\* The workers that the present or the past drain has sent a byte to.
Woken(w) == main \in {"drain", "complete"} \/ (main = "wake" /\ w < next_wake)

\* With a pipe for each worker no wake-up is lost: a worker that was sent a
\* byte when the drain began has stopped accepting, or holds the completion
\* that makes it stop, or will find the byte when it arms its poll
\* (wake_workers_via_pipes, OP_WAKE), whatever signals and start-up do.
WakeDelivered ==
  ~SharedPipe => \A w \in Workers : Woken(w) =>
    CASE worker[w] = "start" -> bytes[w] > 0
      [] worker[w] \in {"loop", "batch"} -> accepting[w] => wake_poll[w] = "done"
      [] worker[w] = "exited" -> TRUE

\* A drain reaches every worker ("On shutdown transition, stop new accepts and
\* drain in-flight connections", worker_loop.c:379).
DrainStopsAccepts ==
  g_shutdown_state = "DRAIN" ~> (~g_running \/ \A w \in Workers : ~accepting[w])

\* docs/config_ini_reference.md:75, shutdown_grace_ms is the "global
\* graceful-shutdown bound for first-signal drain": after the first signal the
\* process ends, whatever its connections do.
ShutdownCompletes == g_shutdown_state # "RUNNING" ~> main = "done"
===============================================================================
