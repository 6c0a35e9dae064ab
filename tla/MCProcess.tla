------------------------------ MODULE MCProcess ------------------------------
(***************************************************************************)
(* What the threads of the process do together, in one of five settings.   *)
(* Shutdown with two workers: signals that come at any time to workers     *)
(* with a pipe each, some of which fail to start; a drain with as much     *)
(* time as it takes; and a drain of limited time with the shared pipe.     *)
(* The access log with a writer thread and two queues, one of which its    *)
(* worker fills and goes around (MCService has two that do, and fewer      *)
(* lines); or with one ring for each worker, written by the worker itself. *)
(* What a setting does not use stays as it was initialised.                *)
(***************************************************************************)
EXTENDS Shutdown, AccessLog

VARIABLE setting

Calm == INSTANCE Shutdown WITH SignalAnyTime <- FALSE, StartMayFail <- FALSE

all == <<setting, vars, queue, rings>>

ProcessInit ==
  /\ Init /\ LogInit
  /\ setting \in {"any time", "patient", "timed", "queue", "direct"}
  /\ SharedPipe <=> setting = "timed"

\* Bound: of the two workers that have a queue the first one logs.
FirstLogs == offered'[2] = 0

ProcessNext ==
  /\ UNCHANGED setting
  /\ \/ setting = "any time" /\ Next /\ UNCHANGED <<queue, rings>>
     \/ setting \in {"patient", "timed"} /\ Calm!Next /\ UNCHANGED <<queue, rings>>
     \/ setting = "queue" /\ Queue!Next /\ FirstLogs /\ UNCHANGED <<vars, rings>>
     \/ setting = "direct" /\ Direct!Next /\ UNCHANGED <<vars, queue>>

\* Threads that can run are run; a worker need not log anything, nor end.  Time
\* passes, the sweep timer runs the loop of every worker, and a shutdown that
\* has begun goes on.
Drains(A) ==
  /\ setting \in {"patient", "timed"} /\ A
  /\ UNCHANGED <<setting, wake_pipe_mode, queue, rings>>
Fairness ==
  /\ WF_all(Drains(Calm!Main))
  /\ WF_all(Drains(setting = "timed" /\ Calm!GraceElapses))
  /\ \A w \in Workers : WF_all(Drains(Calm!Worker(w))) /\ SF_all(Drains(Calm!WorkerWake(w)))
  /\ WF_all(setting = "queue" /\ Queue!Writer /\ UNCHANGED <<setting, vars, rings>>)
  /\ WF_all(setting = "queue" /\ Queue!Main /\ UNCHANGED <<setting, vars, rings>>)
  /\ WF_all(setting = "direct" /\ Direct!End /\ UNCHANGED <<setting, vars, queue>>)
  /\ \A i \in 1 .. 2 :
       /\ WF_all(setting = "queue" /\ Queue!Finishes(i) /\ UNCHANGED <<setting, vars, rings>>)
       /\ WF_all(setting = "direct" /\ Direct!Elapse(i) /\ UNCHANGED <<setting, vars, queue>>)
       /\ WF_all(/\ setting = "direct" /\ Direct!FlushRing(i)
                  /\ UNCHANGED <<setting, vars, queue>>)
       /\ WF_all(/\ setting = "direct" /\ Direct!access_log_direct_maybe_flush_shard(i)
                  /\ UNCHANGED <<setting, vars, queue>>)
       /\ WF_all(/\ setting = "direct" /\ Direct!CountLine(i)
                  /\ UNCHANGED <<setting, vars, queue>>)

ProcessSpec == ProcessInit /\ [][ProcessNext]_all /\ Fairness

-----------------------------------------------------------------------------
\* A drain that has the time makes every worker stop accepting.
PatientDrainStops == setting = "patient" => DrainStopsAccepts

\* A signal that finds the main thread waiting ends the process in bounded
\* time, also with the shared pipe.
TimedShutdownCompletes == setting = "timed" => ShutdownCompletes

\* A worker that finds its queue full makes the writer empty it, and
\* access_log_runtime_shutdown returns; without a writer no line waits in a ring
\* for ever.
LinesLeave ==
  /\ setting = "queue" => Queue!FullRingIsEmptied /\ Queue!ShutdownReturns
  /\ setting = "direct" => Direct!LinesAreFlushed
=============================================================================
