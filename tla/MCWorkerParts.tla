---------------------------- MODULE MCWorkerParts ----------------------------
(***************************************************************************)
(* The four parts of a worker that Worker uses through what they promise:  *)
(* the store of its connections, its timing wheel, its receive buffers and *)
(* its accepts.  They share no state; a behaviour is of one of them, with  *)
(* the others as they were initialised.  The accepts are taken twice, with *)
(* submission entries enough and with entries that may be refused.         *)
(***************************************************************************)
EXTENDS ConnStore

VARIABLES
  part,
  now, tw_now_tick, next_tick_deadline_ms, wheel, sweep,
  bp_pool, ring, head, tail, recv,
  kernel_multishot, armed, timers, cq, accept_multishot, accept_paused,
  accept_cancel_inflight, accept_backoff_armed, is_draining

Wheel == INSTANCE TimingWheel WITH
  Conns <- {"a"}, Slots <- 4, TickMs <- 3, Timeouts <- {0, 2, 3, 7, 15},
  MaxLag <- 4, MaxNow <- 24, Garbage <- {}
Buffers == INSTANCE RxBuffers WITH
  Conns <- {"a", "b", "c"}, Entries <- 2, AllocMayFail <- FALSE
Accepts == INSTANCE AcceptController WITH
  NumListeners <- 2, SqeMayFail <- FALSE, MaxArmed <- 1, MaxCq <- 3
Starved == INSTANCE AcceptController WITH
  NumListeners <- 2, SqeMayFail <- TRUE, MaxArmed <- 1, MaxCq <- 3

ASSUME PartsOK ==
  /\ Wheel!ConstantsOK /\ Buffers!ConstantsOK /\ Accepts!ConstantsOK
  /\ Starved!ConstantsOK

times == <<now, tw_now_tick, next_tick_deadline_ms, wheel, sweep>>
buffers == <<bp_pool, ring, head, tail, recv>>
accepts == <<kernel_multishot, armed, timers, cq, accept_multishot, accept_paused,
             accept_cancel_inflight, accept_backoff_armed, is_draining>>
allVars == <<part, vars, times, buffers, accepts>>

PartsInit ==
  /\ part \in {"store", "wheel", "buffers", "accepts", "starved"}
  /\ Init /\ Wheel!Init /\ Buffers!Init /\ Accepts!Init

PartsNext ==
  \/ part = "store" /\ Next /\ UNCHANGED <<part, times, buffers, accepts>>
  \/ part = "wheel" /\ Wheel!Next /\ UNCHANGED <<part, vars, buffers, accepts>>
  \/ part = "buffers" /\ Buffers!Next /\ UNCHANGED <<part, vars, times, accepts>>
  \/ part = "accepts" /\ Accepts!Next /\ UNCHANGED <<part, vars, times, buffers>>
  \/ part = "starved" /\ Starved!Next /\ UNCHANGED <<part, vars, times, buffers>>

PartsSpec == PartsInit /\ [][PartsNext]_allVars

-----------------------------------------------------------------------------
\* A deadline is acted on within a tick and the loop's own lateness, and never
\* before it has passed.
DeadlinesKept == [][Wheel!ExpiresInTime' /\ Wheel!NeverEarly]_allVars

\* A receive buffer that is offered exists, and is in one place at a time.
BufferOnce == Buffers!BufferOnce

\* Accepts that are paused have exactly one back-off timer on its way and a
\* draining worker that has paused its accepts never accepts again, also when
\* entries are refused; while they can be had, each listener has exactly one
\* accept.
AcceptsKept ==
  [][/\ Starved!PausedWillResume' /\ Starved!DrainIsFinal
     /\ part = "accepts" => Accepts!OneAcceptPerListener']_allVars
=============================================================================
