--------------------------- MODULE ProcessProofs ---------------------------
(***************************************************************************)
(* What the threads of the process do together, for every number of        *)
(* workers: no wake-up of a drain is lost, and no line of the access log.  *)
(*                                                                         *)
(* Shutdown, with a pipe for each worker.  WakeDelivered is not inductive: *)
(* that the byte of a worker that runs completes its poll needs that the   *)
(* poll is armed, that the completion makes it stop needs that the drain   *)
(* has been announced, and that a new round of bytes starts with nobody    *)
(* woken needs that it starts at the first worker.                         *)
(*                                                                         *)
(* The log.  LogQueueProofs has the invariant of the mode with a writer.   *)
(* Without one a worker alone appends to its ring and writes it to the     *)
(* file; RingAccount says where its lines are, the one that a slot is      *)
(* being filled with not counted yet.                                      *)
(***************************************************************************)
EXTENDS Shutdown, LogQueueProofs

-----------------------------------------------------------------------------
(* Shutdown *)

\* A drain is announced before its bytes are sent, and a round of bytes begins
\* with the first worker.
Announced ==
  /\ main \in {"wake", "drain", "complete"} => g_shutdown_state # "RUNNING"
  /\ main \notin {"wake", "wake_last"} => next_wake = 1

\* A worker that runs polls its pipe.
Polling == \A w \in Workers : worker[w] \in {"loop", "batch"} => wake_poll[w] # "off"

WakeInv == TypeOK /\ Announced /\ Polling /\ WakeDelivered

-----------------------------------------------------------------------------
LEMMA InitHolds == Init => WakeInv
<1> SUFFICES ASSUME Init PROVE WakeInv
  OBVIOUS
<1>1. TypeOK
  <2>1. g_running \in BOOLEAN /\ g_tls_reload_requested \in BOOLEAN /\ grace_over \in BOOLEAN
    BY Zenon DEF Init
  <2>2. accepting \in [Workers -> BOOLEAN]
    BY Zenon DEF Init
  <2>3. /\ wake_pipe_mode \in {"shared", "per-worker"}
        /\ g_shutdown_state \in {"RUNNING", "DRAIN", "FORCE"} /\ g_shutdown_signal_count \in 0 .. 2
        /\ main \in MainPlaces /\ next_wake \in Workers
        /\ worker \in [Workers -> {"start", "loop", "batch", "exited"}]
        /\ wake_poll \in [Workers -> {"off", "armed", "done"}]
        /\ conns \in [Workers -> 0 .. MaxConns] /\ bytes \in [Workers -> Nat]
    BY ShutdownAssumption DEF Init, MainPlaces, Workers
  <2> QED BY <2>1, <2>2, <2>3, Zenon DEF TypeOK
<1>2. Announced /\ Polling
  BY DEF Init, Announced, Polling
<1>3. WakeDelivered
  BY DEF Init, WakeDelivered, Woken, SharedPipe
<1> QED BY <1>1, <1>2, <1>3 DEF WakeInv

LEMMA SignalKeeps ==
  ASSUME WakeInv, UNCHANGED wake_pipe_mode, handle_signal \/ handle_reload_signal
  PROVE  WakeInv'
<1>1. CASE handle_signal
  <2>1. TypeOK'
    <3>1. g_running' \in BOOLEAN /\ g_tls_reload_requested' \in BOOLEAN /\ grace_over' \in BOOLEAN
      BY <1>1, Zenon DEF WakeInv, handle_signal, TypeOK
    <3>2. g_shutdown_signal_count' \in 0 .. 2
      BY <1>1 DEF WakeInv, handle_signal, TypeOK
    <3>3. g_shutdown_state' \in {"RUNNING", "DRAIN", "FORCE"} /\ main' \in MainPlaces
      BY <1>1 DEF WakeInv, handle_signal, Interrupted, TypeOK, MainPlaces
    <3>4. UNCHANGED <<next_wake, worker, accepting, conns, wake_poll, bytes>>
      BY <1>1 DEF handle_signal, workers, pipes
    <3> QED BY <1>1, <3>1, <3>2, <3>3, <3>4, Zenon DEF WakeInv, TypeOK
  <2>2. Announced' /\ Polling'
    BY <1>1 DEF WakeInv, handle_signal, Interrupted, Announced, Polling, workers, pipes
  <2>3. WakeDelivered'
    BY <1>1, Zenon DEF WakeInv, handle_signal, Interrupted, WakeDelivered, Woken, workers,
                pipes, SharedPipe
  <2> QED BY <2>1, <2>2, <2>3 DEF WakeInv
<1>2. CASE handle_reload_signal
  <2>1. TypeOK'
    BY <1>2 DEF WakeInv, handle_reload_signal, Interrupted, TypeOK, MainPlaces, workers, pipes
  <2>2. Announced' /\ Polling'
    BY <1>2 DEF WakeInv, handle_reload_signal, Interrupted, Announced, Polling, workers, pipes
  <2>3. WakeDelivered'
    BY <1>2 DEF WakeInv, handle_reload_signal, Interrupted, WakeDelivered, Woken, workers,
                pipes, SharedPipe
  <2> QED BY <2>1, <2>2, <2>3 DEF WakeInv
<1> QED BY <1>1, <1>2

-----------------------------------------------------------------------------
(* The main thread *)

\* A step of the main thread that leaves workers and pipes alone and comes to
\* no place where more workers count as woken.
LEMMA GotoKeeps ==
  ASSUME WakeInv, TypeOK', UNCHANGED wake_pipe_mode,
         UNCHANGED <<workers, pipes>>, UNCHANGED next_wake,
         main \notin {"wake", "wake_last"},
         g_shutdown_state # "RUNNING" => g_shutdown_state' # "RUNNING",
         main' \in {"drain", "complete"} => main \in {"drain", "complete"},
         main' = "wake" => g_shutdown_state' # "RUNNING"
  PROVE  WakeInv'
<1>1. next_wake = 1 /\ next_wake' = 1
  BY DEF WakeInv, Announced
<1>2. Announced'
  BY <1>1 DEF WakeInv, Announced
<1>3. Polling'
  BY DEF WakeInv, Polling, workers, pipes
<1>4. \A w \in Workers : Woken(w)' => Woken(w)
  BY <1>1 DEF Woken, Workers
<1>5. WakeDelivered'
  BY <1>4, Zenon DEF WakeInv, WakeDelivered, workers,
                pipes, SharedPipe
<1> QED BY <1>2, <1>3, <1>5 DEF WakeInv

LEMMA MainWakeKeeps ==
  ASSUME WakeInv, UNCHANGED wake_pipe_mode, MainWake
  PROVE  WakeInv'
<1> DEFINE p == PipeOf(next_wake)
<1>1. /\ main \in {"wake", "wake_last"}
      /\ bytes' = [bytes EXCEPT ![p] = @ + 1]
      /\ wake_poll' = [w \in Workers |->
            IF PipeOf(w) = p /\ wake_poll[w] = "armed" THEN "done" ELSE wake_poll[w]]
      /\ UNCHANGED <<globals, grace_over, workers>>
  BY DEF MainWake
<1>2. p \in Workers
  BY ShutdownAssumption DEF WakeInv, TypeOK, PipeOf, Workers, SharedPipe
<1>3. IF next_wake = Threads
      THEN main' = (IF main = "wake" THEN "drain" ELSE "join") /\ next_wake' = 1
      ELSE main' = main /\ next_wake' = next_wake + 1
  BY DEF MainWake, LastWake
<1> HIDE DEF p
<1>4. TypeOK'
  <2>1. next_wake' \in Workers /\ main' \in MainPlaces
    BY <1>1, <1>3, ShutdownAssumption DEF WakeInv, TypeOK, Workers, MainPlaces
  <2>2. bytes' \in [Workers -> Nat] /\ wake_poll' \in [Workers -> {"off", "armed", "done"}]
    BY <1>1, <1>2 DEF WakeInv, TypeOK
  <2> QED BY <1>1, <2>1, <2>2 DEF WakeInv, TypeOK, globals, workers
<1>5. Announced'
  BY <1>1, <1>3 DEF WakeInv, Announced, globals
<1>6. Polling'
  BY <1>1 DEF WakeInv, TypeOK, Polling, workers
<1>7. WakeDelivered'
  <2> SUFFICES ASSUME ~SharedPipe, NEW w \in Workers, Woken(w)'
               PROVE  /\ worker'[w] = "start" => bytes'[w] > 0
                      /\ worker'[w] \in {"loop", "batch"} => (accepting'[w] => wake_poll'[w] = "done")
    <3>1. \A w \in Workers : worker'[w] \in {"start", "loop", "batch", "exited"}
      BY <1>4 DEF TypeOK
    <3> QED BY <3>1 DEF WakeDelivered, SharedPipe
  <2>1. p = next_wake /\ PipeOf(w) = w
    BY DEF PipeOf, p, SharedPipe
  <2>2. main = "wake" /\ w <= next_wake
    BY <1>1, <1>3, ShutdownAssumption DEF Woken, WakeInv, TypeOK, Workers
  <2>3. worker' = worker /\ accepting' = accepting
    BY <1>1 DEF workers
  <2>4. CASE w = next_wake
    BY <1>1, <1>2, <2>1, <2>3, <2>4 DEF WakeInv, TypeOK, Polling
  <2>5. CASE w < next_wake
    <3>1. /\ worker[w] = "start" => bytes[w] > 0
          /\ worker[w] \in {"loop", "batch"} => (accepting[w] => wake_poll[w] = "done")
      BY <2>2, <2>5, Zenon DEF WakeInv, WakeDelivered, Woken, SharedPipe
    <3>2. bytes'[w] = bytes[w] /\ wake_poll'[w] = wake_poll[w]
      BY <1>1, <1>2, <2>1, <2>5 DEF WakeInv, TypeOK, Workers
    <3> QED BY <2>3, <3>1, <3>2
  <2> QED BY <2>2, <2>4, <2>5 DEF WakeInv, TypeOK, Workers
<1> QED BY <1>4, <1>5, <1>6, <1>7 DEF WakeInv

LEMMA MainKeeps ==
  ASSUME WakeInv, UNCHANGED wake_pipe_mode, Main \/ GraceElapses
  PROVE  WakeInv'
<1> USE DEF WakeInv, Goto, globals
<1>1. CASE MainTop
  <2>1. TypeOK'
    BY <1>1 DEF MainTop, TypeOK, MainPlaces, workers, pipes
  <2> QED BY <1>1, <2>1, GotoKeeps DEF MainTop
<1>2. CASE MainPause
  <2>1. TypeOK'
    BY <1>2 DEF MainPause, TypeOK, MainPlaces, workers, pipes
  <2> QED BY <1>2, <2>1, GotoKeeps DEF MainPause
<1>3. CASE MainReload
  <2>1. TypeOK'
    BY <1>3 DEF MainReload, TypeOK, MainPlaces, workers, pipes
  <2> QED BY <1>3, <2>1, GotoKeeps DEF MainReload
<1>4. CASE MainCheck
  <2>1. TypeOK'
    BY <1>4 DEF MainCheck, TypeOK, MainPlaces, workers, pipes
  <2> QED BY <1>4, <2>1, GotoKeeps DEF MainCheck
<1>5. CASE MainWake
  BY <1>5, MainWakeKeeps
<1>6. CASE MainDrainOver
  <2>1. TypeOK'
    BY <1>6 DEF MainDrainOver, TypeOK, MainPlaces, workers, pipes
  <2> QED BY <1>6, <2>1, GotoKeeps DEF MainDrainOver
<1>7. CASE MainDrainEmpty
  <2>1. TypeOK'
    BY <1>7 DEF MainDrainEmpty, TypeOK, MainPlaces, workers, pipes
  <2> QED BY <1>7, <2>1, GotoKeeps DEF MainDrainEmpty
<1>8. CASE MainDrainComplete
  <2>1. TypeOK'
    BY <1>8, Zenon DEF MainDrainComplete, TypeOK, MainPlaces, workers, pipes
  <2> QED BY <1>8, <2>1, GotoKeeps DEF MainDrainComplete
<1>9. CASE MainDrainForce
  <2>1. TypeOK'
    <3>1. g_running' \in BOOLEAN /\ g_tls_reload_requested' \in BOOLEAN /\ grace_over' \in BOOLEAN
      BY <1>9, Zenon DEF MainDrainForce, TypeOK
    <3>2. g_shutdown_signal_count' \in 0 .. 2 /\ g_shutdown_state' \in {"RUNNING", "DRAIN", "FORCE"}
      BY <1>9 DEF MainDrainForce
    <3>3. main' \in MainPlaces
      BY <1>9 DEF MainDrainForce, MainPlaces
    <3>4. UNCHANGED <<next_wake, worker, accepting, conns, wake_poll, bytes>>
      BY <1>9 DEF MainDrainForce, workers, pipes
    <3> QED BY <3>1, <3>2, <3>3, <3>4, Zenon DEF TypeOK
  <2> QED BY <1>9, <2>1, GotoKeeps DEF MainDrainForce
<1>10. CASE MainJoin
  <2>1. TypeOK'
    BY <1>10 DEF MainJoin, TypeOK, MainPlaces, workers, pipes
  <2> QED BY <1>10, <2>1, GotoKeeps DEF MainJoin
<1>11. CASE GraceElapses
  <2>1. TypeOK'
    BY <1>11 DEF GraceElapses, TypeOK, MainPlaces, workers, pipes
  <2> QED BY <1>11, <2>1, GotoKeeps DEF GraceElapses
<1> QED BY <1>1, <1>2, <1>3, <1>4, <1>5, <1>6, <1>7, <1>8, <1>9, <1>10, <1>11 DEF Main

-----------------------------------------------------------------------------
(* The workers *)

\* A step of worker w changes what WakeDelivered says of w alone.
LEMMA WorkerKeeps ==
  ASSUME WakeInv, UNCHANGED wake_pipe_mode, NEW w \in Workers, Worker(w)
  PROVE  WakeInv'
<1>1. UNCHANGED <<mains, g_shutdown_state>>
  BY DEF Worker, WorkerStart, WorkerStartFails, WorkerLoop, WorkerWake, WorkerAccept,
     WorkerClose, WorkerSweep, globals
<1>2. Announced'
  BY <1>1 DEF WakeInv, Announced, mains
<1>3. \A v \in Workers : Woken(v)' <=> Woken(v)
  BY <1>1 DEF Woken, mains
<1>4. PipeOf(w) \in Workers /\ (~SharedPipe => PipeOf(w) = w)
  BY ShutdownAssumption DEF PipeOf, Workers, SharedPipe
<1> USE DEF At, ArmedPoll
<1>5. CASE WorkerStart(w)
  <2>1. TypeOK'
    BY <1>1, <1>5 DEF WakeInv, TypeOK, WorkerStart, globals, mains
  <2>2. Polling'
    BY <1>5 DEF WakeInv, TypeOK, Polling, WorkerStart
  <2>3. WakeDelivered'
    BY <1>3, <1>4, <1>5, Zenon DEF WakeInv, TypeOK, WakeDelivered, WorkerStart, SharedPipe
  <2> QED BY <1>2, <2>1, <2>2, <2>3 DEF WakeInv
<1>6. CASE WorkerStartFails(w)
  <2>1. TypeOK'
    BY <1>1, <1>6 DEF WakeInv, TypeOK, WorkerStartFails, pipes, mains
  <2>2. Polling'
    BY <1>6 DEF WakeInv, TypeOK, Polling, WorkerStartFails, pipes
  <2>3. WakeDelivered'
    BY <1>3, <1>6, Zenon DEF WakeInv, TypeOK, WakeDelivered, WorkerStartFails, pipes, SharedPipe
  <2> QED BY <1>2, <2>1, <2>2, <2>3 DEF WakeInv
<1>7. CASE WorkerLoop(w)
  <2>1. TypeOK'
    BY <1>1, <1>7 DEF WakeInv, TypeOK, WorkerLoop, globals, mains, pipes
  <2>2. Polling'
    BY <1>7 DEF WakeInv, TypeOK, Polling, WorkerLoop, pipes
  <2>3. WakeDelivered'
    BY <1>3, <1>7 DEF WakeInv, TypeOK, WakeDelivered, WorkerLoop, pipes, SharedPipe
  <2> QED BY <1>2, <2>1, <2>2, <2>3 DEF WakeInv
<1>8. CASE WorkerWake(w)
  <2>1. TypeOK'
    BY <1>1, <1>4, <1>8 DEF WakeInv, TypeOK, WorkerWake, globals, mains
  <2>2. Polling'
    BY <1>8 DEF WakeInv, TypeOK, Polling, WorkerWake
  <2>3. Woken(w) => ~accepting'[w]
    BY <1>8, Zenon DEF WakeInv, TypeOK, Announced, Woken, WorkerWake, EntersDrain
  <2>4. WakeDelivered'
    BY <1>3, <1>4, <1>8, <2>3 DEF WakeInv, TypeOK, WakeDelivered, WorkerWake, SharedPipe
  <2> QED BY <1>2, <2>1, <2>2, <2>4 DEF WakeInv
<1>9. CASE WorkerAccept(w) \/ WorkerClose(w) \/ WorkerSweep(w)
  <2>1. At(w, "batch", "loop") /\ UNCHANGED <<accepting, pipes>>
    BY <1>9 DEF WorkerAccept, WorkerClose, WorkerSweep
  <2>2. UNCHANGED globals
    BY <1>9 DEF WorkerAccept, WorkerClose, WorkerSweep
  <2>3. conns' \in [Workers -> 0 .. MaxConns]
    BY <1>9, ShutdownAssumption DEF WorkerAccept, WorkerClose, WorkerSweep, WakeInv, TypeOK
  <2>4. TypeOK'
    BY <1>1, <2>1, <2>2, <2>3, Zenon DEF WakeInv, TypeOK, globals, mains, pipes
  <2>5. Polling'
    BY <2>1 DEF WakeInv, TypeOK, Polling, pipes
  <2>6. WakeDelivered'
    BY <1>3, <2>1 DEF WakeInv, TypeOK, WakeDelivered, pipes, SharedPipe
  <2> QED BY <1>2, <2>4, <2>5, <2>6 DEF WakeInv
<1> QED BY <1>5, <1>6, <1>7, <1>8, <1>9 DEF Worker

-----------------------------------------------------------------------------
LEMMA NextKeeps == WakeInv /\ [Next]_vars => WakeInv'
<1> SUFFICES ASSUME WakeInv, [Next]_vars PROVE WakeInv'
  OBVIOUS
<1>1. CASE UNCHANGED vars
  BY <1>1, Zenon DEF vars, WakeInv, TypeOK, Announced, Polling, WakeDelivered, Woken, SharedPipe
<1> QED BY <1>1, SignalKeeps, MainKeeps, WorkerKeeps DEF Next

\* Whatever the number of workers, with a pipe for each of them the byte that a
\* drain sends to a worker makes it stop accepting, or still will
\* (wake_workers_via_pipes against OP_WAKE and a worker that starts late).
THEOREM WakesDelivered == Spec => []WakeDelivered
<1>1. Init => WakeInv
  BY InitHolds
<1>2. WakeInv /\ [Next]_vars => WakeInv'
  BY NextKeeps
<1>3. WakeInv => WakeDelivered
  BY DEF WakeInv
<1> QED BY <1>1, <1>2, <1>3, PTL DEF Spec

-----------------------------------------------------------------------------
(* The ring of a worker that writes its lines itself *)

Writers == 1 .. RingWorkers
Slots == 0 .. RingCap - 1
Pairs == Writers \X Nat

LEMMA RingOKs ==
  /\ RingCap \in Nat /\ RingCap > 1 /\ RingWorkers \in Nat /\ RingMax \in Nat
  /\ FlushLines \in Nat
  BY LogAssumption DEF Direct!ConstantsOK

LEMMA SlotBelow == \A k \in Slots : k \in 0 .. RingCap /\ k # RingCap
  BY RingOKs DEF Slots

LEMMA ModIs ==
  ASSUME NEW x \in Nat, x < 2 * RingCap
  PROVE  x % RingCap = IF x < RingCap THEN x ELSE x - RingCap
<1>1. RingCap \in Nat /\ RingCap > 1
  BY RingOKs
<1>2. CASE x < RingCap
  BY <1>1, <1>2
<1>3. CASE ~(x < RingCap)
  <2>1. x - RingCap \in Nat /\ x - RingCap < RingCap /\ x = RingCap * 1 + (x - RingCap)
    BY <1>1, <1>3
  <2> QED BY <1>1, <1>3, <2>1
<1> QED BY <1>2, <1>3

RingStates ==
  [slots : [Slots -> Nat \X Nat], head : Slots, tail : Slots, count : 0 .. RingCap,
   first : {"none", "young", "old"}]

\* The place of the k-th line of a ring.
PlaceAt(s, k) == (s.tail + k - 1) % RingCap

\* A ring whose head lies as far behind its tail as it has lines.
Whole(s) == s \in RingStates /\ s.head = (s.tail + s.count) % RingCap

LEMMA AtIs ==
  ASSUME NEW s, Whole(s)
  PROVE  /\ \A k \in 1 .. s.count : PlaceAt(s, k) \in Slots
         /\ s.count < RingCap => \A k \in 1 .. s.count : PlaceAt(s, k) # s.head
         /\ PlaceAt(s, s.count + 1) = s.head
         /\ s.head \in Slots /\ s.tail \in Slots /\ s.count \in 0 .. RingCap
<1>1. s.head \in Slots /\ s.tail \in Slots /\ s.count \in 0 .. RingCap
  BY DEF Whole, RingStates
<1>2. RingCap \in Nat /\ RingCap > 1
  BY RingOKs
<1>3. s.head = IF s.tail + s.count < RingCap THEN s.tail + s.count ELSE s.tail + s.count - RingCap
  <2>1. PICK x \in Nat : x = s.tail + s.count /\ x < 2 * RingCap
    BY <1>1, <1>2 DEF Slots
  <2>2. s.head = x % RingCap
    BY <2>1 DEF Whole
  <2>3. x % RingCap = IF x < RingCap THEN x ELSE x - RingCap
    BY <2>1, ModIs
  <2>4. s.head = IF x < RingCap THEN x ELSE x - RingCap
    BY <2>2, <2>3
  <2> QED BY <1>1, <1>2, <2>1, <2>4 DEF Slots
<1>4. ASSUME NEW k \in 1 .. s.count
      PROVE  PlaceAt(s, k) = IF s.tail + k - 1 < RingCap THEN s.tail + k - 1 ELSE s.tail + k - 1 - RingCap
  <2>1. PICK x \in Nat : x = s.tail + k - 1 /\ x < 2 * RingCap
    BY <1>1, <1>2 DEF Slots
  <2>2. PlaceAt(s, k) = x % RingCap
    BY <2>1 DEF PlaceAt
  <2>3. x % RingCap = IF x < RingCap THEN x ELSE x - RingCap
    BY <2>1, ModIs
  <2>4. PlaceAt(s, k) = IF x < RingCap THEN x ELSE x - RingCap
    BY <2>2, <2>3
  <2> QED BY <1>1, <1>2, <2>1, <2>4 DEF Slots
<1>5. \A k \in 1 .. s.count : PlaceAt(s, k) \in Slots
  BY <1>1, <1>2, <1>4 DEF Slots
<1>6. s.count < RingCap => \A k \in 1 .. s.count : PlaceAt(s, k) # s.head
  BY <1>1, <1>2, <1>3, <1>4 DEF Slots
<1>7. PlaceAt(s, s.count + 1) = s.head
  <2>1. s.tail + (s.count + 1) - 1 = s.tail + s.count
    BY <1>1, <1>2 DEF Slots
  <2> QED BY <2>1 DEF PlaceAt, Whole
<1> QED BY <1>1, <1>5, <1>6, <1>7

\* The lines that wait in a ring.
LEMMA PendingIs ==
  ASSUME NEW s, Whole(s)
  PROVE  /\ Direct!Pending(s) \in Seq(Nat \X Nat) /\ Len(Direct!Pending(s)) = s.count
         /\ \A k \in 1 .. s.count : Direct!Pending(s)[k] = s.slots[PlaceAt(s, k)]
<1>1. s.count \in Nat /\ s.slots \in [Slots -> Nat \X Nat]
  BY RingOKs DEF Whole, RingStates
<1>2. \A k \in 1 .. s.count : s.slots[PlaceAt(s, k)] \in Nat \X Nat
  BY <1>1, AtIs
<1>3. Direct!Pending(s) = [k \in 1 .. s.count |-> s.slots[PlaceAt(s, k)]]
  BY DEF Direct!Pending, PlaceAt
<1>4. Direct!Pending(s) \in [1 .. s.count -> Nat \X Nat]
  BY <1>2, <1>3, Zenon
<1>5. ASSUME NEW n \in Nat, NEW f \in [1 .. n -> Nat \X Nat]
      PROVE  f \in Seq(Nat \X Nat) /\ Len(f) = n
  OBVIOUS
<1>6. Direct!Pending(s) \in Seq(Nat \X Nat) /\ Len(Direct!Pending(s)) = s.count
  BY <1>1, <1>4, <1>5, Zenon
<1> QED BY <1>3, <1>6, Zenon

\* Worker w has finished the lines 1 .. m: those of them in the file o, in the
\* ring s and in the set d of dropped lines; what is in the ring comes after what
\* is in the file.
RingAccount(s, w, m, o, d) ==
  /\ Whole(s)
  /\ \A k \in 1 .. s.count : Direct!Pending(s)[k][1] = w
  /\ \A j, k \in 1 .. s.count : j < k => Direct!Pending(s)[j][2] < Direct!Pending(s)[k][2]
  /\ \A l \in In(o) : l[1] = w => \A k \in 1 .. s.count : l[2] < Direct!Pending(s)[k][2]
  /\ \A n \in Nat : <<w, n>> \in In(o) \cup In(Direct!Pending(s)) \cup d <=> n \in 1 .. m

\* The lines of each worker are in the file in their order.
Ordered(o) ==
  \A j, k \in 1 .. Len(o) : j < k /\ o[j][1] = o[k][1] => o[j][2] < o[k][2]

\* The account of a ring depends on its lines alone.
LEMMA SameLines ==
  ASSUME NEW s, NEW t, NEW w, NEW m, NEW o, NEW d, RingAccount(s, w, m, o, d), Whole(t),
         t.count = s.count, \A k \in 1 .. s.count : t.slots[PlaceAt(t, k)] = s.slots[PlaceAt(s, k)]
  PROVE  RingAccount(t, w, m, o, d)
<1>1. Direct!Pending(t) = Direct!Pending(s)
  BY Zenon DEF Direct!Pending, PlaceAt
<1> QED BY <1>1, Zenon DEF RingAccount

\* A line is stored in the slot of the head.
LEMMA StoreInRing ==
  ASSUME NEW s, NEW w, NEW m, NEW o, NEW d, RingAccount(s, w, m, o, d), s.count < RingCap,
         NEW x \in Nat \X Nat
  PROVE  LET t == [s EXCEPT !.slots[s.head] = x]
         IN  /\ RingAccount(t, w, m, o, d) /\ t.slots[t.head] = x
             /\ t.head = s.head /\ t.count = s.count
<1> DEFINE t == [s EXCEPT !.slots[s.head] = x]
<1>1. Whole(s) /\ s \in RingStates /\ s.head \in Slots
  BY DEF RingAccount, Whole, RingStates
<1>2. /\ t \in RingStates /\ t.head = s.head /\ t.count = s.count /\ t.tail = s.tail
      /\ t.slots = [s.slots EXCEPT ![s.head] = x]
  BY <1>1 DEF RingStates
<1> HIDE DEF t
<1>3. Whole(t)
  BY <1>1, <1>2 DEF Whole
<1>4. \A k \in 1 .. s.count : PlaceAt(t, k) = PlaceAt(s, k) /\ PlaceAt(s, k) \in Slots /\ PlaceAt(s, k) # s.head
  BY <1>1, <1>2, AtIs DEF PlaceAt
<1>5. s.slots \in [Slots -> Nat \X Nat]
  BY <1>1 DEF RingStates
<1>6. \A k \in 1 .. s.count : t.slots[PlaceAt(t, k)] = s.slots[PlaceAt(s, k)]
  BY <1>2, <1>4, <1>5
<1>7. t.slots[t.head] = x
  BY <1>1, <1>2, <1>5
<1>8. RingAccount(t, w, m, o, d)
  BY <1>2, <1>3, <1>6, SameLines
<1> QED BY <1>2, <1>7, <1>8 DEF t

\* The head and the count of a ring move on.
LEMMA CountedIsWhole ==
  ASSUME NEW s, Whole(s), s.count < RingCap
  PROVE  LET t == Direct!Counted(s)
         IN  /\ Whole(t) /\ t.count = s.count + 1 /\ t.tail = s.tail /\ t.slots = s.slots
<1> DEFINE t == Direct!Counted(s)
<1>1. s \in RingStates /\ s.head \in Slots /\ s.tail \in Slots /\ s.count \in 0 .. RingCap
  BY DEF Whole, RingStates
<1>2. RingCap \in Nat /\ RingCap > 1
  BY RingOKs
<1>3. PICK x \in Nat : x = s.tail + s.count /\ x + 1 < 2 * RingCap
  BY <1>1, <1>2 DEF Slots
<1>4. s.head = IF x < RingCap THEN x ELSE x - RingCap
  <2>1. s.head = x % RingCap
    BY <1>3 DEF Whole
  <2>2. x % RingCap = IF x < RingCap THEN x ELSE x - RingCap
    BY <1>2, <1>3, ModIs
  <2> QED BY <2>1, <2>2
<1>5. (s.head + 1) % RingCap = (x + 1) % RingCap
  <2>1. s.head + 1 \in Nat /\ s.head + 1 < 2 * RingCap
    BY <1>1, <1>2 DEF Slots
  <2>2. (s.head + 1) % RingCap = IF s.head + 1 < RingCap THEN s.head + 1 ELSE s.head + 1 - RingCap
    <3>1. PICK y \in Nat : y = s.head + 1
      BY <2>1
    <3>2. y % RingCap = IF y < RingCap THEN y ELSE y - RingCap
      BY <2>1, <3>1, ModIs
    <3> QED BY <1>1, <1>2, <3>1, <3>2 DEF Slots
  <2>3. (x + 1) % RingCap = IF x + 1 < RingCap THEN x + 1 ELSE x + 1 - RingCap
    <3>1. PICK y \in Nat : y = x + 1
      OBVIOUS
    <3>2. y % RingCap = IF y < RingCap THEN y ELSE y - RingCap
      BY <1>3, <3>1, ModIs
    <3> QED BY <1>2, <3>1, <3>2
  <2> QED BY <1>1, <1>2, <1>3, <1>4, <2>2, <2>3 DEF Slots
<1>6. (s.head + 1) % RingCap \in Slots /\ s.count + 1 \in 0 .. RingCap
  BY <1>1, <1>2 DEF Slots
<1>7. t \in RingStates
  BY <1>1, <1>6 DEF RingStates, Direct!Counted
<1>8. /\ t.head = (s.head + 1) % RingCap /\ t.count = s.count + 1 /\ t.tail = s.tail
      /\ t.slots = s.slots
  BY <1>1 DEF RingStates, Direct!Counted
<1> HIDE DEF t
<1>9. t.tail + t.count = x + 1
  BY <1>1, <1>2, <1>3, <1>8 DEF Slots
<1>10. Whole(t)
  BY <1>5, <1>7, <1>8, <1>9 DEF Whole
<1> QED BY <1>8, <1>10 DEF t

\* The stored line is counted.
LEMMA CountInRing ==
  ASSUME NEW s, NEW w \in Nat, NEW m \in Nat, NEW o \in Seq(Nat \X Nat), NEW d,
         RingAccount(s, w, m, o, d), s.count < RingCap, s.slots[s.head] = <<w, m + 1>>
  PROVE  RingAccount(Direct!Counted(s), w, m + 1, o, d)
<1> DEFINE t == Direct!Counted(s)
           p == Direct!Pending(s)
           q == Direct!Pending(t)
<1>1. Whole(s) /\ Whole(t) /\ t.count = s.count + 1 /\ t.tail = s.tail /\ t.slots = s.slots
  BY CountedIsWhole DEF RingAccount
<1>2. s.count \in Nat /\ t.count \in Nat
  BY <1>1, RingOKs, AtIs
<1>3. \A k \in 1 .. t.count : q[k] = t.slots[PlaceAt(t, k)]
  BY <1>1, PendingIs
<1>4. \A k \in 1 .. s.count : p[k] = s.slots[PlaceAt(s, k)]
  BY <1>1, PendingIs
<1>5. p \in Seq(Nat \X Nat) /\ Len(p) = s.count /\ Len(q) = t.count
  BY <1>1, PendingIs
<1>6. PlaceAt(s, s.count + 1) = s.head
  BY <1>1, AtIs
<1>7. \A k : PlaceAt(t, k) = PlaceAt(s, k)
  BY <1>1 DEF PlaceAt
<1> HIDE DEF t, p, q
<1>8. \A k \in 1 .. s.count : k \in 1 .. t.count /\ q[k] = p[k]
  <2>1. \A k \in 1 .. s.count : k \in 1 .. t.count
    BY <1>1, <1>2
  <2> QED BY <1>1, <1>3, <1>4, <1>7, <2>1, Zenon
<1>9. t.count \in 1 .. t.count /\ q[t.count] = <<w, m + 1>>
  BY <1>1, <1>2, <1>3, <1>6, <1>7
<1>10. \A k \in 1 .. t.count : k \in 1 .. s.count \/ k = t.count
  BY <1>1, <1>2
<1>11. In(q) = In(p) \cup {<<w, m + 1>>}
  <2>1. \A x : x \in In(q) <=> \E k \in 1 .. t.count : x = q[k]
    BY <1>5, Zenon DEF In
  <2>2. \A x : x \in In(p) <=> \E k \in 1 .. s.count : x = p[k]
    BY <1>5, Zenon DEF In
  <2>3. ASSUME NEW x \in In(q) PROVE x \in In(p) \cup {<<w, m + 1>>}
    <3>1. PICK k \in 1 .. t.count : x = q[k]
      BY <2>1
    <3>2. CASE k \in 1 .. s.count
      BY <1>8, <2>2, <3>1, <3>2, Zenon
    <3>3. CASE k = t.count
      BY <1>9, <3>1, <3>3, Zenon
    <3> QED BY <1>10, <3>2, <3>3, Zenon
  <2>4. ASSUME NEW x \in In(p) PROVE x \in In(q)
    BY <1>8, <2>1, <2>2, Zenon
  <2>5. <<w, m + 1>> \in In(q)
    BY <1>9, <2>1, Zenon
  <2> QED BY <2>3, <2>4, <2>5, Zenon
<1>12. \A n \in Nat : <<w, n>> \in In(o) \cup In(p) \cup d <=> n \in 1 .. m
  BY Zenon DEF RingAccount, p
<1>13. \A k \in 1 .. s.count : p[k] = <<w, p[k][2]>> /\ p[k][2] \in Nat /\ p[k][2] < m + 1
  <2> TAKE k \in 1 .. s.count
  <2>1. p[k] \in Nat \X Nat /\ p[k][1] = w
    BY <1>5 DEF RingAccount, p
  <2>2. p[k] = <<w, p[k][2]>> /\ p[k][2] \in Nat /\ p[k] \in In(p)
    BY <1>5, <2>1 DEF In
  <2>3. p[k][2] \in 1 .. m
    BY <1>12, <2>2
  <2> QED BY <2>2, <2>3
<1>14. ASSUME NEW n \in Nat PROVE <<w, n>> \in In(o) \cup In(q) \cup d <=> n \in 1 .. m + 1
  <2>1. <<w, n>> = <<w, m + 1>> <=> n = m + 1
    OBVIOUS
  <2>2. n \in 1 .. m + 1 <=> n \in 1 .. m \/ n = m + 1
    OBVIOUS
  <2> QED BY <1>11, <1>12, <2>1, <2>2, Zenon
<1>15. ASSUME NEW k \in 1 .. t.count PROVE q[k][1] = w
  <2>1. CASE k \in 1 .. s.count
    <3>1. q[k] = p[k] /\ p[k][1] = w
      BY <1>8, <2>1, Zenon DEF RingAccount, p
    <3> QED BY <3>1
  <2>2. CASE k = t.count
    BY <1>9, <2>2
  <2> QED BY <1>10, <2>1, <2>2
<1>16. ASSUME NEW j \in 1 .. t.count, NEW k \in 1 .. t.count, j < k PROVE q[j][2] < q[k][2]
  <2>1. j \in 1 .. s.count
    BY <1>1, <1>2, <1>16
  <2>2. CASE k \in 1 .. s.count
    <3>1. p[j][2] < p[k][2]
      BY <1>16, <2>1, <2>2, Zenon DEF RingAccount, p
    <3> QED BY <1>8, <2>1, <2>2, <3>1
  <2>3. CASE k = t.count
    BY <1>8, <1>9, <1>13, <2>1, <2>3
  <2> QED BY <1>10, <2>2, <2>3
<1>17. ASSUME NEW l \in In(o), l[1] = w, NEW k \in 1 .. t.count PROVE l[2] < q[k][2]
  <2>1. CASE k \in 1 .. s.count
    <3>1. l[2] < p[k][2]
      BY <1>17, <2>1, Zenon DEF RingAccount, p
    <3> QED BY <1>8, <2>1, <3>1
  <2>2. CASE k = t.count
    <3>1. l \in Nat \X Nat
      BY DEF In
    <3>2. l = <<w, l[2]>> /\ l[2] \in Nat
      BY <1>17, <3>1
    <3>3. l[2] \in 1 .. m
      BY <1>12, <3>2
    <3> QED BY <1>9, <2>2, <3>3
  <2> QED BY <1>10, <2>1, <2>2
<1>18. RingAccount(t, w, m + 1, o, d)
  BY <1>1, <1>14, <1>15, <1>16, <1>17, Zenon DEF RingAccount, q
<1> QED BY <1>18 DEF t

\* The lines of a ring leave it.
LEMMA FlushedIsWhole ==
  ASSUME NEW s, Whole(s)
  PROVE  LET t == Direct!Flushed(s)
         IN  Whole(t) /\ t.count = 0 /\ t.head = s.head
<1> DEFINE t == Direct!Flushed(s)
<1>1. s \in RingStates /\ s.head \in Slots /\ s.head = (s.tail + s.count) % RingCap
  BY DEF Whole, RingStates
<1>2. RingCap \in Nat /\ RingCap > 1
  BY RingOKs
<1>3. (s.head + 0) % RingCap = s.head
  BY <1>1, <1>2 DEF Slots
<1>4. 0 \in 0 .. RingCap
  BY <1>2
<1>5. t = [s EXCEPT !.tail = s.head, !.count = 0, !.first = "none"]
  BY <1>1 DEF Direct!Flushed
<1> HIDE DEF t
<1>6. t \in RingStates /\ t.head = s.head /\ t.tail = s.head /\ t.count = 0
  BY <1>1, <1>4, <1>5 DEF RingStates
<1>7. Whole(t)
  BY <1>3, <1>6 DEF Whole
<1> QED BY <1>6, <1>7 DEF t

LEMMA FlushRingAccount ==
  ASSUME NEW s, NEW w, NEW m, NEW o \in Seq(Nat \X Nat), NEW d, RingAccount(s, w, m, o, d)
  PROVE  /\ RingAccount(Direct!Flushed(s), w, m, o \o Direct!Pending(s), d)
         /\ RingAccount(Direct!Flushed(s), w, m, o, d \cup In(Direct!Pending(s)))
<1> DEFINE t == Direct!Flushed(s)
           p == Direct!Pending(s)
           q == Direct!Pending(t)
           a == o \o p
<1>1. Whole(s) /\ Whole(t) /\ t.count = 0
  BY FlushedIsWhole DEF RingAccount
<1>2. p \in Seq(Nat \X Nat) /\ Len(q) = 0
  BY <1>1, PendingIs
<1>3. In(a) = In(o) \cup In(p)
  BY <1>2, InConcat
<1>4. In(q) = {} /\ 1 .. 0 = {}
  BY <1>2 DEF In
<1>5. \A n \in Nat : <<w, n>> \in In(o) \cup In(p) \cup d <=> n \in 1 .. m
  BY Zenon DEF RingAccount
<1> HIDE DEF t, p, q, a
<1>6. \A n \in Nat : <<w, n>> \in In(a) \cup In(q) \cup d <=> n \in 1 .. m
  BY <1>3, <1>4, <1>5, Zenon
<1>7. \A n \in Nat : <<w, n>> \in In(o) \cup In(q) \cup (d \cup In(p)) <=> n \in 1 .. m
  BY <1>4, <1>5, Zenon
<1>8. RingAccount(t, w, m, a, d)
  BY <1>1, <1>4, <1>6, Zenon DEF RingAccount, q
<1>9. RingAccount(t, w, m, o, d \cup In(p))
  BY <1>1, <1>4, <1>7, Zenon DEF RingAccount, q
<1> QED BY <1>8, <1>9 DEF t, p, a

\* The lines of another worker change nothing.
LEMMA OtherLines ==
  ASSUME NEW s, NEW v, NEW w, v # w, NEW m, NEW o \in Seq(Nat \X Nat), NEW d,
         RingAccount(s, v, m, o, d), NEW q \in Seq(Nat \X Nat), \A l \in In(q) : l[1] = w
  PROVE  /\ RingAccount(s, v, m, o \o q, d)
         /\ RingAccount(s, v, m, o, d \cup In(q))
<1> DEFINE a == o \o q
<1>1. In(a) = In(o) \cup In(q)
  BY InConcat
<1>2. \A l \in In(q) : l[1] # v
  OBVIOUS
<1>3. \A n \in Nat : <<v, n>> \notin In(q)
  <2> TAKE n \in Nat
  <2>1. <<v, n>>[1] = v
    OBVIOUS
  <2> QED BY <1>2, <2>1, Zenon
<1> HIDE DEF a
<1>4. RingAccount(s, v, m, a, d)
  BY <1>1, <1>2, <1>3, Zenon DEF RingAccount
<1>5. RingAccount(s, v, m, o, d \cup In(q))
  BY <1>3, Zenon DEF RingAccount
<1> QED BY <1>4, <1>5 DEF a

LEMMA OtherDropped ==
  ASSUME NEW s, NEW v, NEW w, v # w, NEW m, NEW o, NEW d, NEW x \in Nat,
         RingAccount(s, v, m, o, d)
  PROVE  RingAccount(s, v, m, o, d \cup {<<w, x>>})
<1>1. \A n \in Nat : <<v, n>> # <<w, x>>
  OBVIOUS
<1> QED BY <1>1, Zenon DEF RingAccount

LEMMA DropAccount ==
  ASSUME NEW s, NEW w, NEW m \in Nat, NEW o, NEW d, RingAccount(s, w, m, o, d)
  PROVE  RingAccount(s, w, m + 1, o, d \cup {<<w, m + 1>>})
<1>1. \A n \in Nat : <<w, n>> = <<w, m + 1>> <=> n = m + 1
  OBVIOUS
<1>2. \A n \in Nat : n \in 1 .. m + 1 <=> n \in 1 .. m \/ n = m + 1
  OBVIOUS
<1> QED BY <1>1, <1>2, Zenon DEF RingAccount

\* The lines of a ring follow those of the file.
LEMMA FlushOrdered ==
  ASSUME NEW s, NEW w, NEW m, NEW o \in Seq(Nat \X Nat), NEW d, RingAccount(s, w, m, o, d),
         Ordered(o)
  PROVE  Ordered(o \o Direct!Pending(s))
<1> DEFINE p == Direct!Pending(s)
           a == o \o p
           i == Len(o)
           n == Len(p)
<1>1. p \in Seq(Nat \X Nat) /\ n = s.count
  BY PendingIs DEF RingAccount
<1>2. Len(a) = i + n /\ i \in Nat /\ n \in Nat
  BY <1>1, ConcatIs
<1>3. \A k \in 1 .. i : a[k] = o[k] /\ o[k] \in In(o)
  BY <1>1, ConcatIs DEF In
<1>4. \A k \in 1 .. n : a[i + k] = p[k]
  BY <1>1, ConcatIs
<1>5. \A k \in 1 .. n : p[k][1] = w
  BY <1>1, Zenon DEF RingAccount
<1>6. \A j, k \in 1 .. n : j < k => p[j][2] < p[k][2]
  BY <1>1, Zenon DEF RingAccount
<1>7. \A l \in In(o) : l[1] = w => \A k \in 1 .. n : l[2] < p[k][2]
  BY <1>1, Zenon DEF RingAccount
<1>8. \A j, k \in 1 .. i : j < k /\ o[j][1] = o[k][1] => o[j][2] < o[k][2]
  BY Zenon DEF Ordered
<1> HIDE DEF a, p, i, n
<1>9. ASSUME NEW j \in 1 .. i + n, NEW k \in 1 .. i + n, j < k, a[j][1] = a[k][1]
      PROVE  a[j][2] < a[k][2]
  <2>1. CASE k \in 1 .. i
    <3>1. j \in 1 .. i
      BY <1>2, <1>9, <2>1
    <3> QED BY <1>3, <1>8, <1>9, <2>1, <3>1
  <2>2. CASE k \notin 1 .. i
    <3>1. k - i \in 1 .. n /\ i + (k - i) = k
      BY <1>2, <2>2
    <3>2. a[k] = p[k - i]
      BY <1>4, <3>1
    <3>3. CASE j \in 1 .. i
      <4>1. a[j] = o[j] /\ o[j] \in In(o) /\ o[j][1] = w
        BY <1>3, <1>5, <1>9, <3>1, <3>2, <3>3
      <4> QED BY <1>7, <3>1, <3>2, <4>1
    <3>4. CASE j \notin 1 .. i
      <4>1. j - i \in 1 .. n /\ i + (j - i) = j /\ j - i < k - i
        BY <1>2, <1>9, <3>4
      <4>2. a[j] = p[j - i]
        BY <1>4, <4>1
      <4> QED BY <1>6, <3>1, <3>2, <4>1, <4>2
    <3> QED BY <3>3, <3>4
  <2> QED BY <2>1, <2>2
<1> QED BY <1>2, <1>9 DEF Ordered, a, p

-----------------------------------------------------------------------------
(* The steps of the workers that write their lines themselves *)

\* A line is a pair of a worker and a number.
Filed == /\ direct_written \in Seq(Nat \X Nat) /\ Ordered(direct_written)
         /\ In(direct_written) \subseteq Pairs /\ direct_dropped \subseteq Pairs

DirectTyped ==
  /\ st \in [Writers -> RingStates]
  /\ filling \in [Writers -> 0 .. RingCap]
  /\ direct_offered \in [Writers -> 0 .. RingMax]

\* The lines that a worker has finished: all but the one that it has stored and
\* not counted.
Finished(w) == IF filling[w] # RingCap THEN direct_offered[w] - 1 ELSE direct_offered[w]

\* That line is in the slot of the head of a ring with room for it.
LineOK(w) ==
  /\ RingAccount(st[w], w, Finished(w), direct_written, direct_dropped)
  /\ filling[w] # RingCap =>
       /\ direct_offered[w] # 0 /\ st[w].count < RingCap
       /\ st[w].slots[st[w].head] = <<w, direct_offered[w]>>

DirectInv == DirectTyped /\ Filed /\ \A w \in Writers : LineOK(w)

LEMMA OwnRing ==
  ASSUME NEW w \in Writers
  PROVE  Direct!RingOf(w) = w /\ w \in Nat
  BY RingOKs DEF Direct!RingOf, Writers

LEMMA PendingOwn ==
  ASSUME NEW s, NEW w \in Writers, NEW m, NEW o, NEW d, RingAccount(s, w, m, o, d)
  PROVE  /\ Direct!Pending(s) \in Seq(Nat \X Nat)
         /\ \A l \in In(Direct!Pending(s)) : l[1] = w /\ l \in Pairs
<1> DEFINE p == Direct!Pending(s)
<1>1. p \in Seq(Nat \X Nat) /\ Len(p) = s.count
  BY PendingIs DEF RingAccount
<1>2. \A k \in 1 .. s.count : p[k][1] = w
  BY Zenon DEF RingAccount
<1> HIDE DEF p
<1>3. ASSUME NEW k \in 1 .. Len(p) PROVE p[k][1] = w /\ p[k] \in Pairs
  <2>1. p[k] \in Nat \X Nat /\ p[k][1] = w
    BY <1>1, <1>2
  <2> QED BY <2>1 DEF Pairs
<1>4. \A l \in In(p) : l[1] = w /\ l \in Pairs
  BY <1>3 DEF In
<1> QED BY <1>1, <1>4 DEF p

\* access_log_direct_flush_state writes or drops the lines of ring r, which has
\* become s.
LEMMA FlushStep ==
  ASSUME DirectTyped, Filed, NEW r \in Writers, NEW s, NEW m,
         RingAccount(s, r, m, direct_written, direct_dropped),
         \A v \in Writers : v # r => LineOK(v),
         Direct!access_log_direct_flush_state(r, s)
  PROVE  /\ Filed' /\ st' \in [Writers -> RingStates]
         /\ RingAccount(st'[r], r, m, direct_written', direct_dropped')
         /\ st'[r].head = s.head /\ st'[r].slots = s.slots
         /\ s.count < RingCap => st'[r].count < RingCap
         /\ \A v \in Writers : v # r =>
              /\ st'[v] = st[v]
              /\ RingAccount(st[v], v, Finished(v), direct_written', direct_dropped')
<1> DEFINE p == Direct!Pending(s)
           o == direct_written
           d == direct_dropped
<1>1. Whole(s) /\ s \in RingStates /\ RingCap \in Nat /\ RingCap > 1
  BY RingOKs DEF RingAccount, Whole
<1>2. p \in Seq(Nat \X Nat) /\ \A l \in In(p) : l[1] = r /\ l \in Pairs
  BY PendingOwn
<1>3. /\ o \in Seq(Nat \X Nat) /\ Ordered(o) /\ In(o) \subseteq Pairs /\ d \subseteq Pairs
  BY DEF Filed
<1>4. \A v \in Writers : v # r => RingAccount(st[v], v, Finished(v), o, d)
  BY DEF LineOK
<1>5. CASE s.count = 0
  <2>1. st' = [st EXCEPT ![r] = s] /\ direct_written' = o /\ direct_dropped' = d
    BY <1>5 DEF Direct!access_log_direct_flush_state
  <2>2. st' \in [Writers -> RingStates] /\ st'[r] = s /\ \A v \in Writers : v # r => st'[v] = st[v]
    BY <1>1, <2>1 DEF DirectTyped
  <2> QED BY <1>3, <1>4, <2>1, <2>2 DEF Filed
<1>6. CASE s.count # 0
  <2> DEFINE t == Direct!Flushed(s)
  <2>1. /\ st' = [st EXCEPT ![r] = t]
        /\ \/ direct_written' = o \o p /\ direct_dropped' = d
           \/ direct_written' = o /\ direct_dropped' = d \cup Direct!Range(p)
    BY <1>6 DEF Direct!access_log_direct_flush_state, Direct!WriteLines
  <2>2. Whole(t) /\ t.count = 0 /\ t.head = s.head /\ t.slots = s.slots /\ t \in RingStates
    <3>1. Whole(t) /\ t.count = 0 /\ t.head = s.head
      BY <1>1, FlushedIsWhole
    <3>2. t.slots = s.slots
      BY <1>1 DEF Direct!Flushed, RingStates
    <3> QED BY <3>1, <3>2 DEF Whole
  <2>3. Direct!Range(p) = In(p)
    BY <1>2 DEF Direct!Range, In
  <2>4. /\ RingAccount(t, r, m, o \o p, d) /\ RingAccount(t, r, m, o, d \cup In(p))
        /\ Ordered(o \o p)
    BY <1>3, FlushRingAccount, FlushOrdered
  <2>5. o \o p \in Seq(Nat \X Nat) /\ In(o \o p) = In(o) \cup In(p)
    BY <1>2, <1>3, InConcat
  <2>6. ASSUME NEW v \in Writers, v # r
        PROVE  /\ RingAccount(st[v], v, Finished(v), o \o p, d)
               /\ RingAccount(st[v], v, Finished(v), o, d \cup In(p))
    BY <1>2, <1>3, <1>4, <2>6, OtherLines
  <2> HIDE DEF t, p, o, d
  <2>7. st' \in [Writers -> RingStates] /\ st'[r] = t /\ \A v \in Writers : v # r => st'[v] = st[v]
    BY <2>1, <2>2 DEF DirectTyped
  <2>8. In(p) \subseteq Pairs
    BY <1>2
  <2>11. t.count < RingCap
    BY <2>2, RingOKs
  <2>9. CASE direct_written' = o \o p /\ direct_dropped' = d
    <3>1. Filed'
      <4>1. In(o) \subseteq Pairs /\ d \subseteq Pairs
        BY <1>3
      <4>2. In(o \o p) \subseteq Pairs
        BY <2>5, <2>8, <4>1, Zenon
      <4> QED BY <2>4, <2>5, <2>9, <4>1, <4>2, Zenon DEF Filed
    <3> QED BY <2>2, <2>4, <2>6, <2>7, <2>9, <2>11, <3>1, Zenon
  <2>10. CASE direct_written' = o /\ direct_dropped' = d \cup In(p)
    <3>1. Filed'
      <4>1. o \in Seq(Nat \X Nat) /\ Ordered(o) /\ In(o) \subseteq Pairs /\ d \subseteq Pairs
        BY <1>3
      <4>2. d \cup In(p) \subseteq Pairs
        BY <2>8, <4>1, Zenon
      <4> QED BY <2>10, <4>1, <4>2, Zenon DEF Filed
    <3> QED BY <2>2, <2>4, <2>6, <2>7, <2>10, <2>11, <3>1, Zenon
  <2> QED BY <2>1, <2>3, <2>9, <2>10
<1> QED BY <1>5, <1>6

\* A flush of a ring outside access_log_direct_append.
LEMMA FlushKeeps ==
  ASSUME DirectInv, NEW r \in Writers, Direct!access_log_direct_flush_state(r, st[r]),
         UNCHANGED <<filling, direct_offered>>
  PROVE  DirectInv'
<1>1. DirectTyped /\ Filed /\ \A w \in Writers : LineOK(w)
  BY DEF DirectInv
<1>2. RingAccount(st[r], r, Finished(r), direct_written, direct_dropped)
  BY <1>1 DEF LineOK
<1>3. /\ Filed' /\ st' \in [Writers -> RingStates]
      /\ RingAccount(st'[r], r, Finished(r), direct_written', direct_dropped')
      /\ st'[r].head = st[r].head /\ st'[r].slots = st[r].slots
      /\ st[r].count < RingCap => st'[r].count < RingCap
      /\ \A v \in Writers : v # r =>
           /\ st'[v] = st[v]
           /\ RingAccount(st[v], v, Finished(v), direct_written', direct_dropped')
  BY <1>1, <1>2, FlushStep
<1>4. \A v \in Writers : Finished(v)' = Finished(v)
  BY DEF Finished
<1>5. DirectTyped'
  BY <1>1, <1>3 DEF DirectTyped
<1>6. ASSUME NEW v \in Writers PROVE LineOK(v)'
  <2>1. CASE v = r
    BY <1>1, <1>3, <1>4, <2>1 DEF LineOK
  <2>2. CASE v # r
    BY <1>1, <1>3, <1>4, <2>2 DEF LineOK
  <2> QED BY <2>1, <2>2
<1> QED BY <1>3, <1>5, <1>6 DEF DirectInv

\* access_log_direct_append stores a line, or cannot format it.
LEMMA StoreLineKeeps ==
  ASSUME DirectInv, NEW w \in Writers, filling[w] = RingCap, direct_offered[w] < RingMax,
         st[w].count < RingCap, Direct!StoreLine(w, w)
  PROVE  DirectInv'
<1> DEFINE n == direct_offered[w]
           x == <<w, n + 1>>
           t == [st[w] EXCEPT !.slots[st[w].head] = x]
<1>1. DirectTyped /\ Filed /\ \A v \in Writers : LineOK(v)
  BY DEF DirectInv
<1>2. n \in Nat /\ n + 1 \in 0 .. RingMax /\ n + 1 # 0 /\ w \in Nat /\ x \in Pairs
      /\ x \in Nat \X Nat
  BY <1>1, RingOKs DEF DirectTyped, Writers, Pairs
<1>3. /\ direct_offered' = [direct_offered EXCEPT ![w] = n + 1]
      /\ direct_written' = direct_written
      /\ \/ /\ st' = [st EXCEPT ![w] = t]
            /\ filling' = [filling EXCEPT ![w] = st[w].head]
            /\ direct_dropped' = direct_dropped
         \/ /\ direct_dropped' = direct_dropped \cup {x} /\ st' = st /\ filling' = filling
  BY DEF Direct!StoreLine
<1>4. RingAccount(st[w], w, n, direct_written, direct_dropped)
  BY <1>1 DEF LineOK, Finished
<1>5. /\ direct_offered' \in [Writers -> 0 .. RingMax] /\ direct_offered'[w] = n + 1
      /\ \A v \in Writers : v # w => direct_offered'[v] = direct_offered[v]
  BY <1>1, <1>2, <1>3 DEF DirectTyped
<1>6. CASE /\ st' = [st EXCEPT ![w] = t]
           /\ filling' = [filling EXCEPT ![w] = st[w].head]
           /\ direct_dropped' = direct_dropped
  <2>1. /\ RingAccount(t, w, n, direct_written, direct_dropped) /\ t.slots[t.head] = x
        /\ t.head = st[w].head /\ t.count = st[w].count
    BY <1>2, <1>4, StoreInRing
  <2> HIDE DEF t, x
  <2>2. t \in RingStates /\ st[w].head \in 0 .. RingCap /\ st[w].head # RingCap
    <3>1. t \in RingStates
      BY <2>1 DEF RingAccount, Whole
    <3>2. t.head \in Slots
      BY <3>1, Zenon DEF RingStates
    <3> QED BY <2>1, <3>1, <3>2, SlotBelow, Zenon
  <2>3. /\ st' \in [Writers -> RingStates] /\ st'[w] = t
        /\ \A v \in Writers : v # w => st'[v] = st[v]
    BY <1>1, <1>6, <2>2 DEF DirectTyped
  <2>4. /\ filling' \in [Writers -> 0 .. RingCap] /\ filling'[w] # RingCap
        /\ \A v \in Writers : v # w => filling'[v] = filling[v]
    BY <1>1, <1>6, <2>2 DEF DirectTyped
  <2>5. Finished(w)' = n
    BY <1>2, <1>5, <2>4 DEF Finished
  <2>6. LineOK(w)'
    <3>1. RingAccount(st'[w], w, Finished(w)', direct_written', direct_dropped')
      BY <1>3, <1>6, <2>1, <2>3, <2>5
    <3>2. st'[w].count < RingCap /\ st'[w].slots[st'[w].head] = <<w, direct_offered'[w]>>
      BY <1>5, <2>1, <2>3 DEF x
    <3> QED BY <1>2, <1>5, <3>1, <3>2 DEF LineOK
  <2>7. ASSUME NEW v \in Writers, v # w PROVE LineOK(v)'
    <3>1. Finished(v)' = Finished(v)
      BY <1>5, <2>4, <2>7 DEF Finished
    <3> QED BY <1>1, <1>3, <1>5, <1>6, <2>3, <2>4, <2>7, <3>1 DEF LineOK
  <2> QED BY <1>1, <1>3, <1>5, <1>6, <2>3, <2>4, <2>6, <2>7 DEF DirectInv, DirectTyped, Filed
<1>7. CASE direct_dropped' = direct_dropped \cup {x} /\ st' = st /\ filling' = filling
  <2>1. RingAccount(st[w], w, n + 1, direct_written, direct_dropped \cup {x})
    BY <1>2, <1>4, DropAccount
  <2>2. Finished(w)' = n + 1
    BY <1>5, <1>7 DEF Finished
  <2>3. LineOK(w)'
    BY <1>3, <1>7, <2>1, <2>2 DEF LineOK
  <2>4. ASSUME NEW v \in Writers, v # w PROVE LineOK(v)'
    <3>1. Finished(v)' = Finished(v)
      BY <1>5, <1>7, <2>4 DEF Finished
    <3>2. RingAccount(st[v], v, Finished(v), direct_written, direct_dropped \cup {x})
      BY <1>1, <1>2, <2>4, OtherDropped DEF LineOK
    <3> QED BY <1>1, <1>3, <1>5, <1>7, <2>4, <3>1, <3>2 DEF LineOK
  <2>5. Filed'
    BY <1>1, <1>2, <1>3, <1>7 DEF Filed
  <2>6. DirectTyped'
    BY <1>1, <1>5, <1>7 DEF DirectTyped
  <2> QED BY <2>3, <2>4, <2>5, <2>6 DEF DirectInv
<1> QED BY <1>3, <1>6, <1>7

LEMMA FillSlotKeeps ==
  ASSUME DirectInv, NEW w \in Writers, Direct!FillSlot(w)
  PROVE  DirectInv'
<1>1. Direct!RingOf(w) = w
  BY OwnRing
<1>2. filling[w] = RingCap /\ direct_offered[w] < RingMax
  BY DEF Direct!FillSlot
<1>3. CASE st[w].count >= RingCap
  <2>1. /\ Direct!access_log_direct_flush_state(w, st[w])
        /\ UNCHANGED <<filling, direct_offered>>
    BY <1>1, <1>3 DEF Direct!FillSlot
  <2> QED BY <2>1, FlushKeeps
<1>4. CASE ~(st[w].count >= RingCap)
  <2>1. Direct!StoreLine(w, w)
    BY <1>1, <1>4 DEF Direct!FillSlot
  <2>2. st[w].count < RingCap
    BY <1>4, RingOKs DEF DirectInv, DirectTyped, RingStates
  <2> QED BY <1>2, <2>1, <2>2, StoreLineKeeps
<1> QED BY <1>3, <1>4

LEMMA CountLineKeeps ==
  ASSUME DirectInv, NEW w \in Writers, Direct!CountLine(w)
  PROVE  DirectInv'
<1> DEFINE n == direct_offered[w]
           s == Direct!Counted(st[w])
<1>1. DirectTyped /\ Filed /\ \A v \in Writers : LineOK(v)
  BY DEF DirectInv
<1>2. Direct!RingOf(w) = w /\ w \in Nat
  BY OwnRing
<1>3. /\ filling[w] # RingCap /\ filling' = [filling EXCEPT ![w] = RingCap]
      /\ direct_offered' = direct_offered
      /\ \/ Direct!access_log_direct_flush_state(w, s)
         \/ st' = [st EXCEPT ![w] = s] /\ UNCHANGED <<direct_written, direct_dropped>>
  BY <1>2 DEF Direct!CountLine
<1>4. /\ RingAccount(st[w], w, n - 1, direct_written, direct_dropped) /\ n # 0
      /\ st[w].count < RingCap /\ st[w].slots[st[w].head] = <<w, n>>
  BY <1>1, <1>3 DEF LineOK, Finished
<1>5. n \in Nat /\ n - 1 \in Nat /\ (n - 1) + 1 = n
  <2>1. n \in 0 .. RingMax /\ RingMax \in Nat /\ n # 0
    BY <1>1, <1>4, RingOKs, Zenon DEF DirectTyped
  <2> HIDE DEF n, s
  <2> QED BY <2>1
<1>6. direct_written \in Seq(Nat \X Nat)
  BY <1>1 DEF Filed
<1>7. RingAccount(s, w, n, direct_written, direct_dropped)
  <2>1. RingAccount(s, w, (n - 1) + 1, direct_written, direct_dropped)
    BY <1>2, <1>4, <1>5, <1>6, CountInRing
  <2> QED BY <1>5, <2>1
<1>8. /\ filling' \in [Writers -> 0 .. RingCap] /\ filling'[w] = RingCap
      /\ \A v \in Writers : v # w => filling'[v] = filling[v]
  BY <1>1, <1>3, RingOKs DEF DirectTyped
<1> HIDE DEF s
<1>9. /\ Filed' /\ st' \in [Writers -> RingStates]
      /\ RingAccount(st'[w], w, n, direct_written', direct_dropped')
      /\ \A v \in Writers : v # w =>
           /\ st'[v] = st[v]
           /\ RingAccount(st[v], v, Finished(v), direct_written', direct_dropped')
  <2>1. CASE Direct!access_log_direct_flush_state(w, s)
    BY <1>1, <1>7, <2>1, FlushStep
  <2>2. CASE st' = [st EXCEPT ![w] = s] /\ UNCHANGED <<direct_written, direct_dropped>>
    <3>1. s \in RingStates
      BY <1>7 DEF RingAccount, Whole
    <3> QED BY <1>1, <1>7, <2>2, <3>1 DEF DirectTyped, Filed, LineOK
  <2> QED BY <1>3, <2>1, <2>2
<1>10. DirectTyped'
  BY <1>1, <1>3, <1>8, <1>9 DEF DirectTyped
<1>11. LineOK(w)'
  BY <1>3, <1>8, <1>9 DEF LineOK, Finished
<1>12. ASSUME NEW v \in Writers, v # w PROVE LineOK(v)'
  <2>1. Finished(v)' = Finished(v)
    BY <1>3, <1>8, <1>12 DEF Finished
  <2> QED BY <1>1, <1>3, <1>8, <1>9, <1>12, <2>1 DEF LineOK
<1> QED BY <1>9, <1>10, <1>11, <1>12 DEF DirectInv

\* The time passes.
LEMMA ElapseKeeps ==
  ASSUME DirectInv, NEW r \in Writers, Direct!Elapse(r)
  PROVE  DirectInv'
<1> DEFINE t == [st[r] EXCEPT !.first = "old"]
<1>1. DirectTyped /\ Filed /\ \A v \in Writers : LineOK(v)
  BY DEF DirectInv
<1>2. /\ st' = [st EXCEPT ![r] = t]
      /\ UNCHANGED <<filling, direct_offered, direct_written, direct_dropped>>
  BY DEF Direct!Elapse
<1>3. st[r] \in RingStates
  BY <1>1 DEF DirectTyped
<1>4. /\ t \in RingStates /\ t.head = st[r].head /\ t.tail = st[r].tail /\ t.count = st[r].count
      /\ t.slots = st[r].slots
  BY <1>3 DEF RingStates
<1> HIDE DEF t
<1>5. RingAccount(t, r, Finished(r), direct_written, direct_dropped)
  <2>1. RingAccount(st[r], r, Finished(r), direct_written, direct_dropped)
    BY <1>1 DEF LineOK
  <2>2. Whole(t)
    BY <1>4, <2>1 DEF RingAccount, Whole
  <2>3. \A k \in 1 .. st[r].count : t.slots[PlaceAt(t, k)] = st[r].slots[PlaceAt(st[r], k)]
    BY <1>4 DEF PlaceAt
  <2> QED BY <1>4, <2>1, <2>2, <2>3, SameLines
<1>6. /\ st' \in [Writers -> RingStates] /\ st'[r] = t
      /\ \A v \in Writers : v # r => st'[v] = st[v]
  BY <1>1, <1>2, <1>4 DEF DirectTyped
<1>7. ASSUME NEW v \in Writers PROVE LineOK(v)'
  <2>1. Finished(v)' = Finished(v)
    BY <1>2 DEF Finished
  <2>2. CASE v = r
    BY <1>1, <1>2, <1>4, <1>5, <1>6, <2>1, <2>2 DEF LineOK
  <2>3. CASE v # r
    BY <1>1, <1>2, <1>6, <2>1, <2>3 DEF LineOK
  <2> QED BY <2>2, <2>3
<1> QED BY <1>1, <1>2, <1>6, <1>7 DEF DirectInv, DirectTyped, Filed

LEMMA DirectInit == Direct!Init => DirectInv
<1> SUFFICES ASSUME Direct!Init PROVE DirectInv
  OBVIOUS
<1>1. /\ st = [r \in Writers |-> Direct!NewRing] /\ filling = [w \in Writers |-> RingCap]
      /\ direct_offered = [w \in Writers |-> 0] /\ direct_written = <<>> /\ direct_dropped = {}
  BY DEF Direct!Init, Direct!Rings, Direct!Workers, Writers
<1>2. RingCap \in Nat /\ RingCap > 1 /\ RingMax \in Nat
  BY RingOKs
<1> DEFINE s == Direct!NewRing
<1>3. s \in RingStates /\ s.head = 0 /\ s.tail = 0 /\ s.count = 0
  <2>1. 0 \in Slots /\ 0 \in 0 .. RingCap /\ <<0, 0>> \in Nat \X Nat
    BY <1>2 DEF Slots
  <2> QED BY <2>1 DEF Direct!NewRing, Direct!NoLine, RingStates, Slots
<1>4. Whole(s)
  <2>1. (0 + 0) % RingCap = 0
    BY <1>2
  <2> QED BY <1>3, <2>1 DEF Whole
<1> HIDE DEF s
<1>5. DirectTyped
  BY <1>1, <1>2, <1>3 DEF DirectTyped, s
<1>6. Filed
  <2> DEFINE z == <<>>
  <2>1. z \in Seq(Nat \X Nat) /\ In(z) = {} /\ Len(z) = 0
    BY InEmpty
  <2>2. Ordered(z)
    BY <2>1 DEF Ordered
  <2> HIDE DEF z
  <2>3. direct_written = z
    BY <1>1 DEF z
  <2> QED BY <1>1, <2>1, <2>2, <2>3 DEF Filed
<1>7. ASSUME NEW w \in Writers PROVE LineOK(w)
  <2>1. st[w] = s /\ filling[w] = RingCap /\ Finished(w) = 0
    BY <1>1 DEF Finished, s
  <2>2. Len(Direct!Pending(s)) = 0
    BY <1>3, <1>4, PendingIs
  <2>3. In(Direct!Pending(s)) = {} /\ In(direct_written) = {} /\ 1 .. 0 = {}
    BY <1>1, <2>2, InEmpty DEF In
  <2>4. RingAccount(s, w, 0, direct_written, direct_dropped)
    BY <1>1, <1>3, <1>4, <2>3, Zenon DEF RingAccount
  <2> QED BY <2>1, <2>4 DEF LineOK
<1> QED BY <1>5, <1>6, <1>7 DEF DirectInv

LEMMA DirectSame ==
  ASSUME DirectInv, UNCHANGED <<st, filling, direct_offered, direct_written, direct_dropped>>
  PROVE  DirectInv'
<1>1. \A w \in Writers : LineOK(w)'
  BY DEF DirectInv, LineOK, Finished
<1> QED BY <1>1 DEF DirectInv, DirectTyped, Filed

LEMMA DirectNext == DirectInv /\ Direct!Next => DirectInv'
<1> SUFFICES ASSUME DirectInv, Direct!Next PROVE DirectInv'
  OBVIOUS
<1>1. ASSUME NEW w \in Writers, Direct!FillSlot(w) PROVE DirectInv'
  BY <1>1, FillSlotKeeps
<1>2. ASSUME NEW w \in Writers, Direct!CountLine(w) PROVE DirectInv'
  BY <1>2, CountLineKeeps
<1>3. ASSUME NEW w \in Writers, Direct!access_log_direct_maybe_flush_shard(w) PROVE DirectInv'
  <2>1. /\ Direct!access_log_direct_flush_state(w, st[w])
        /\ UNCHANGED <<filling, direct_offered>>
    BY <1>3, OwnRing DEF Direct!access_log_direct_maybe_flush_shard
  <2> QED BY <2>1, FlushKeeps
<1>4. ASSUME NEW r \in Writers, Direct!FlushRing(r) PROVE DirectInv'
  <2>1. /\ Direct!access_log_direct_flush_state(r, st[r])
        /\ UNCHANGED <<filling, direct_offered>>
    BY <1>4 DEF Direct!FlushRing
  <2> QED BY <2>1, FlushKeeps
<1>5. ASSUME NEW r \in Writers, Direct!Elapse(r) PROVE DirectInv'
  BY <1>5, ElapseKeeps
<1>6. CASE Direct!Stop \/ Direct!End
  <2>1. UNCHANGED <<st, filling, direct_offered, direct_written, direct_dropped>>
    BY <1>6, Zenon DEF Direct!Stop, Direct!End
  <2> QED BY <2>1, DirectSame
<1> QED BY <1>1, <1>2, <1>3, <1>4, <1>5, <1>6
        DEF Direct!Next, Direct!Poll, Direct!Workers, Direct!Rings, Writers

\* What the invariant says of the lines.
LEMMA DirectLines == DirectInv => Direct!NoLineLost
<1> SUFFICES ASSUME DirectInv PROVE Direct!NoLineLost
  OBVIOUS
<1> DEFINE o == direct_written
           d == direct_dropped
<1>1. DirectTyped /\ Filed /\ \A v \in Writers : LineOK(v)
  BY DEF DirectInv
<1>2. o \in Seq(Nat \X Nat) /\ Ordered(o) /\ In(o) \subseteq Pairs /\ d \subseteq Pairs
      /\ DOMAIN o = 1 .. Len(o)
  BY <1>1 DEF Filed
<1>3. Direct!Range(o) = In(o)
  BY <1>2 DEF Direct!Range, In
<1>4. ASSUME NEW w \in Writers
      PROVE  /\ Direct!Range(Direct!Pending(st[w])) = In(Direct!Pending(st[w]))
             /\ \A l \in In(Direct!Pending(st[w])) : l[1] = w /\ l \in Pairs
  <2>1. RingAccount(st[w], w, Finished(w), o, d)
    BY <1>1 DEF LineOK
  <2>2. /\ Direct!Pending(st[w]) \in Seq(Nat \X Nat)
        /\ \A l \in In(Direct!Pending(st[w])) : l[1] = w /\ l \in Pairs
    BY <2>1, PendingOwn
  <2>3. ASSUME NEW q \in Seq(Nat \X Nat) PROVE Direct!Range(q) = In(q)
    <3>1. DOMAIN q = 1 .. Len(q)
      OBVIOUS
    <3> QED BY <3>1, Zenon DEF Direct!Range, In
  <2> QED BY <2>2, <2>3
<1>5. ASSUME NEW l
      PROVE  l \in Direct!AllPending <=> \E w \in Writers : l \in In(Direct!Pending(st[w]))
  <2>1. \A w \in Writers : Direct!Range(Direct!Pending(st[w])) = In(Direct!Pending(st[w]))
    BY <1>4
  <2>2. l \in Direct!AllPending <=> \E w \in Writers : l \in Direct!Range(Direct!Pending(st[w]))
    BY Zenon DEF Direct!AllPending, Direct!Rings, Writers
  <2> QED BY <2>1, <2>2, Zenon
<1> HIDE DEF o, d
<1>6. ASSUME NEW w \in Writers, NEW n \in Nat
      PROVE  <<w, n>> \in In(o) \cup Direct!AllPending \cup d <=> n \in 1 .. Finished(w)
  <2>1. <<w, n>> \in In(o) \cup In(Direct!Pending(st[w])) \cup d <=> n \in 1 .. Finished(w)
    BY <1>1, Zenon DEF LineOK, RingAccount, o, d
  <2>2. ASSUME NEW v \in Writers, <<w, n>> \in In(Direct!Pending(st[v])) PROVE v = w
    <3>1. <<w, n>>[1] = v
      BY <1>4, <2>2, Zenon
    <3> QED BY <3>1
  <2> QED BY <1>5, <2>1, <2>2, Zenon
<1>7. ASSUME NEW w \in Writers, NEW n \in Nat
      PROVE  <<w, n>> \in Direct!CountedLines <=> n \in 1 .. Finished(w)
  <2>1. direct_offered[w] \in 0 .. RingMax /\ RingMax \in Nat
    BY <1>1, RingOKs DEF DirectTyped
  <2>2. filling[w] # RingCap => direct_offered[w] # 0
    BY <1>1 DEF LineOK
  <2>3. <<w, n>> \in Direct!CountedLines <=>
          /\ n \in 1 .. RingMax /\ n <= direct_offered[w]
          /\ ~(n = direct_offered[w] /\ filling[w] # RingCap)
    BY DEF Direct!CountedLines, Direct!Lines, Direct!Workers, Writers
  <2>4. CASE filling[w] = RingCap
    BY <2>1, <2>3, <2>4 DEF Finished
  <2>5. CASE filling[w] # RingCap
    BY <2>1, <2>2, <2>3, <2>5 DEF Finished
  <2> QED BY <2>4, <2>5
<1>8. Direct!CountedLines \subseteq Pairs
  BY RingOKs DEF Direct!CountedLines, Direct!Lines, Direct!Workers, Pairs, Writers
<1>9. Direct!AllPending \subseteq Pairs
  BY <1>4, <1>5, Zenon
<1>10. Direct!CountedLines = In(o) \cup Direct!AllPending \cup d
  <2>1. \A l \in Pairs : \E w \in Writers, n \in Nat : l = <<w, n>>
    BY DEF Pairs
  <2>2. \A l \in Pairs : l \in Direct!CountedLines <=> l \in In(o) \cup Direct!AllPending \cup d
    <3> SUFFICES ASSUME NEW l \in Pairs
                 PROVE  l \in Direct!CountedLines <=> l \in In(o) \cup Direct!AllPending \cup d
      OBVIOUS
    <3>1. PICK w \in Writers, n \in Nat : l = <<w, n>>
      BY <2>1
    <3> QED BY <1>6, <1>7, <3>1
  <2> QED BY <1>2, <1>8, <1>9, <2>2, Zenon
<1>11. \A j, k \in DOMAIN o : j < k /\ o[j][1] = o[k][1] => o[j][2] < o[k][2]
  BY <1>2, Zenon DEF Ordered
<1> QED BY <1>3, <1>10, <1>11, Zenon DEF Direct!NoLineLost, o, d

-----------------------------------------------------------------------------
\* No line of the access log is lost or written twice, and the lines of a worker
\* are in the file in their order, in either mode, with any number of workers and
\* rings of any size, also when lines cannot be formatted or written: the writer
\* thread against access_log_enqueue, and access_log_direct_append with
\* access_log_direct_flush_state.
THEOREM LinesAreKept == LogSpec => []NoLineLost
<1> DEFINE Inv == QueueInv /\ DirectInv
<1>1. LogInit => Inv
  BY QueueInit, DirectInit DEF LogInit
<1>2. Inv /\ [LogNext]_<<queue, rings>> => Inv'
  <2> SUFFICES ASSUME Inv, [LogNext]_<<queue, rings>> PROVE Inv'
    OBVIOUS
  <2>1. ASSUME UNCHANGED rings PROVE DirectInv'
    BY <2>1, DirectSame DEF rings
  <2>2. CASE Queue!Next /\ UNCHANGED rings
    BY <2>1, <2>2, QueueNext
  <2>3. CASE Direct!Next /\ UNCHANGED queue
    BY <2>3, DirectNext, QueueSame
  <2>4. CASE UNCHANGED <<queue, rings>>
    BY <2>1, <2>4, QueueSame
  <2> QED BY <2>2, <2>3, <2>4 DEF LogNext
<1>3. Inv => NoLineLost
  BY QueueLines, DirectLines DEF NoLineLost
<1> QED BY <1>1, <1>2, <1>3, PTL DEF LogSpec
=============================================================================
