----------------------------- MODULE TimingWheel -----------------------------
(***************************************************************************)
(* The timing wheel of a worker and the sweep timer that turns it.  What   *)
(* determines a connection's deadline and what its expiry does is the      *)
(* subject of Conn and ConnHandlers; here a connection has a deadline, or  *)
(* none, and lies in the bucket that tw_slot_for chose.  The order within  *)
(* a bucket does not matter.                                               *)
(***************************************************************************)
EXTENDS Naturals, Sequences, FiniteSets, FiniteSetsExt

CONSTANTS
  Conns,
  Slots,          \* TW_SLOTS
  TickMs,         \* TW_TICK_MS
  Timeouts,       \* how far ahead deadlines are set
  MaxLag,         \* how late the loop handles a completion or submits an entry
  MaxNow,         \* the end of time
  Garbage         \* what else the kernel may find where the time to wait was

ConstantsOK ==
  /\ Slots \in Nat \ {0} /\ TickMs \in Nat \ {0} /\ Timeouts \subseteq Nat
  /\ MaxLag \in Nat /\ MaxNow \in Nat /\ Garbage \subseteq Nat

VARIABLES
  now,                     \* the monotonic clock
  tw_now_tick,
  next_tick_deadline_ms,
  wheel,                   \* [Conns -> the connection's place in the wheel]
  sweep                    \* the sweep timer

vars == <<now, tw_now_tick, next_tick_deadline_ms, wheel, sweep>>

\* set_ms is the time at which the deadline was set.
Absent == [active |-> FALSE, slot |-> 0, deadline_ms |-> 0, set_ms |-> 0]

\* The sweep timer is staged for submission, with the time it has to wait, or
\* runs until a time; either since a time.
Staged(delta) == [at |-> "staged", ms |-> delta, since |-> now]
Running(end) == [at |-> "running", ms |-> end, since |-> end]

\* tw_init, and the first timer, which is submitted at once.
Init ==
  /\ now = 0
  /\ tw_now_tick = 0
  /\ next_tick_deadline_ms = TickMs
  /\ wheel = [c \in Conns |-> Absent]
  /\ sweep = Running(TickMs)

tw_slot_for(tick, deadline) ==
  (tick + (IF deadline > now THEN (deadline - now) \div TickMs ELSE 0)) % Slots

tw_insert_internal(tick, deadline, set) ==
  [active |-> TRUE, slot |-> tw_slot_for(tick, deadline), deadline_ms |-> deadline, set_ms |-> set]

\* tw_reschedule for a connection with a deadline.
tw_reschedule(c) ==
  /\ \E t \in Timeouts :
       wheel' = [wheel EXCEPT ![c] = tw_insert_internal(tw_now_tick, now + t, now)]
  /\ UNCHANGED <<now, tw_now_tick, next_tick_deadline_ms, sweep>>

\* tw_reschedule for one without, and tw_cancel.
tw_cancel(c) ==
  /\ wheel[c].active
  /\ wheel' = [wheel EXCEPT ![c] = Absent]
  /\ UNCHANGED <<now, tw_now_tick, next_tick_deadline_ms, sweep>>

-----------------------------------------------------------------------------
\* tw_process_tick, at tick: the bucket is taken off the wheel and the tick
\* counted before any connection goes back.  An expired connection leaves the
\* wheel unless it is among those that still have the same deadline after the
\* action, like one whose close is in flight while it writes.
tw_process_tick(tick, conns, still) ==
  [c \in Conns |->
    IF ~(conns[c].active /\ conns[c].slot = tick % Slots) THEN conns[c]
    ELSE IF now < conns[c].deadline_ms
         THEN tw_insert_internal(tick + 1, conns[c].deadline_ms, conns[c].set_ms)
         ELSE IF c \in still THEN tw_insert_internal(tick + 1, conns[c].deadline_ms, now)
              ELSE Absent]

\* How many ticks OP_SWEEP catches up with.
TicksDueOne == IF next_tick_deadline_ms > now THEN 0 ELSE 1
TicksDue ==
  IF next_tick_deadline_ms > now THEN 0
  ELSE (now - next_tick_deadline_ms) \div TickMs + 1

Sweep ==
  /\ sweep.at = "running" /\ sweep.ms <= now
  /\ LET next == next_tick_deadline_ms + TicksDue * TickMs
         delta == IF next > now THEN next - now ELSE TickMs
     IN  /\ \E still \in SUBSET Conns :
              LET after[n \in 0 .. TicksDue] ==
                    IF n = 0 THEN wheel
                    ELSE tw_process_tick(tw_now_tick + n - 1, after[n - 1], still)
              IN  wheel' = after[TicksDue]
         /\ tw_now_tick' = tw_now_tick + TicksDue
         /\ next_tick_deadline_ms' = next
         /\ sweep' = Staged(delta)
  /\ UNCHANGED now

\* The kernel reads the time to wait when the entry is submitted, which is
\* after OP_SWEEP has returned: maybe_flush is not urgent, and the time is in
\* a local variable of the handler.
SubmitSweep ==
  /\ sweep.at = "staged"
  /\ \E delta \in {sweep.ms} \cup Garbage : sweep' = Running(now + delta)
  /\ UNCHANGED <<now, tw_now_tick, next_tick_deadline_ms, wheel>>

\* The clock, as long as the loop is not later than MaxLag.
Elapse ==
  /\ now < MaxNow
  /\ now < sweep.since + MaxLag
  /\ now' = now + 1
  /\ UNCHANGED <<tw_now_tick, next_tick_deadline_ms, wheel, sweep>>

Next ==
  \/ Sweep \/ SubmitSweep \/ Elapse
  \/ \E c \in Conns : tw_reschedule(c) \/ tw_cancel(c)
Spec == Init /\ [][Next]_vars

-----------------------------------------------------------------------------
TypeOK ==
  /\ now \in 0 .. MaxNow /\ tw_now_tick \in Nat /\ next_tick_deadline_ms \in Nat
  /\ wheel \in [Conns -> [active : BOOLEAN, slot : 0 .. Slots - 1, deadline_ms : Nat, set_ms : Nat]]
  /\ sweep \in [at : {"staged", "running"}, ms : Nat, since : Nat]

\* When the wheel will next look at the bucket of a connection.
LookedAt(c) == next_tick_deadline_ms + ((wheel[c].slot + Slots - (tw_now_tick % Slots)) % Slots) * TickMs
Due(c) == Max({wheel[c].deadline_ms, wheel[c].set_ms})

\* The wheel looks at a connection at most one tick after its deadline, also
\* when the wheel is behind the clock, when a deadline is more than a turn of
\* the wheel away and when a connection goes back into the wheel
\* (tw_slot_for, tw_process_tick).
LookedAtInTime == \A c \in Conns : wheel[c].active => LookedAt(c) <= Due(c) + TickMs

\* A deadline is acted on at most one tick after it has passed, apart from how
\* late the loop submits the timer and handles its completion (OP_SWEEP).
ExpiresInTime == \A c \in Conns : wheel[c].active => now <= Due(c) + TickMs + 2 * MaxLag

\* A deadline is not acted on before it has passed: a sweep takes no connection
\* off the wheel whose deadline is in the future, however many ticks it catches
\* up with.
NeverEarly ==
  Sweep => \A c \in Conns : wheel[c].active /\ now < wheel[c].deadline_ms
                               => wheel'[c].active /\ wheel'[c].deadline_ms = wheel[c].deadline_ms
=============================================================================
