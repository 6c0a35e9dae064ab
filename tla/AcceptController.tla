--------------------------- MODULE AcceptController ---------------------------
(***************************************************************************)
(* How a worker keeps its listeners accepting: multishot accepts that are  *)
(* re-armed when they end, a pause with a timer when the process is out of *)
(* descriptors, and the end of accepting when the server drains.           *)
(*                                                                         *)
(* The kernel puts completions into the queue cq; the worker handles them  *)
(* in order.  What a worker does with an accepted descriptor is modelled   *)
(* in Worker.                                                              *)
(***************************************************************************)
EXTENDS Naturals, FiniteSets, Sequences

CONSTANTS
  NumListeners,       \* num_listeners
  SqeMayFail,         \* can get_sqe_batching return NULL?
  MaxCq,              \* bound on the completions that wait
  MaxArmed            \* bound on the accepts of a listener when descriptors run out

ConstantsOK ==
  /\ NumListeners \in Nat \ {0} /\ SqeMayFail \in BOOLEAN
  /\ MaxCq \in Nat \ {0} /\ MaxArmed \in Nat \ {0}

VARIABLES
  kernel_multishot,   \* does the kernel know multishot accept?
  armed,              \* accepts the kernel holds, for each listener and shot
  timers,             \* back-off timers the kernel holds
  cq,                 \* completions the worker has not handled
  accept_multishot, accept_paused, accept_cancel_inflight, accept_backoff_armed,
  is_draining         \* as cached at the start of a batch
vars == <<kernel_multishot, armed, timers, cq, accept_multishot, accept_paused,
          accept_cancel_inflight, accept_backoff_armed, is_draining>>
flags == <<kernel_multishot, accept_multishot, accept_paused, accept_cancel_inflight,
           accept_backoff_armed, is_draining>>

Listeners == 1 .. NumListeners
Shots == {"multi", "single"}
Armed(l) == armed[l]["multi"] + armed[l]["single"]

\* The results of an accept that the worker tells apart: a descriptor, EMFILE
\* or ENFILE, EINVAL or EOPNOTSUPP, ECANCELED, and any other error.
Results == {"ok", "nofile", "inval", "canceled", "other"}
AcceptCqe(l, res, more) == [op |-> "accept", lfd |-> l, res |-> res, more |-> more]
BackoffCqe == [op |-> "backoff"]

\* accept_arm_startup, on an empty submission queue
Init ==
  /\ kernel_multishot \in BOOLEAN
  /\ armed = [l \in Listeners |-> [s \in Shots |-> IF s = "multi" THEN 1 ELSE 0]]
  /\ timers = 0
  /\ cq = <<>>
  /\ accept_multishot = TRUE
  /\ accept_paused = FALSE
  /\ accept_cancel_inflight = FALSE
  /\ accept_backoff_armed = FALSE
  /\ is_draining = FALSE

-----------------------------------------------------------------------------
\* The kernel.

\* An accept completes.  A multishot one goes on after a success, unless the
\* kernel has a reason to end it, and ends with an error.
KernelAccept(l, s, res, more) ==
  /\ armed[l][s] > 0
  /\ Len(cq) < MaxCq
  /\ more => s = "multi" /\ res = "ok"
  /\ (res = "inval") <=> (s = "multi" /\ ~kernel_multishot)
  /\ res = "nofile" => \A k \in Listeners : Armed(k) <= MaxArmed
  /\ armed' = IF more THEN armed ELSE [armed EXCEPT ![l][s] = @ - 1]
  /\ cq' = Append(cq, AcceptCqe(l, res, more))
  /\ UNCHANGED <<timers, flags>>

KernelTimer ==
  /\ timers > 0
  /\ Len(cq) < MaxCq
  /\ timers' = timers - 1
  /\ cq' = Append(cq, BackoffCqe)
  /\ UNCHANGED <<armed, flags>>

-----------------------------------------------------------------------------
\* The worker.  Entries that were had are submitted at once.

Sqe == IF SqeMayFail THEN BOOLEAN ELSE {TRUE}

\* A loop over the listeners that stops at the first entry it cannot have: the
\* number of listeners it served.
Served == IF SqeMayFail THEN 0 .. NumListeners ELSE {NumListeners}

accept_can_rearm == ~accept_paused /\ ~accept_cancel_inflight

\* accept_post_one for the listeners of set L
Posted(L, multishot) ==
  [l \in Listeners |->
     IF l \in L THEN [armed[l] EXCEPT ![IF multishot THEN "multi" ELSE "single"] = @ + 1]
     ELSE armed[l]]

\* accept_maybe_stage_cancel_all, when k cancellations could be staged: the
\* accepts of these listeners end with ECANCELED.
CanceledCqes(k, queue) ==
  LET upto[l \in 0 .. k] ==
        IF l = 0 THEN queue
        ELSE upto[l - 1] \o [i \in 1 .. Armed(l) |-> AcceptCqe(l, "canceled", FALSE)]
  IN  upto[k]
StageCancelAll(k, queue) ==
  IF accept_cancel_inflight
  THEN cq' = queue /\ UNCHANGED <<armed, accept_cancel_inflight>>
  ELSE /\ cq' = CanceledCqes(k, queue)
       /\ armed' = [l \in Listeners |-> IF l <= k THEN [s \in Shots |-> 0] ELSE armed[l]]
       /\ accept_cancel_inflight' = (k = NumListeners)

\* The re-arm that ends most paths of accept_handle_cqe.
RearmDue(c, multishot) == accept_can_rearm /\ (~multishot \/ ~c.more)
Rearm(c, multishot) ==
  /\ IF RearmDue(c, multishot)
     THEN \E ok \in Sqe : armed' = IF ok THEN Posted({c.lfd}, multishot) ELSE armed
     ELSE armed' = armed
  /\ cq' = Tail(cq)
  /\ accept_multishot' = multishot
  /\ UNCHANGED <<kernel_multishot, timers, accept_paused, accept_cancel_inflight, accept_backoff_armed,
                 is_draining>>

IsAccept(res) == cq # <<>> /\ Head(cq).op = "accept" /\ Head(cq).res \in res

\* accept_handle_cqe, without the paths that follow
AcceptRearm ==
  /\ IsAccept({"ok", "other"}) \/ (IsAccept({"canceled"}) /\ ~accept_paused)
  /\ Rearm(Head(cq), accept_multishot)

AcceptDowngrade ==
  /\ IsAccept({"inval"})
  /\ Rearm(Head(cq), FALSE)

AcceptCanceled ==
  /\ IsAccept({"canceled"}) /\ accept_paused
  /\ cq' = Tail(cq)
  /\ UNCHANGED <<armed, timers, flags>>

\* EMFILE or ENFILE, and the back-off timer can be armed.
AcceptPause ==
  /\ IsAccept({"nofile"}) /\ ~accept_backoff_armed
  /\ timers' = timers + 1
  /\ accept_paused' = TRUE
  /\ accept_backoff_armed' = TRUE
  /\ \E k \in Served : StageCancelAll(k, Tail(cq))
  /\ UNCHANGED <<kernel_multishot, accept_multishot, is_draining>>

\* EMFILE or ENFILE with a timer that is armed or cannot be armed.
AcceptNoTimerPauses ==
  /\ IsAccept({"nofile"})
  /\ accept_backoff_armed \/ SqeMayFail
  /\ accept_paused' = TRUE
  /\ cq' = Tail(cq)
  /\ UNCHANGED <<kernel_multishot, armed, timers, accept_multishot, accept_cancel_inflight,
                 accept_backoff_armed, is_draining>>
AcceptNoTimer ==
  /\ IsAccept({"nofile"})
  /\ accept_backoff_armed \/ SqeMayFail
  /\ Rearm(Head(cq), accept_multishot)

IsBackoff == cq # <<>> /\ Head(cq).op = "backoff"

\* accept_handle_backoff
BackoffStale == is_draining
BackoffResume ==
  /\ IsBackoff /\ ~BackoffStale
  /\ accept_backoff_armed' = FALSE
  /\ accept_paused' = FALSE
  /\ accept_cancel_inflight' = FALSE
  /\ \E k \in Served : armed' = Posted(1 .. k, accept_multishot)
  /\ cq' = Tail(cq)
  /\ UNCHANGED <<kernel_multishot, timers, accept_multishot, is_draining>>

BackoffIgnored ==
  /\ IsBackoff /\ BackoffStale
  /\ accept_backoff_armed' = FALSE
  /\ cq' = Tail(cq)
  /\ UNCHANGED <<kernel_multishot, armed, timers, accept_multishot, accept_paused, accept_cancel_inflight,
                 is_draining>>

\* A batch starts after the state of the process changed to draining.
SeeDrain ==
  /\ ~is_draining
  /\ is_draining' = TRUE
  /\ UNCHANGED <<kernel_multishot, armed, timers, cq, accept_multishot, accept_paused,
                 accept_cancel_inflight, accept_backoff_armed>>

\* accept_enter_drain
EnterDrain ==
  /\ is_draining' = TRUE
  /\ accept_paused' = TRUE
  /\ accept_backoff_armed' = FALSE
  /\ \E k \in Served : StageCancelAll(k, cq)
  /\ UNCHANGED <<kernel_multishot, timers, accept_multishot>>

Kernel ==
  \/ \E l \in Listeners, s \in Shots, res \in Results \ {"canceled"}, more \in BOOLEAN :
       KernelAccept(l, s, res, more)
  \/ KernelTimer

HandleCqe ==
  \/ AcceptRearm
  \/ AcceptDowngrade
  \/ AcceptCanceled
  \/ AcceptPause
  \/ AcceptNoTimer
  \/ BackoffResume
  \/ BackoffIgnored

Next == Kernel \/ HandleCqe \/ SeeDrain \/ EnterDrain

Spec == Init /\ [][Next]_vars

\* The worker handles every completion and timers fire.
FairSpec == Spec /\ WF_vars(HandleCqe) /\ WF_vars(KernelTimer)

-----------------------------------------------------------------------------
TypeOK ==
  /\ armed \in [Listeners -> [Shots -> 0 .. MaxArmed + MaxCq]] /\ timers \in Nat
  /\ \A i \in DOMAIN cq : cq[i].op = "accept" => cq[i].lfd \in Listeners /\ cq[i].res \in Results
  /\ {accept_multishot, accept_paused, accept_cancel_inflight, accept_backoff_armed,
      is_draining, kernel_multishot} \subseteq BOOLEAN

BackoffsDue == timers + Cardinality({i \in DOMAIN cq : cq[i].op = "backoff"})
\* Accepts of l that are armed, and ends of accepts that are not yet handled.
AcceptsDue(l) ==
  Armed(l) + Cardinality({i \in DOMAIN cq :
                            cq[i].op = "accept" /\ cq[i].lfd = l /\ ~cq[i].more})

\* A worker that paused for want of descriptors has exactly one back-off timer
\* on its way, even when entries of the submission queue are refused in
\* between ("to avoid getting stuck paused when SQEs are temporarily
\* unavailable", accept_controller.c:302).
PausedWillResume ==
  ~is_draining => /\ BackoffsDue = IF accept_backoff_armed THEN 1 ELSE 0
                  /\ accept_paused <=> accept_backoff_armed

\* Draining is final for accepts: once a draining worker has paused them, no
\* completion that was on its way (a stale timer, a late error, a refused
\* cancellation) makes it accept again (accept_handle_backoff, accept_can_rearm).
DrainIsFinal ==
  is_draining /\ accept_paused =>
    accept_paused' /\ \A l \in Listeners : Armed(l)' <= Armed(l)

\* While submission-queue entries can be had, a listener of a worker that is
\* not paused is served by exactly one accept: none is forgotten by a pause and
\* none is doubled by the re-arms that follow cancellations and errors.  One
\* that is paused is served by none.
OneAcceptPerListener ==
  ~SqeMayFail => \A l \in Listeners :
    IF accept_paused THEN Armed(l) = 0 ELSE AcceptsDue(l) = 1

\* README.md:46, "when the system runs out of file descriptors, new accepts are
\* paused briefly and retried automatically".
PausedIsRetried ==
  \A l \in Listeners : accept_paused ~> (Armed(l) > 0 \/ is_draining)
=============================================================================
