-------------------------------- MODULE Conn --------------------------------
(***************************************************************************)
(* One plaintext connection of a lamseryn worker, and what the C functions *)
(* that change it do to it.                                                *)
(*                                                                         *)
(* A connection is a record.  Most fields are members of struct conn and   *)
(* keep their C names; the others describe the world around it:            *)
(*   live            the structure is in use, not on the freelist          *)
(*   key             descriptor under which conn_store maps to it, or NoFd *)
(*   sock            descriptor under which the kernel holds its socket    *)
(*   rd, wr, pl, cl  recv, send, POLLOUT and close operations whose        *)
(*                   completion the kernel still owes the worker           *)
(*   room            free space in the socket's send buffer                *)
(*   shut            its write side was shut down                          *)
(*   counted         its share of the process-wide active_conns counter    *)
(*   stray           a descriptor a send was posted on after the           *)
(*                   connection had given that descriptor up               *)
(*                                                                         *)
(* A handler runs to completion on the worker's single thread, so what a C *)
(* function does is an operator from the connection it gets to the set of  *)
(* connections it may leave.  More than one outcome comes from the         *)
(* environment: a submission-queue entry that get_sqe may fail to return,  *)
(* the bytes that arrived, the result of a system call.                    *)
(*                                                                         *)
(* Sizes are abstract: a response is MaxSend pieces, a file MaxFile        *)
(* pieces, a socket's send buffer SndBuf pieces, and the stash, which is   *)
(* as large as a receive buffer, StashCap pieces.                          *)
(***************************************************************************)
EXTENDS Integers

CONSTANTS
  Fds,            \* descriptors the process may be given for a connection
  MaxSend,        \* pieces of a staged response
  MaxFile,        \* pieces of a file body sent with sendfile
  SndBuf,         \* pieces the kernel buffers for a peer that is not reading
  StashCap,       \* capacity of the receive stash (RBUF_SZ)
  SqeMayFail,     \* can get_sqe return NULL after its retry?
  StashMayFail    \* can rx_stash_alloc run out of memory?

ASSUME FdsAssumption == Fds \subseteq Nat
ASSUME SizeAssumption ==
  /\ MaxSend \in Nat \ {0} /\ MaxFile \in Nat
  /\ SndBuf \in Nat \ {0} /\ StashCap \in Nat \ {0}
ASSUME EnvAssumption == SqeMayFail \in BOOLEAN /\ StashMayFail \in BOOLEAN

NoFd == -1
FdOrNone == Fds \cup {NoFd}

DeadlineKind ==
  {"NONE", "INITIAL_IDLE", "KA_IDLE", "HEADER", "BODY", "WRITE", "DRAIN"}

\* How far the parser is in the current request: nothing received, inside the
\* headers, inside the body, complete (message_done), or refused (parse_error,
\* unsupported_te or body_too_big).
Phase == {"start", "header", "body", "done", "error"}

\* The response kinds that tx_after_full_response tells apart.
RespKind == {"NONE", "OTHER", "431", "503"}

ConnRec == [
  live : BOOLEAN, refcnt : Nat, fd : FdOrNone,
  key : FdOrNone, sock : FdOrNone, stray : FdOrNone,
  rd : Nat, wr : Nat, pl : Nat, cl : Nat,
  room : 0 .. SndBuf, shut : BOOLEAN, counted : Int,
  closing : BOOLEAN, draining : BOOLEAN, ka_idle : BOOLEAN,
  write_start : BOOLEAN, deadline_kind : DeadlineKind,
  deadline_active : BOOLEAN,
  phase : Phase, too_big : BOOLEAN, noselect_streak : Nat,
  stash : 0 .. StashCap,
  resp_kind : RespKind, write_buf : BOOLEAN, write_rem : 0 .. MaxSend,
  file_rem : 0 .. MaxFile, keepalive : BOOLEAN,
  drain_after_headers : BOOLEAN, write_poll_armed : BOOLEAN,
  recv_armed : BOOLEAN ]

\* The structure as it lies on the freelist.  conn_alloc zeroes it before the
\* next use, so its remaining contents are never read.
Blank == [
  live |-> FALSE, refcnt |-> 0, fd |-> NoFd,
  key |-> NoFd, sock |-> NoFd, stray |-> NoFd,
  rd |-> 0, wr |-> 0, pl |-> 0, cl |-> 0,
  room |-> 0, shut |-> FALSE, counted |-> 0,
  closing |-> FALSE, draining |-> FALSE, ka_idle |-> FALSE,
  write_start |-> FALSE, deadline_kind |-> "NONE", deadline_active |-> FALSE,
  phase |-> "start", too_big |-> FALSE, noselect_streak |-> 0, stash |-> 0,
  resp_kind |-> "NONE", write_buf |-> FALSE, write_rem |-> 0, file_rem |-> 0,
  keepalive |-> FALSE, drain_after_headers |-> FALSE,
  write_poll_armed |-> FALSE, recv_armed |-> FALSE ]

\* get_sqe_batching, get_sqe_retry_once: was an entry obtained?
Sqe == IF SqeMayFail THEN BOOLEAN ELSE {TRUE}

-----------------------------------------------------------------------------
\* Deadlines: conn_deadline.c and the part of timing_wheel.c that decides
\* which deadline a connection has.  The wheel itself is not modelled here: an
\* armed deadline may expire at any later step.

ClosingNoDeadline(c) == c.closing /\ ~c.draining

WriteInProgress(c) ==
  c.write_start /\ ((c.write_buf /\ c.write_rem > 0) \/ c.file_rem > 0)

\* tw_conn_get_state, as the kind tw_compute_conn_deadline stores for it.  A
\* refused request is closing or draining, so its phase never matters here.
ConnDeadlineKind(c) ==
  IF c.fd = NoFd THEN "NONE"
  ELSE IF c.draining THEN "DRAIN"
  ELSE IF c.closing THEN (IF WriteInProgress(c) THEN "WRITE" ELSE "NONE")
  ELSE IF c.ka_idle /\ c.phase = "start" THEN "KA_IDLE"
  ELSE IF ~c.ka_idle /\ c.phase = "start" THEN "INITIAL_IDLE"
  ELSE IF ~c.ka_idle /\ c.phase = "header" THEN "HEADER"
  ELSE IF ~c.ka_idle /\ c.phase = "body" THEN "BODY"
  ELSE IF WriteInProgress(c) THEN "WRITE"
  ELSE "NONE"

TwReschedule(c) ==
  [c EXCEPT !.deadline_kind = ConnDeadlineKind(c),
            !.deadline_active = (ConnDeadlineKind(c) # "NONE")]

TwCancel(c) == [c EXCEPT !.deadline_kind = "NONE", !.deadline_active = FALSE]

MarkActivity(c) == [c EXCEPT !.ka_idle = FALSE]

PrepareCloseKeepsDeadline(c) == [c EXCEPT !.closing = TRUE]
PrepareCloseAfterSend(c) == TwCancel([c EXCEPT !.closing = TRUE])

ArmWriteUnscheduled(c) == [c EXCEPT !.write_start = TRUE]
ArmWriteTimeout(c) == TwReschedule([c EXCEPT !.write_start = TRUE])

ClearWriteTimeout(c) ==
  IF c.write_start THEN TwReschedule([c EXCEPT !.write_start = FALSE]) ELSE c

Prepare431Draining(c) == TwReschedule([c EXCEPT !.draining = TRUE])

-----------------------------------------------------------------------------
\* References, operations in flight, and the end of a connection.

\* conn_recycle: the structure goes to the freelist, whatever the kernel and
\* the store still think of it.
Recycle(c) ==
  [Blank EXCEPT !.key = c.key, !.sock = c.sock, !.stray = c.stray,
                !.rd = c.rd, !.wr = c.wr, !.pl = c.pl, !.cl = c.cl,
                !.counted = c.counted]

ConnPut(c) ==
  IF c.refcnt = 1 THEN Recycle(c) ELSE [c EXCEPT !.refcnt = @ - 1]

PostRecvPtr(c) ==
  IF c.fd = NoFd \/ ClosingNoDeadline(c) \/ c.recv_armed
  THEN {c}
  ELSE {IF ok THEN [c EXCEPT !.refcnt = @ + 1, !.rd = @ + 1,
                             !.recv_armed = TRUE]
        ELSE c : ok \in Sqe}

\* conn_ref and io_uring_prep_send on descriptor f.
PostSendUnreferenced(c, f) ==
  [c EXCEPT !.wr = @ + 1, !.stray = IF c.fd = f THEN @ ELSE f]
PostSend(c, f) ==
  [c EXCEPT !.refcnt = @ + 1, !.wr = @ + 1,
            !.stray = IF c.fd = f THEN @ ELSE f]

\* worker_loop_cancel_write_poll_if_armed: the poll's completion still comes.
CancelWritePoll(c) ==
  IF c.write_poll_armed
  THEN {[c EXCEPT !.write_poll_armed = ~ok] : ok \in Sqe}
  ELSE {c}

\* The connection gives up its descriptor, its entry in conn_store and its
\* share of active_conns.
DetachKeepsFd(c) == [c EXCEPT !.key = NoFd, !.counted = @ - 1]
DetachUncounted(c) == [c EXCEPT !.fd = NoFd, !.key = NoFd]
Detach(c) == [c EXCEPT !.fd = NoFd, !.key = NoFd, !.counted = @ - 1]

\* schedule_or_sync_close.  The references it takes and drops are summed up:
\* a synchronous close drops the store's reference, an asynchronous one hands
\* it to the close operation.
ScheduleOrSyncClose(c, abortive) ==
  LET dk == c.deadline_kind
      marked == [TwCancel(c) EXCEPT !.closing = TRUE, !.file_rem = 0]
      detached == Detach(marked)
      sync == {ConnPut([d EXCEPT !.sock = NoFd]) :
                 d \in CancelWritePoll(detached)}
      async == {[d EXCEPT !.cl = @ + 1] : d \in CancelWritePoll(detached)}
      starved == {ConnPut([detached EXCEPT !.sock = NoFd])}
  IN  IF c.key = NoFd THEN {c}
      ELSE IF c.fd = NoFd
        THEN {[marked EXCEPT !.key = NoFd, !.counted = @ - 1]}
      ELSE IF dk \in {"INITIAL_IDLE", "KA_IDLE", "DRAIN"} \/ abortive
        THEN sync
      ELSE UNION {IF ok THEN async ELSE starved : ok \in Sqe}

Close(c) == ScheduleOrSyncClose(c, FALSE)

-----------------------------------------------------------------------------
\* Transmit state (tx.c).

TxReset(c) ==
  [c EXCEPT !.file_rem = 0, !.write_buf = FALSE, !.write_rem = 0,
            !.resp_kind = "NONE", !.write_poll_armed = FALSE,
            !.keepalive = FALSE, !.drain_after_headers = FALSE,
            !.recv_armed = FALSE]

TxBeginKeepsAlive(c, kind, ka, dah) ==
  [c EXCEPT !.resp_kind = kind, !.write_buf = TRUE, !.write_rem = MaxSend,
            !.keepalive = TRUE, !.drain_after_headers = dah]
TxBeginHeaders(c, kind, ka, dah) ==
  [c EXCEPT !.resp_kind = kind, !.write_buf = TRUE, !.write_rem = MaxSend,
            !.keepalive = ka, !.drain_after_headers = dah]

TxDiscard(c) == [c EXCEPT !.write_buf = FALSE, !.write_rem = 0]

TxPendingHeaders(c) == c.write_buf /\ c.write_rem > 0

-----------------------------------------------------------------------------
\* From a parsed request to a response that is on its way.  f is the
\* descriptor the handler read from the connection when it started; drain is
\* the worker's is_draining flag.

\* stage_header_response_send; no caller asks for keep-alive.  When the policy
\* headers cannot be built the response becomes a closing 500.
StageHeaderResponseSend(c, f, drain, kind, dah, close_after_send) ==
  LET Staged(k, d, close) ==
        LET b == TxBeginHeaders(c, k, FALSE, d)
        IN  PostSend(IF close \/ drain THEN PrepareCloseAfterSend(b) ELSE b, f)
  IN  {Staged(kind, dah, close_after_send), Staged("OTHER", FALSE, TRUE)}

\* A response that the request handlers put in the transmit buffer, with file
\* pieces of a file behind it, and stage_tx_buffer_send.
StageTxBufferSend(c, f, ka, file) ==
  PostSend([TxBeginHeaders(c, "OTHER", ka, FALSE) EXCEPT !.file_rem = file], f)

\* The responses that request_dispatch_ok may have put there.
TxBufferResponses(c, f, drain) ==
  UNION {{StageTxBufferSend(c, f, ka, file) : file \in {0, MaxFile}} :
           ka \in IF drain THEN {FALSE} ELSE BOOLEAN}

\* request_dispatch_ok and the staging of what it chose.
DispatchOk(c, f, drain) ==
  TxBufferResponses(c, f, drain)
  \cup StageHeaderResponseSend(c, f, drain, "OTHER", FALSE, TRUE)

\* http_pipeline_classify_action
ClassifyAction(c) ==
  IF c.too_big /\ ~c.draining THEN "RESP_431"
  ELSE IF c.phase = "error" THEN "RESP_ERROR"
  ELSE IF c.phase # "done" THEN "CONTINUE"
  ELSE "RESP_OK"

HttpApplyAction(c, f, drain, internal_error) ==
  LET act == ClassifyAction(c)
      Respond(x, outcomes) ==
        UNION {IF ok THEN outcomes ELSE Close(x) : ok \in Sqe}
      resched == TwReschedule(c)
  IN  IF internal_error \/ act = "RESP_ERROR"
        THEN Respond(c, StageHeaderResponseSend(c, f, drain, "OTHER", FALSE, TRUE))
      ELSE IF act = "RESP_431"
        THEN Respond(c, StageHeaderResponseSend(Prepare431Draining(c), f, drain,
                                                "431", TRUE, FALSE))
      ELSE IF act = "CONTINUE"
        THEN {TwReschedule(x) : x \in PostRecvPtr(c)}
      ELSE Respond(resched, DispatchOk(resched, f, drain))
=============================================================================
