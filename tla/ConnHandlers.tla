---------------------------- MODULE ConnHandlers ----------------------------
(***************************************************************************)
(* What the worker does to a plaintext connection when one of its          *)
(* operations completes, when its deadline expires and when it is          *)
(* accepted.  Each handler is an operator from the connection to the set   *)
(* of connections it may leave.                                            *)
(***************************************************************************)
EXTENDS Conn

Smaller(a, b) == IF a < b THEN a ELSE b

-----------------------------------------------------------------------------
\* The receive side.

\* http_pipeline_feed on bytes that arrived: how far the request is afterwards
\* and whether its headers went over a limit.  The limit on the number of
\* fields does not stop the parser, so such a request may also be complete.
PhaseAfter(c) ==
  {"body", "done", "error"} \cup (IF c.phase = "body" THEN {} ELSE {"header"})
Parsed(c, p, big) == [c EXCEPT !.phase = p, !.too_big = big]
HttpPipelineFeed(c) == UNION {{Parsed(c, p, big) : big \in BOOLEAN} : p \in PhaseAfter(c)}

\* The parser stops early only at the end of a message, so only then may a
\* buffer of n pieces leave some of them unconsumed.
Unconsumed(c, n) == IF c.phase \in {"done", "error"} THEN 0 .. n - 1 ELSE {0}

\* conn_rx_stash_append: the connections it may leave when it succeeds, and
\* whether it may fail.
StashFits(c, n) == c.stash + n <= StashCap
StashAppendOk(c, n) ==
  IF StashFits(c, n) THEN {[c EXCEPT !.stash = @ + n]} ELSE {}
StashAppendFails(c, n) ==
  ~StashFits(c, n) \/ (n > 0 /\ c.stash = 0 /\ StashMayFail)

\* Leftover bytes go to the stash, or the connection is closed; either way the
\* request is answered.
StashAndApply(c, f, drain, n, internal_error) ==
  LET stashed == StashAppendOk(c, n)
                 \cup (IF StashAppendFails(c, n) THEN Close(c) ELSE {})
  IN  UNION {HttpApplyAction(x, f, drain, internal_error) : x \in stashed}

\* The parser has run over the bytes.
ReadFed(x, f, drain, internal_error) ==
  UNION {StashAndApply(x, f, drain, n, internal_error) : n \in Unconsumed(x, StashCap)}

\* Bytes arrived.  A request that is already complete, refused or over its
\* header limit takes none of them.
ReadBytes(c, drain) ==
  LET m == [MarkActivity(c) EXCEPT !.noselect_streak = 0]
  IN  IF m.too_big \/ m.phase \in {"done", "error"}
      THEN UNION {StashAndApply(m, c.fd, drain, n, FALSE) : n \in 1 .. StashCap}
      ELSE UNION {ReadFed(x, c.fd, drain, TRUE) \cup ReadFed(x, c.fd, drain, FALSE) :
                    x \in HttpPipelineFeed(m)}

RepostRecv(c) == IF ClosingNoDeadline(c) THEN {c} ELSE PostRecvPtr(c)

\* A completion that carries no provided buffer (pool empty, EOF or error).
ReadNoBuffer(c) ==
  LET s == [c EXCEPT !.noselect_streak = @ + 1]
  IN  IF s.noselect_streak >= 2 THEN Close(s) ELSE RepostRecv(s)

\* read_handle_cqe, for a completion of the given result.
ReadHandleCqe(c, drain, res) ==
  LET r == [c EXCEPT !.recv_armed = FALSE]
  IN  IF c.fd = NoFd \/ c.closing THEN {c}
      ELSE IF res = "nobuf" THEN ReadNoBuffer(r)
      ELSE IF res = "again" THEN RepostRecv(r)
      ELSE IF res = "eof" THEN Close(r)
      ELSE ReadBytes(r, drain)

-----------------------------------------------------------------------------
\* The send side.

\* worker_loop_write_post_remaining
WritePostRemaining(c, guard_if_closing) ==
  IF ~TxPendingHeaders(c) THEN {c}
  ELSE UNION {IF ok THEN {PostSend(c, c.fd)}
              ELSE IF ~guard_if_closing \/ ~c.closing THEN Close(c)
              ELSE {c} : ok \in Sqe}

\* worker_loop_write_arm_pollout; a submission that fails ends like an entry
\* that could not be had.
WriteArmPollout(c) ==
  LET a == ArmWriteTimeout(c)
  IN  IF c.write_poll_armed THEN {c}
      ELSE UNION {IF ok THEN {[a EXCEPT !.refcnt = @ + 1, !.pl = @ + 1,
                                        !.write_poll_armed = TRUE]}
                  ELSE IF ~a.closing THEN Close(a)
                  ELSE {a} : ok \in Sqe}

ShutWrAndRead(c) ==
  PostRecvPtr([ClearWriteTimeout(c) EXCEPT !.shut = TRUE])

ConnResetRequest(c) ==
  TwReschedule([TxReset(c) EXCEPT
    !.phase = "start", !.too_big = FALSE, !.ka_idle = TRUE, !.closing = FALSE,
    !.write_start = FALSE, !.noselect_streak = 0, !.draining = FALSE])

\* What follows conn_try_process_stash when it staged nothing.
AwaitRequest(S) ==
  UNION {{TwReschedule(y) : y \in PostRecvPtr(x)} : x \in S}

\* conn_try_process_stash on x, the connection after the parser ran over the
\* stash, left pieces of which it did not consume.
ApplyStash(x, drain, left, internal_error) ==
  {[y EXCEPT !.stash = left] : y \in HttpApplyAction(x, x.fd, drain, internal_error)}

\* conn_try_process_stash and what follows it, for a parser that ended in x.
StashFed(x, drain, internal_error) ==
  UNION {IF ClassifyAction(x) = "CONTINUE"
         THEN AwaitRequest(ApplyStash(x, drain, left, internal_error))
         ELSE ApplyStash(x, drain, left, internal_error) :
           left \in Unconsumed(x, x.stash)}

\* The keep-alive branch of worker_loop_write_on_full_response.
NextRequest(c, drain) ==
  LET r == ConnResetRequest(ClearWriteTimeout(c))
  IN  IF r.stash = 0 \/ r.closing \/ r.draining
      THEN AwaitRequest({r})
      ELSE UNION {StashFed(x, drain, TRUE) \cup StashFed(x, drain, FALSE) :
                    x \in HttpPipelineFeed(MarkActivity(r))}

WriteOnFullResponse(c, drain) ==
  IF c.draining /\ c.resp_kind = "431" THEN ShutWrAndRead(c)
  ELSE IF c.resp_kind # "503" /\ c.keepalive THEN NextRequest(c, drain)
  ELSE Close(ClearWriteTimeout(c))

\* worker_loop_tx_sendfile_progress: sendfile is called until the file is out,
\* the socket buffer is full or the call fails.
FileSent(c, k) == [c EXCEPT !.file_rem = @ - k, !.room = @ - k]
SendfileProgress(c, drain) ==
  LET n == Smaller(c.file_rem, c.room)
      sent == FileSent(c, n)
      failed == UNION {Close(ClearWriteTimeout(FileSent(c, k))) :
                         k \in {k \in 0 .. n : k < c.file_rem}}
  IN  IF c.file_rem = 0 THEN WriteOnFullResponse(c, drain)
      ELSE failed \cup
           (IF sent.file_rem > 0
            THEN WriteArmPollout(IF n > 0 THEN ArmWriteTimeout(sent) ELSE sent)
            ELSE UNION {WriteOnFullResponse(x, drain) : x \in CancelWritePoll(sent)})

\* worker_loop_write_handle_cqe for a send that moved n pieces.
WriteAdvance(c, drain, n) ==
  LET armed == ArmWriteTimeout([c EXCEPT !.room = @ - n])
      w == [armed EXCEPT !.write_rem = @ - n]
      Then(F(_)) == UNION {F(x) : x \in CancelWritePoll(w)}
      Sendfile(x) == SendfileProgress(TxDiscard(x), drain)
      Full(x) == WriteOnFullResponse(x, drain)
  IN  IF ~c.write_buf THEN Close(ClearWriteTimeout(armed))
      ELSE IF w.write_rem > 0 THEN WritePostRemaining(w, TRUE)
      ELSE IF w.drain_after_headers THEN Then(ShutWrAndRead)
      ELSE IF w.file_rem > 0 THEN Then(Sendfile)
      ELSE Then(Full)

\* OP_WRITE.  The socket takes what it has room for, unless its write side was
\* shut down; "again" is EAGAIN, from a socket that has no room.
WriteHandleCqe(c, drain, res) ==
  IF c.fd = NoFd THEN {c}
  ELSE IF res = "sent"
    THEN IF c.shut THEN {}
         ELSE UNION {WriteAdvance(c, drain, n) :
                       n \in 1 .. Smaller(c.write_rem, c.room)}
  ELSE IF res = "again"
    THEN IF c.room > 0 THEN {} ELSE WriteArmPollout(c)
  ELSE Close(ClearWriteTimeout(c))

\* OP_WRITE_READY
WriteReadyHandleCqe(c, drain) ==
  LET p == [c EXCEPT !.write_poll_armed = FALSE]
  IN  IF c.fd = NoFd \/ (c.closing /\ c.resp_kind = "NONE") THEN {c}
      ELSE IF p.file_rem > 0 /\ ~TxPendingHeaders(p) THEN SendfileProgress(p, drain)
      ELSE IF p.resp_kind # "NONE" THEN WritePostRemaining(p, FALSE)
      ELSE {p}

-----------------------------------------------------------------------------
\* The timing wheel and the accept path.

\* tw_process_tick for one connection whose deadline has passed.  A close
\* started here is always synchronous or leaves no deadline to recompute.
ExpireNotClosing(c) ==
  LET x == [c EXCEPT !.deadline_active = FALSE]
      timeout == TxBeginHeaders(x, "OTHER", FALSE, FALSE)
  IN  IF c.deadline_kind \in {"HEADER", "BODY"}
      THEN {TwReschedule(PostSend(timeout, c.fd))}
      ELSE ScheduleOrSyncClose(x, c.deadline_kind = "WRITE")
ExpireSparesReader(c) ==
  LET x == [c EXCEPT !.deadline_active = FALSE]
  IN  IF c.deadline_kind = "INITIAL_IDLE" /\ c.recv_armed THEN {TwReschedule(x)}
      ELSE ScheduleOrSyncClose(x, c.deadline_kind = "WRITE")
ExpireRestartsWrite(c) ==
  LET x == [c EXCEPT !.deadline_active = FALSE]
  IN  IF c.deadline_kind = "WRITE" THEN {TwReschedule(x)}
      ELSE ScheduleOrSyncClose(x, FALSE)
Expire(c) ==
  LET x == [c EXCEPT !.deadline_active = FALSE]
      timeout == [TxBeginHeaders(x, "OTHER", FALSE, FALSE) EXCEPT !.closing = TRUE]
  IN  IF c.deadline_kind \in {"HEADER", "BODY"}
      THEN UNION {IF ok THEN {TwReschedule(PostSend(timeout, c.fd))}
                  ELSE Close(x) : ok \in Sqe}
      ELSE ScheduleOrSyncClose(x, c.deadline_kind = "WRITE")

\* conn_init, when it succeeds.
ConnInit(f) ==
  TwReschedule([Blank EXCEPT !.live = TRUE, !.refcnt = 1, !.fd = f, !.key = f,
                             !.sock = f, !.room = SndBuf, !.counted = 1])

\* The 503 that answers a connection whose first receive could not be posted.
Overload503(c) ==
  UNION {IF ok THEN {PostSend(PrepareCloseAfterSend(
                       TxBeginHeaders(c, "503", FALSE, FALSE)), c.fd)}
         ELSE Close(c) : ok \in Sqe}

\* worker_accept_success after conn_init, for a plaintext vhost or none.
AcceptSuccess(f) ==
  Close(ConnInit(f)) \cup
  UNION {IF x.recv_armed THEN {x} ELSE Overload503(x) :
           x \in PostRecvPtr(ConnInit(f))}
=============================================================================
