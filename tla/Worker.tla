------------------------------- MODULE Worker -------------------------------
(***************************************************************************)
(* The connections of one worker thread.  The worker handles one           *)
(* completion, expired deadline or accepted descriptor at a time; in       *)
(* between, the kernel and the peers act.  The order in which operations   *)
(* complete is arbitrary.                                                  *)
(***************************************************************************)
EXTENDS ConnHandlers, FiniteSets

CONSTANTS
  Slots,          \* connection structures
  AllocMayFail    \* can conn_alloc or conn_store_put run out of memory?

ASSUME AllocAssumption == AllocMayFail \in BOOLEAN

VARIABLES
  conn,           \* the connection structures
  is_draining,    \* the worker's graceful-shutdown flag
  lost            \* accepted descriptors that are open and in no structure

vars == <<conn, is_draining, lost>>

Init ==
  /\ conn = [s \in Slots |-> Blank]
  /\ is_draining = FALSE
  /\ lost = {}

\* The kernel hands out a descriptor that names nothing at present.
FreeFds == Fds \ ({conn[s].sock : s \in Slots} \cup lost)

\* A completion is handled; its handler ends by dropping the reference that the
\* operation held.
Handled(s, outcomes) ==
  \E c \in outcomes : conn' = [conn EXCEPT ![s] = ConnPut(c)]

Accept(s) ==
  /\ ~conn[s].live
  /\ \E f \in FreeFds : \E c \in AcceptSuccess(f) : conn' = [conn EXCEPT ![s] = c]
  /\ UNCHANGED <<is_draining, lost>>

\* conn_init fails: the close that follows finds no connection.
AcceptFails ==
  /\ AllocMayFail
  /\ \E f \in FreeFds : lost' = lost \cup {f}
  /\ UNCHANGED <<conn, is_draining>>

ReadResult == {"bytes", "nobuf", "again", "eof"}
WriteResult == {"sent", "again", "error"}

OpRead(s, res) ==
  LET c == [conn[s] EXCEPT !.rd = @ - 1]
  IN  /\ conn[s].rd > 0
      /\ Handled(s, ReadHandleCqe(c, is_draining, res))
      /\ UNCHANGED <<is_draining, lost>>

OpWrite(s, res) ==
  LET c == [conn[s] EXCEPT !.wr = @ - 1]
  IN  /\ conn[s].wr > 0
      /\ Handled(s, WriteHandleCqe(c, is_draining, res))
      /\ UNCHANGED <<is_draining, lost>>

\* The poll ends when the socket has room, is gone, or the poll was cancelled.
OpWriteReady(s) ==
  LET c == [conn[s] EXCEPT !.pl = @ - 1]
  IN  /\ conn[s].pl > 0
      /\ conn[s].fd = NoFd \/ ~conn[s].write_poll_armed \/ conn[s].room > 0
      /\ Handled(s, WriteReadyHandleCqe(c, is_draining))
      /\ UNCHANGED <<is_draining, lost>>

\* The kernel executes the close; the descriptor may be given out again before
\* the worker handles the completion.
KernelClose(s) ==
  /\ conn[s].cl > 0
  /\ conn[s].sock # NoFd
  /\ conn' = [conn EXCEPT ![s].sock = NoFd]
  /\ UNCHANGED <<is_draining, lost>>

OpClose(s) ==
  /\ conn[s].cl > 0
  /\ conn[s].sock = NoFd
  /\ Handled(s, {[conn[s] EXCEPT !.cl = @ - 1, !.fd = NoFd]})
  /\ UNCHANGED <<is_draining, lost>>

\* A deadline passes and the wheel reaches the connection.
Tick(s) ==
  /\ conn[s].deadline_active
  /\ \E c \in Expire(conn[s]) : conn' = [conn EXCEPT ![s] = c]
  /\ UNCHANGED <<is_draining, lost>>

\* The peer reads what the kernel has buffered for it, or resets the connection.
PeerReads(s) ==
  /\ conn[s].key # NoFd
  /\ conn[s].room < SndBuf
  /\ conn' = [conn EXCEPT ![s].room = SndBuf]
  /\ UNCHANGED <<is_draining, lost>>

EnterDrain ==
  /\ ~is_draining
  /\ is_draining' = TRUE
  /\ UNCHANGED <<conn, lost>>

Next ==
  \/ AcceptFails
  \/ EnterDrain
  \/ \E s \in Slots :
       \/ Accept(s)
       \/ \E res \in ReadResult : OpRead(s, res)
       \/ \E res \in WriteResult : OpWrite(s, res)
       \/ OpWriteReady(s)
       \/ KernelClose(s)
       \/ OpClose(s)
       \/ Tick(s)
       \/ PeerReads(s)

Spec == Init /\ [][Next]_vars

-----------------------------------------------------------------------------
\* Fairness.  An expired deadline is found by a later sweep, the worker handles
\* every completion, the kernel executes a close, a send completes while there
\* is room and fails once the write side is shut.  Nothing is assumed of the
\* peer: it may stop sending, and stop reading, for ever.
WorkerFairness ==
  \A s \in Slots :
    /\ WF_vars(Tick(s)) /\ WF_vars(KernelClose(s)) /\ WF_vars(OpClose(s))
    /\ WF_vars(OpWrite(s, "sent")) /\ WF_vars(OpWriteReady(s))
    /\ WF_vars(conn[s].shut /\ OpWrite(s, "error"))

FairSpec == Spec /\ WorkerFairness

\* Peers that may stop sending but keep reading.
ReadingPeers == \A s \in Slots : WF_vars(PeerReads(s))

-----------------------------------------------------------------------------
TypeOK ==
  /\ conn \in [Slots -> ConnRec]
  /\ is_draining \in BOOLEAN
  /\ lost \subseteq Fds

\* The reference of conn_store, as a number.
Owner(c) == IF c.key = NoFd THEN 0 ELSE 1

\* References are exact (conn_ref, conn_put): a structure holds one for the
\* store and one for every operation in flight, and is on the freelist exactly
\* when it holds none.  So no completion ever finds a recycled structure
\* behind its user_data, and none is leaked once its operations are over.
RefExact ==
  \A s \in Slots : LET c == conn[s] IN
    /\ c.refcnt = Owner(c) + c.rd + c.wr + c.pl + c.cl
    /\ c.live <=> c.refcnt > 0

\* Who owns a descriptor (conn_store_put, schedule_or_sync_close).  The store
\* maps exactly the descriptors their structures still name, and those name
\* their own socket; an open socket belongs to one structure, which is in the
\* store or has its close in flight; no two structures own one descriptor.
DescriptorOwnership ==
  \A s \in Slots : LET c == conn[s] IN
    /\ c.key = c.fd
    /\ c.key # NoFd => c.sock = c.key /\ c.cl = 0
    /\ c.cl <= 1
    /\ c.sock # NoFd =>
         /\ c.key # NoFd \/ c.cl = 1
         /\ c.sock \notin lost
         /\ \A t \in Slots \ {s} : conn[t].sock # c.sock

\* The wheel links only connections that are in the store, so tw_process_tick
\* never walks through a closed or recycled structure.
WheelHoldsOpen ==
  \A s \in Slots : conn[s].deadline_active => conn[s].key # NoFd

\* A deadline in the wheel is the one the connection's present state calls
\* for: none of the paths that change that state leaves an earlier phase's
\* deadline behind (an idle timeout that cuts a response, for instance).
DeadlineFresh ==
  \A s \in Slots : conn[s].deadline_active =>
    conn[s].deadline_kind = ConnDeadlineKind(conn[s])

\* An open connection always has a future: an operation in flight or an armed
\* deadline, even when no submission-queue entry could be had to go on
\* (post_recv_ptr and the guarded branches of the write path just return).
NeverStranded ==
  \A s \in Slots : LET c == conn[s] IN
    c.key # NoFd => c.deadline_active \/ c.rd + c.wr + c.pl > 0

\* At most one receive, and one send or write poll, is in flight: op_read,
\* op_write and the transmit buffer of a connection are never shared by two
\* operations (recv_armed, write_poll_armed).
OneReaderOneWriter ==
  \A s \in Slots : conn[s].rd <= 1 /\ conn[s].wr + conn[s].pl <= 1

\* active_conns counts the stored connections, each once, on every path that
\* opens or closes one; graceful shutdown waits for it to reach zero.
ActiveCountExact == \A s \in Slots : conn[s].counted = Owner(conn[s])

\* A response is sent on the connection's own socket.  The one exception is a
\* request refused for its headers, which DrainDefersToContinue is about.
SendTargetsOwnSocket ==
  \A s \in Slots : conn[s].live /\ conn[s].stray # NoFd => conn[s].too_big

\* A decision to close is final: no later completion revives a connection
\* (conn_enter_keepalive_idle clears closing, so a keep-alive response must
\* never complete on a closing connection).
CloseIsFinal ==
  [][\A s \in Slots : conn[s].closing => conn'[s].closing \/ ~conn'[s].live]_vars

\* A connection on which no byte moves any more is closed, whatever phase it
\* is in, provided the peer still reads what it was sent.
BytesMove(s) == OpRead(s, "bytes") \/ conn'[s].room < conn[s].room
IdleIsReclaimed ==
  ReadingPeers =>
    \A s \in Slots : []<>(conn[s].key = NoFd) \/ []<><<BytesMove(s)>>_vars

\* A response that has moved once, or was told to wait for room, comes to an
\* end: it goes on moving, completes, or the write timeout closes the
\* connection, even if the peer never reads again (conn_arm_write_timeout,
\* abortive_close).
TimedWriteEnds ==
  \A s \in Slots :
    \/ []<>~(conn[s].key # NoFd /\ WriteInProgress(conn[s]))
    \/ []<><<conn'[s].room < conn[s].room>>_vars

\* README.md:32, "slow readers are forcibly disconnected": a peer that stops
\* reading does not keep its connection.
SlowReaderDisconnected ==
  \A s \in Slots : []<>(conn[s].key = NoFd \/ conn[s].room > 0)

\* tests/unit/test_http_pipeline_real.c:138, "Pipeline should defer to the
\* draining path and keep reading": a read after the 431 was sent stages no
\* second response.
DrainDefersToContinue ==
  [][\A s \in Slots : conn[s].draining /\ conn[s].too_big /\ conn[s].rd > conn'[s].rd
        => conn'[s].wr = conn[s].wr]_vars

\* docs/config_ini_reference.md:73, drain_timeout_ms is the "post-error drain
\* window": within it the bytes a peer still sends do not end the connection.
DrainWindowHolds ==
  [][\A s \in Slots :
        OpRead(s, "bytes") /\ conn[s].draining /\ conn[s].key # NoFd
        => conn'[s].key # NoFd]_vars

\* worker_loop.c:1501, "During drain we finish one in-flight request and then
\* close": while the worker drains, no connection is put back to waiting for
\* another request.
DrainFinishesOneRequest ==
  [][\A s \in Slots : is_draining /\ conn'[s].ka_idle => conn[s].ka_idle]_vars
=============================================================================
