----------------------------- MODULE LifeProofs -----------------------------
(***************************************************************************)
(* The life of a connection: what may be in flight, which deadline is      *)
(* armed and when a decision to close is final, for every number of        *)
(* connections and for every size.                                         *)
(***************************************************************************)
EXTENDS WorkerProofs

\* A request that is not complete and not refused.
Unread == {"start", "header", "body"}

\* What holds of every structure, also of one whose connection was closed while
\* operations are in flight.
Ops(c) ==
  /\ c.rd <= 1 /\ (c.rd = 1 => c.recv_armed)
  /\ c.wr + c.pl <= 1
  /\ c.drain_after_headers => c.draining

Fresh(c) ==
  c.deadline_active => c.deadline_kind = ConnDeadlineKind(c) /\ c.deadline_kind # "NONE"

\* What holds while a response is on its way.
Sending(c) ==
  /\ c.rd = 1 => c.closing
  /\ c.resp_kind # "NONE"
  /\ c.closing \/ c.draining \/ c.phase \notin Unread

\* What holds of a connection that is in the store.
Open(c) ==
  /\ c.recv_armed => c.rd = 1 \/ c.closing
  /\ c.write_poll_armed <=> c.pl = 1
  /\ c.deadline_active \/ c.wr + c.pl = 1
  /\ Fresh(c)
  /\ c.keepalive => ~c.closing
  /\ c.wr + c.pl = 1 => Sending(c)
  /\ c.wr = 1 => TxPendingHeaders(c)
  /\ c.pl = 1 => c.write_start /\ (TxPendingHeaders(c) \/ c.file_rem > 0)

Life(c) == Ops(c) /\ (c.key # NoFd => Open(c))

\* Inside a handler.  No operation is in flight and the request is to be
\* answered or read on.
Quiet(c) ==
  /\ c.rd = 0 /\ c.wr = 0 /\ c.pl = 0 /\ ~c.recv_armed
  /\ c.drain_after_headers => c.draining
  /\ c.key # NoFd => ~c.closing /\ ~c.write_poll_armed

\* Bytes of the request have been heard, so it has a deadline.
Heard(c) == c.draining \/ c.too_big \/ (c.phase # "start" /\ ~c.ka_idle)

\* A handler leaves c alive and does not take back a decision to close.
Lives(c, S) == \A d \in S : Life(d) /\ (c.closing => d.closing)

-----------------------------------------------------------------------------
\* schedule_or_sync_close.

\* d is c after its close began: it has left the store and is closing, or is on
\* the freelist when nobody refers to it any more.
Closed(c, d, k) ==
  /\ Ops(d) /\ d.key = NoFd
  /\ d.closing <=> d.live
  /\ k = 1 => /\ d.closing /\ d.rd = c.rd /\ d.wr = c.wr /\ d.pl = c.pl
              /\ d.recv_armed <=> c.recv_armed
              /\ d.drain_after_headers <=> c.drain_after_headers
              /\ d.draining <=> c.draining

LEMMA DetachedLife ==
  ASSUME NEW k \in Nat, NEW sk, NEW c \in Good(k, sk), Ops(c), c.key # NoFd
  PROVE  LET m == [TwCancel(c) EXCEPT !.closing = TRUE, !.file_rem = 0]
             e == Detach(m)
         IN  /\ \A x \in CancelWritePoll(e) \cup {e} :
                  /\ Closed(c, ConnPut([x EXCEPT !.sock = NoFd]), k)
                  /\ Closed(c, [x EXCEPT !.cl = @ + 1], k)
<1> DEFINE m == [TwCancel(c) EXCEPT !.closing = TRUE, !.file_rem = 0]
           e == Detach(m)
<1>1. c \in ConnRec /\ Balance(c, k)
  BY DEF Good
<1>2. c.refcnt = 1 + c.rd + c.wr + c.pl + c.cl + k /\ c.refcnt > 0
  BY <1>1, Members DEF Balance, Owner
<1>3. c.live /\ c.cl = 0
  BY <1>1, <1>2 DEF Balance
<1>4. ASSUME NEW x \in CancelWritePoll(e) \cup {e}
      PROVE  /\ x \in ConnRec
             /\ x.refcnt = c.refcnt /\ x.rd = c.rd /\ x.wr = c.wr /\ x.pl = c.pl /\ x.cl = c.cl
             /\ x.key = NoFd /\ x.closing = TRUE /\ x.live = c.live
             /\ x.recv_armed = c.recv_armed /\ x.draining = c.draining
             /\ x.drain_after_headers = c.drain_after_headers
  <2>1. /\ e.refcnt = c.refcnt /\ e.rd = c.rd /\ e.wr = c.wr /\ e.pl = c.pl /\ e.cl = c.cl
        /\ e.key = NoFd /\ e.closing = TRUE /\ e.live = c.live
        /\ e.recv_armed = c.recv_armed /\ e.draining = c.draining
        /\ e.drain_after_headers = c.drain_after_headers
    BY <1>1 DEF Detach, TwCancel, ConnRec
  <2>2. e \in ConnRec
    <3>1. 0 \in 0 .. MaxFile
      BY SizeAssumption
    <3>2. m \in ConnRec
      BY <3>1, TwCancelGood, SetClosing, SetFileRem, GoodIsConn, Zenon
    <3> HIDE DEF m
    <3>3. m.counted - 1 \in Int /\ NoFd \in FdOrNone
      BY <3>2, Members DEF FdOrNone
    <3> QED BY <3>2, <3>3, PutMembers, Zenon DEF Detach
  <2> HIDE DEF e
  <2>3. x = e \/ \E v \in BOOLEAN : x = [e EXCEPT !.write_poll_armed = v]
    BY Zenon DEF CancelWritePoll, Sqe
  <2>4. CASE x = e
    BY <2>1, <2>2, <2>4
  <2>5. ASSUME NEW v \in BOOLEAN, x = [e EXCEPT !.write_poll_armed = v]
        PROVE  /\ x \in ConnRec
               /\ x.refcnt = e.refcnt /\ x.rd = e.rd /\ x.wr = e.wr /\ x.pl = e.pl /\ x.cl = e.cl
               /\ x.key = e.key /\ x.closing = e.closing /\ x.live = e.live
               /\ x.recv_armed = e.recv_armed /\ x.draining = e.draining
               /\ x.drain_after_headers = e.drain_after_headers
    BY <2>2, <2>5 DEF ConnRec
  <2> QED BY <2>1, <2>3, <2>4, <2>5, Zenon
<1> HIDE DEF e
<1>5. ASSUME NEW x \in CancelWritePoll(e) \cup {e}
      PROVE  Closed(c, ConnPut([x EXCEPT !.sock = NoFd]), k)
  <2> DEFINE y == [x EXCEPT !.sock = NoFd]
             z == Recycle(y)
             w == [y EXCEPT !.refcnt = @ - 1]
  <2>1. CASE c.refcnt = 1
    <3>1. c.rd = 0 /\ c.wr = 0 /\ c.pl = 0 /\ k = 0
      BY <1>1, <1>2, <2>1, Members
    <3>2. z.rd = x.rd /\ z.wr = x.wr /\ z.pl = x.pl /\ z.key = x.key
      BY <1>4 DEF Recycle, Blank, ConnRec
    <3>6. ~z.live /\ ~z.closing /\ ~z.drain_after_headers
      BY <1>4 DEF Recycle, Blank, ConnRec
    <3>3. ConnPut(y) = z
      BY <1>4, <2>1, Zenon DEF ConnPut, ConnRec
    <3> HIDE DEF z
    <3>4. Ops(z) /\ z.key = NoFd /\ (z.closing <=> z.live) /\ k # 1
      <4>3. k # 1
        BY <3>1
      <4>1. z.rd = 0 /\ z.wr = 0 /\ z.pl = 0 /\ z.key = NoFd
        BY <1>4, <3>1, <3>2, Zenon
      <4>2. z.closing <=> z.live
        BY <3>6, Zenon
      <4> QED BY <3>6, <4>1, <4>2, <4>3 DEF Ops
    <3>5. Closed(c, z, k)
      BY <3>4 DEF Closed
    <3> QED BY <3>3, <3>5
  <2>2. CASE c.refcnt # 1
    <3>1. /\ w.rd = x.rd /\ w.wr = x.wr /\ w.pl = x.pl /\ w.key = x.key /\ w.live = x.live
          /\ w.closing = x.closing /\ w.drain_after_headers = x.drain_after_headers
          /\ w.recv_armed = x.recv_armed /\ w.draining = x.draining
      BY <1>4 DEF ConnRec
    <3>2. ConnPut(y) = w
      BY <1>4, <2>2, Zenon DEF ConnPut, ConnRec
    <3> HIDE DEF w
    <3>3. w.live /\ w.closing
      BY <1>3, <1>4, <3>1, Zenon
    <3>4. Ops(w) /\ w.key = NoFd /\ w.rd = c.rd /\ w.wr = c.wr /\ w.pl = c.pl
      BY <1>4, <3>1, Zenon DEF Ops
    <3>5. Closed(c, w, k)
      BY <1>4, <3>1, <3>3, <3>4, Zenon DEF Closed
    <3> QED BY <3>2, <3>5
  <2> QED BY <2>1, <2>2
<1>6. ASSUME NEW x \in CancelWritePoll(e) \cup {e}
      PROVE  Closed(c, [x EXCEPT !.cl = @ + 1], k)
  <2> DEFINE w == [x EXCEPT !.cl = @ + 1]
  <2>1. /\ w.rd = x.rd /\ w.wr = x.wr /\ w.pl = x.pl /\ w.key = x.key /\ w.live = x.live
        /\ w.closing = x.closing /\ w.drain_after_headers = x.drain_after_headers
        /\ w.recv_armed = x.recv_armed /\ w.draining = x.draining
    BY <1>4 DEF ConnRec
  <2> HIDE DEF w
  <2>2. Closed(c, w, k)
    BY <1>3, <1>4, <2>1, Zenon DEF Closed, Ops
  <2> QED BY <2>2 DEF w
<1> QED BY <1>5, <1>6 DEF e

LEMMA CloseCloses ==
  ASSUME NEW k \in Nat, NEW sk, NEW c \in Good(k, sk), Ops(c), NEW abortive \in BOOLEAN
  PROVE  \A d \in ScheduleOrSyncClose(c, abortive) :
           IF c.key = NoFd THEN d = c ELSE Closed(c, d, k)
<1> DEFINE m == [TwCancel(c) EXCEPT !.closing = TRUE, !.file_rem = 0]
           e == Detach(m)
           sync == {ConnPut([x EXCEPT !.sock = NoFd]) : x \in CancelWritePoll(e)}
           async == {[x EXCEPT !.cl = @ + 1] : x \in CancelWritePoll(e)}
           starved == {ConnPut([e EXCEPT !.sock = NoFd])}
<1>1. CASE c.key = NoFd
  BY <1>1 DEF ScheduleOrSyncClose
<1>2. CASE c.key # NoFd
  <2>4. \A x \in CancelWritePoll(e) \cup {e} :
          /\ Closed(c, ConnPut([x EXCEPT !.sock = NoFd]), k)
          /\ Closed(c, [x EXCEPT !.cl = @ + 1], k)
    BY <1>2, DetachedLife, Zenon
  <2>1. \A d \in sync \cup async \cup starved : Closed(c, d, k)
    <3> HIDE DEF e
    <3> QED BY <2>4, Zenon
  <2>2. c.fd # NoFd
    BY <1>2 DEF Good, Balance
  <2>3. \/ ScheduleOrSyncClose(c, abortive) = sync
        \/ ScheduleOrSyncClose(c, abortive) = UNION {IF ok THEN async ELSE starved : ok \in Sqe}
    BY <1>2, <2>2, Zenon DEF ScheduleOrSyncClose
  <2> HIDE DEF sync, async, starved
  <2> QED BY <1>2, <2>1, <2>3
<1> QED BY <1>1, <1>2

\* A close leaves nothing to be kept of an open connection.
LEMMA CloseLives ==
  ASSUME NEW sk, NEW c \in Good(1, sk), Ops(c)
  PROVE  Lives(c, Close(c))
<1> SUFFICES ASSUME NEW d \in Close(c) PROVE Life(d) /\ (c.closing => d.closing)
  BY DEF Lives
<1>1. CASE c.key = NoFd
  <2>1. d = c
    BY <1>1, CloseCloses, Zenon DEF Close
  <2> QED BY <1>1, <2>1 DEF Life
<1>2. CASE c.key # NoFd
  <2>1. Closed(c, d, 1)
    BY <1>2, CloseCloses, Zenon DEF Close
  <2> QED BY <2>1 DEF Life, Closed
<1> QED BY <1>1, <1>2

LEMMA CloseQuiet ==
  ASSUME NEW sk, NEW c \in Good(1, sk), Quiet(c)
  PROVE  \A d \in Close(c) : Quiet(d) /\ d.key = NoFd /\ (c.closing => d.closing)
<1>1. Ops(c)
  BY DEF Quiet, Ops
<1> QED BY <1>1, CloseCloses, Zenon DEF Close, Closed, Quiet

-----------------------------------------------------------------------------
\* The staging of responses.

\* A response that will close the connection.
LEMMA ClosingResponseLife ==
  ASSUME NEW c \in ConnRec, Quiet(c), NEW f, NEW kind \in RespKind \ {"NONE"},
         NEW dah \in BOOLEAN, dah => c.draining
  PROVE  LET d == PostSend(PrepareCloseAfterSend(TxBeginHeaders(c, kind, FALSE, dah)), f)
         IN  Life(d) /\ d.closing
<1> DEFINE d == PostSend(PrepareCloseAfterSend(TxBeginHeaders(c, kind, FALSE, dah)), f)
<1>2. /\ d.rd = c.rd /\ d.wr = c.wr + 1 /\ d.pl = c.pl /\ d.key = c.key
      /\ d.resp_kind = kind /\ d.write_rem = MaxSend
  BY DEF ConnRec, PostSend, PrepareCloseAfterSend, TwCancel, TxBeginHeaders
<1>3. /\ d.closing /\ ~d.deadline_active /\ ~d.keepalive /\ d.write_buf
      /\ (d.recv_armed <=> c.recv_armed) /\ (d.draining <=> c.draining)
      /\ (d.write_poll_armed <=> c.write_poll_armed) /\ (d.drain_after_headers <=> dah)
  BY DEF ConnRec, PostSend, PrepareCloseAfterSend, TwCancel, TxBeginHeaders
<1> HIDE DEF d
<1>4. d.rd = 0 /\ d.wr = 1 /\ d.pl = 0 /\ d.write_rem > 0
  BY <1>2, SizeAssumption DEF Quiet
<1>5. Ops(d)
  BY <1>3, <1>4 DEF Ops
<1>6. d.key # NoFd => Open(d)
  BY <1>2, <1>3, <1>4 DEF Quiet, Open, Fresh, Sending, TxPendingHeaders
<1> QED BY <1>3, <1>5, <1>6, Zenon DEF d, Life

\* d is c with a response of the given kind behind it, whose first send is
\* posted; no deadline was touched.
Sent(c, d, kind, dah) ==
  /\ d.rd = c.rd /\ d.wr = c.wr + 1 /\ d.pl = c.pl /\ d.key = c.key /\ d.fd = c.fd
  /\ d.resp_kind = kind /\ d.write_rem = MaxSend /\ d.phase = c.phase
  /\ d.deadline_kind = c.deadline_kind
  /\ d.write_buf /\ (d.deadline_active <=> c.deadline_active)
  /\ (d.recv_armed <=> c.recv_armed) /\ (d.draining <=> c.draining)
  /\ (d.write_poll_armed <=> c.write_poll_armed) /\ (d.drain_after_headers <=> dah)
  /\ (d.closing <=> c.closing) /\ (d.ka_idle <=> c.ka_idle)
  /\ (d.write_start <=> c.write_start)

\* A response after which the connection stays open.
LEMMA OpenResponseLife ==
  ASSUME NEW sk, NEW c \in Good(1, sk), Quiet(c), NEW kind \in RespKind \ {"NONE"},
         NEW dah \in BOOLEAN, dah => c.draining, Fresh(c),
         c.key # NoFd => c.draining \/ c.phase \notin Unread,
         NEW d, Sent(c, d, kind, dah)
  PROVE  Life(d) /\ (c.closing => d.closing)
<1>1. d.rd = 0 /\ d.wr = 1 /\ d.pl = 0 /\ d.write_rem > 0
  BY SizeAssumption DEF Quiet, Sent
<1>2. WriteInProgress(c) => WriteInProgress(d)
  BY <1>1 DEF Sent, WriteInProgress
<1>3. ConnDeadlineKind(c) # "NONE" => ConnDeadlineKind(d) = ConnDeadlineKind(c)
  BY <1>2 DEF Sent, ConnDeadlineKind
<1>4. Fresh(d)
  BY <1>3 DEF Sent, Fresh
<1>5. Ops(d)
  BY <1>1 DEF Ops, Quiet, Sent
<1>6. d.key # NoFd => Open(d)
  BY <1>1, <1>4 DEF Sent, Quiet, Open, Sending, TxPendingHeaders
<1> QED BY <1>5, <1>6 DEF Life, Sent

LEMMA StageHeaderLife ==
  ASSUME NEW sk, NEW c \in Good(1, sk), Quiet(c), NEW f, NEW drain \in BOOLEAN,
         NEW kind \in RespKind \ {"NONE"}, NEW dah \in BOOLEAN, NEW close \in BOOLEAN,
         dah => c.draining, close \/ (c.draining /\ Fresh(c))
  PROVE  Lives(c, StageHeaderResponseSend(c, f, drain, kind, dah, close))
<1> DEFINE Shut(k, h) == PostSend(PrepareCloseAfterSend(TxBeginHeaders(c, k, FALSE, h)), f)
           open == PostSend(TxBeginHeaders(c, kind, FALSE, dah), f)
<1>1. c \in ConnRec
  BY DEF Good
<1>2. \A k \in RespKind \ {"NONE"}, h \in BOOLEAN :
        (h => c.draining) => Life(Shut(k, h)) /\ (c.closing => Shut(k, h).closing)
  <2> SUFFICES ASSUME NEW k \in RespKind \ {"NONE"}, NEW h \in BOOLEAN, h => c.draining
               PROVE  Life(Shut(k, h)) /\ Shut(k, h).closing
    BY Zenon
  <2> QED BY <1>1, ClosingResponseLife, Zenon
<1>3. Sent(c, open, kind, dah)
  BY <1>1 DEF ConnRec, Sent, PostSend, TxBeginHeaders
<1> HIDE DEF open
<1>4. ~close => Life(open) /\ (c.closing => open.closing)
  BY <1>3, OpenResponseLife, Zenon
<1>5. StageHeaderResponseSend(c, f, drain, kind, dah, close)
        = {IF close \/ drain THEN Shut(kind, dah) ELSE open, Shut("OTHER", FALSE)}
  BY Zenon DEF StageHeaderResponseSend, open
<1>6. "OTHER" \in RespKind \ {"NONE"}
  BY DEF RespKind
<1> HIDE DEF Shut
<1> QED BY <1>2, <1>4, <1>5, <1>6, Zenon DEF Lives

LEMMA StageTxBufferLife ==
  ASSUME NEW sk, NEW c \in Good(1, sk), Quiet(c), NEW f, NEW ka \in BOOLEAN, NEW file, Fresh(c),
         c.key # NoFd => c.draining \/ c.phase \notin Unread
  PROVE  LET d == StageTxBufferSend(c, f, ka, file) IN Life(d) /\ (c.closing => d.closing)
<1> DEFINE d == StageTxBufferSend(c, f, ka, file)
<1>1. c \in ConnRec /\ "OTHER" \in RespKind \ {"NONE"}
  BY DEF Good, RespKind
<1>2. Sent(c, d, "OTHER", FALSE)
  BY <1>1 DEF ConnRec, Sent, PostSend, TxBeginHeaders, StageTxBufferSend
<1> HIDE DEF d
<1>3. Life(d) /\ (c.closing => d.closing)
  BY <1>1, <1>2, OpenResponseLife, Zenon
<1> QED BY <1>3 DEF d

\* request_dispatch_ok
LEMMA DispatchOkLife ==
  ASSUME NEW sk, NEW c \in Good(1, sk), Quiet(c), NEW f, NEW drain \in BOOLEAN, Fresh(c),
         c.key # NoFd => c.draining \/ c.phase \notin Unread
  PROVE  Lives(c, DispatchOk(c, f, drain))
<1>1. Lives(c, TxBufferResponses(c, f, drain))
  <2>1. \A ka \in BOOLEAN : \A file : LET d == StageTxBufferSend(c, f, ka, file)
                                    IN  Life(d) /\ (c.closing => d.closing)
    BY StageTxBufferLife
  <2>2. \A d \in TxBufferResponses(c, f, drain) :
          \E ka \in BOOLEAN, file \in {0, MaxFile} : d = StageTxBufferSend(c, f, ka, file)
    BY Zenon DEF TxBufferResponses
  <2>3. ASSUME NEW d \in TxBufferResponses(c, f, drain)
        PROVE  Life(d) /\ (c.closing => d.closing)
    <3>1. PICK ka \in BOOLEAN, file \in {0, MaxFile} : d = StageTxBufferSend(c, f, ka, file)
      BY <2>2
    <3> QED BY <2>1, <3>1
  <2> QED BY <2>3 DEF Lives
<1>2. "OTHER" \in RespKind \ {"NONE"}
  BY DEF RespKind
<1>3. Lives(c, StageHeaderResponseSend(c, f, drain, "OTHER", FALSE, TRUE))
  BY <1>2, StageHeaderLife, Zenon
<1> QED BY <1>1, <1>3, Zenon DEF Lives, DispatchOk

-----------------------------------------------------------------------------
\* The deadline and the posting of a receive.

\* c and d differ at most in their deadline, their operations in flight and
\* fields on which neither depends.
Rest(c, d) ==
  /\ d.key = c.key /\ d.fd = c.fd /\ d.phase = c.phase
  /\ d.resp_kind = c.resp_kind /\ d.write_rem = c.write_rem /\ d.file_rem = c.file_rem
  /\ (d.closing <=> c.closing) /\ (d.draining <=> c.draining) /\ (d.ka_idle <=> c.ka_idle)
  /\ (d.write_start <=> c.write_start) /\ (d.too_big <=> c.too_big)
  /\ (d.write_buf <=> c.write_buf) /\ (d.keepalive <=> c.keepalive)
  /\ (d.drain_after_headers <=> c.drain_after_headers)

LEMMA RestKind ==
  ASSUME NEW c, NEW d, Rest(c, d)
  PROVE  /\ ConnDeadlineKind(d) = ConnDeadlineKind(c)
         /\ TxPendingHeaders(d) <=> TxPendingHeaders(c)
<1>1. WriteInProgress(d) <=> WriteInProgress(c)
  BY DEF Rest, WriteInProgress
<1> QED BY <1>1 DEF Rest, ConnDeadlineKind, TxPendingHeaders

\* They have the same sends and write polls in flight, too.
Core(c, d) ==
  /\ Rest(c, d) /\ d.wr = c.wr /\ d.pl = c.pl
  /\ d.write_poll_armed <=> c.write_poll_armed

LEMMA CoreTwice ==
  ASSUME NEW b, NEW c, NEW d, Core(b, c), Core(c, d)
  PROVE  Core(b, d)
<1>1. Rest(b, d)
  BY Zenon DEF Core, Rest
<1> QED BY Zenon, <1>1 DEF Core

LEMMA CoreKind ==
  ASSUME NEW c, NEW d, Core(c, d)
  PROVE  /\ ConnDeadlineKind(d) = ConnDeadlineKind(c)
         /\ TxPendingHeaders(d) <=> TxPendingHeaders(c)
  BY RestKind DEF Core

\* d is c with the deadline its state calls for.
Timed(c, d) ==
  /\ Core(c, d) /\ d.rd = c.rd /\ (d.recv_armed <=> c.recv_armed)
  /\ Fresh(d) /\ (d.deadline_active <=> ConnDeadlineKind(c) # "NONE")

LEMMA RescheduleTimed ==
  ASSUME NEW c \in ConnRec
  PROVE  Timed(c, TwReschedule(c))
<1> DEFINE d == TwReschedule(c)
<1>1. Core(c, d) /\ d.rd = c.rd /\ (d.recv_armed <=> c.recv_armed)
  BY DEF ConnRec, Core, Rest, TwReschedule
<1>2. /\ d.deadline_kind = ConnDeadlineKind(c)
      /\ d.deadline_active <=> ConnDeadlineKind(c) # "NONE"
  BY Zenon DEF ConnRec, TwReschedule
<1> HIDE DEF d
<1>3. Timed(c, d)
  BY <1>1, <1>2, CoreKind DEF Timed, Fresh
<1> QED BY <1>3 DEF d

\* d is c with a receive posted.
Reading(c, d) ==
  /\ Core(c, d) /\ d.rd = c.rd + 1 /\ d.recv_armed
  /\ (d.deadline_active <=> c.deadline_active) /\ d.deadline_kind = c.deadline_kind

LEMMA PostRecvReads ==
  ASSUME NEW c \in ConnRec, NEW d \in PostRecvPtr(c)
  PROVE  \/ d = c
         \/ Reading(c, d) /\ c.fd # NoFd /\ ~ClosingNoDeadline(c) /\ ~c.recv_armed
<1>1. CASE c.fd = NoFd \/ ClosingNoDeadline(c) \/ c.recv_armed
  BY <1>1 DEF PostRecvPtr
<1>2. CASE ~(c.fd = NoFd \/ ClosingNoDeadline(c) \/ c.recv_armed)
  <2> DEFINE e == [c EXCEPT !.refcnt = @ + 1, !.rd = @ + 1, !.recv_armed = TRUE]
  <2>1. Reading(c, e)
    BY DEF ConnRec, Reading, Core, Rest
  <2> HIDE DEF e
  <2>2. d = c \/ d = e
    BY <1>2 DEF PostRecvPtr, e
  <2> QED BY <1>2, <2>1, <2>2
<1> QED BY <1>1, <1>2

-----------------------------------------------------------------------------
\* http_apply_action.

\* The parser asks for more bytes.
LEMMA ContinueLife ==
  ASSUME NEW sk, NEW c \in Good(1, sk), Quiet(c), c.key # NoFd => Heard(c),
         ClassifyAction(c) = "CONTINUE",
         NEW x \in PostRecvPtr(c)
  PROVE  LET d == TwReschedule(x)
         IN  Life(d) /\ (c.closing => d.closing) /\ d.wr = 0 /\ d.pl = 0
<1> DEFINE d == TwReschedule(x)
<1>1. c \in ConnRec /\ c.key = c.fd /\ x \in ConnRec
  BY PostRecvPtrGood DEF Good, Balance
<1>2. x = c \/ Reading(c, x)
  BY <1>1, PostRecvReads
<1>3. Timed(x, d)
  BY <1>1, RescheduleTimed
<1> HIDE DEF d
<1>4. /\ d.rd <= 1 /\ (d.recv_armed <=> d.rd = 1) /\ d.wr = 0 /\ d.pl = 0
  BY <1>2, <1>3 DEF Quiet, Timed, Reading, Core, Rest
<1>5. Core(c, d)
  BY SMTT(30), <1>2, <1>3 DEF Timed, Reading, Core, Rest
<1>6. ConnDeadlineKind(d) = ConnDeadlineKind(c)
  BY <1>5, CoreKind
<1>7. c.key # NoFd => ConnDeadlineKind(c) # "NONE"
  <2> SUFFICES ASSUME c.key # NoFd PROVE ConnDeadlineKind(c) # "NONE"
    OBVIOUS
  <2>1. c.draining \/ (c.phase # "start" /\ ~c.ka_idle)
    BY DEF Heard, ClassifyAction
  <2>2. c.phase \in Unread
    BY <1>1 DEF ConnRec, ClassifyAction, Phase, Unread
  <2> QED BY <1>1, <2>1, <2>2 DEF Quiet, ConnDeadlineKind, Unread
<1>8. d.key # NoFd => d.deadline_active
  BY <1>2, <1>3, <1>5, <1>6, <1>7, CoreKind, Zenon DEF Timed, Reading, Core, Rest
<1>9. Ops(d)
  BY <1>4, <1>5 DEF Ops, Core, Rest, Quiet
<1>10. d.key # NoFd => Open(d)
  BY SMTT(30), <1>3, <1>4, <1>5, <1>8 DEF Open, Timed, Core, Rest, Quiet
<1>11. Life(d) /\ (c.closing => d.closing)
  BY <1>5, <1>9, <1>10 DEF Life, Core, Rest
<1> QED BY <1>4, <1>11 DEF d

LEMMA RescheduledQuiet ==
  ASSUME NEW sk, NEW c \in Good(1, sk), Quiet(c)
  PROVE  LET d == TwReschedule(c) IN Quiet(d) /\ Fresh(d) /\ Core(c, d)
<1> DEFINE d == TwReschedule(c)
<1>1. Timed(c, d)
  BY RescheduleTimed, GoodIsConn
<1> HIDE DEF d
<1>2. Quiet(d) /\ Fresh(d) /\ Core(c, d)
  BY <1>1 DEF Timed, Quiet, Core, Rest
<1> QED BY <1>2 DEF d

LEMMA DrainingQuiet ==
  ASSUME NEW sk, NEW c \in Good(1, sk), Quiet(c)
  PROVE  LET d == Prepare431Draining(c)
         IN  d \in Good(1, sk) /\ Quiet(d) /\ Fresh(d) /\ d.draining /\ (c.closing => d.closing)
<1> DEFINE b == [c EXCEPT !.draining = TRUE]
<1>1. b \in Good(1, sk)
  BY SetDraining, Zenon
<1>2. Quiet(b) /\ b.draining /\ (c.closing => b.closing)
  BY GoodIsConn DEF ConnRec, Quiet
<1> HIDE DEF b
<1> DEFINE d == TwReschedule(b)
<1>3. d \in Good(1, sk) /\ Quiet(d) /\ Fresh(d) /\ Core(b, d)
  BY <1>1, <1>2, RescheduledQuiet, TwRescheduleGood
<1> HIDE DEF d
<1>4. d = Prepare431Draining(c)
  BY DEF d, b, Prepare431Draining
<1>5. d \in Good(1, sk) /\ Quiet(d) /\ Fresh(d) /\ d.draining /\ (c.closing => d.closing)
  BY <1>2, <1>3 DEF Core, Rest
<1> QED BY <1>4, <1>5

LEMMA ApplyLife ==
  ASSUME NEW sk, NEW c \in Good(1, sk), Quiet(c), c.key # NoFd => Heard(c),
         NEW f \in FdOrNone, NEW drain \in BOOLEAN, NEW ie \in BOOLEAN
  PROVE  Lives(c, HttpApplyAction(c, f, drain, ie))
<1> DEFINE r == TwReschedule(c)
           p == Prepare431Draining(c)
           error == StageHeaderResponseSend(c, f, drain, "OTHER", FALSE, TRUE)
           large == StageHeaderResponseSend(p, f, drain, "431", TRUE, FALSE)
           more == {TwReschedule(x) : x \in PostRecvPtr(c)}
           fine == DispatchOk(r, f, drain)
<1>1. "OTHER" \in RespKind \ {"NONE"} /\ "431" \in RespKind \ {"NONE"}
  BY DEF RespKind
<1>2. Ops(c)
  BY DEF Quiet, Ops
<1>3. Lives(c, Close(c))
  BY <1>2, CloseLives
<1>4. Lives(c, error)
  BY <1>1, StageHeaderLife, Zenon
<1>5. Lives(c, large)
  <2>1. p \in Good(1, sk) /\ Quiet(p) /\ Fresh(p) /\ p.draining /\ (c.closing => p.closing)
    BY DrainingQuiet
  <2> HIDE DEF p
  <2>2. Lives(p, large)
    BY <1>1, <2>1, StageHeaderLife, Zenon
  <2> QED BY <2>1, <2>2, Zenon DEF Lives
<1>6. ClassifyAction(c) = "CONTINUE" => Lives(c, more)
  BY ContinueLife DEF Lives
<1>7. ClassifyAction(c) = "RESP_OK" => Lives(c, fine) /\ Lives(c, Close(r))
  <2> SUFFICES ASSUME ClassifyAction(c) = "RESP_OK" PROVE Lives(c, fine) /\ Lives(c, Close(r))
    OBVIOUS
  <2>1. r \in Good(1, sk) /\ Quiet(r) /\ Fresh(r) /\ Core(c, r)
    BY RescheduledQuiet, TwRescheduleGood
  <2> HIDE DEF r
  <2>2. r.phase \notin Unread
    BY <2>1 DEF ClassifyAction, Unread, Core, Rest
  <2>3. Lives(r, fine)
    BY <2>1, <2>2, DispatchOkLife
  <2>4. Lives(r, Close(r))
    BY <2>1, CloseLives DEF Quiet, Ops
  <2> QED BY <2>1, <2>3, <2>4 DEF Lives, Core, Rest
<1>8. ClassifyAction(c) \in {"RESP_431", "RESP_ERROR", "CONTINUE", "RESP_OK"}
  BY DEF ClassifyAction
<1> DEFINE act == ClassifyAction(c)
           Answer(x, S) == UNION {IF ok THEN S ELSE Close(x) : ok \in Sqe}
<1>9. HttpApplyAction(c, f, drain, ie)
        = IF ie \/ act = "RESP_ERROR" THEN Answer(c, error)
          ELSE IF act = "RESP_431" THEN Answer(c, large)
          ELSE IF act = "CONTINUE" THEN more
          ELSE Answer(r, fine)
  BY DEF HttpApplyAction
<1>10. \A x, S : Lives(c, Close(x)) /\ Lives(c, S) => Lives(c, Answer(x, S))
  BY DEF Lives
<1> HIDE DEF r, p, error, large, more, fine, act, Answer
<1> QED BY <1>3, <1>4, <1>5, <1>6, <1>7, <1>8, <1>9, <1>10 DEF act

-----------------------------------------------------------------------------
\* The receive side.

LEMMA StashAndApplyLife ==
  ASSUME NEW sk, NEW c \in Good(1, sk), Quiet(c), c.key # NoFd => Heard(c),
         NEW f \in FdOrNone, NEW drain \in BOOLEAN, NEW n \in Nat, NEW ie \in BOOLEAN
  PROVE  Lives(c, StashAndApply(c, f, drain, n, ie))
<1>1. ASSUME NEW x \in StashAppendOk(c, n)
      PROVE  Lives(c, HttpApplyAction(x, f, drain, ie))
  <2>1. c.stash + n \in 0 .. StashCap /\ x = [c EXCEPT !.stash = c.stash + n]
    BY GoodIsConn, Members, SizeAssumption DEF StashAppendOk, StashFits
  <2>2. x \in Good(1, sk)
    BY <2>1, SetStash
  <2>3. Quiet(x) /\ (x.key # NoFd => Heard(x)) /\ (c.closing => x.closing)
    BY <2>1, GoodIsConn DEF ConnRec, Quiet, Heard
  <2>4. Lives(x, HttpApplyAction(x, f, drain, ie))
    BY <2>2, <2>3, ApplyLife
  <2> QED BY <2>3, <2>4 DEF Lives
<1>2. ASSUME NEW x \in Close(c)
      PROVE  Lives(c, HttpApplyAction(x, f, drain, ie))
  <2>1. Quiet(x) /\ x.key = NoFd /\ (c.closing => x.closing) /\ x \in Good(1, sk)
    BY CloseQuiet, CloseGood, Zenon DEF Close
  <2>2. Lives(x, HttpApplyAction(x, f, drain, ie))
    BY <2>1, ApplyLife
  <2> QED BY <2>1, <2>2 DEF Lives
<1> QED BY <1>1, <1>2 DEF StashAndApply, Lives

LEMMA ReadBytesLife ==
  ASSUME NEW sk, NEW c \in Good(1, sk), Quiet(c), NEW drain \in BOOLEAN
  PROVE  Lives(c, ReadBytes(c, drain))
<1> DEFINE m == [MarkActivity(c) EXCEPT !.noselect_streak = 0]
<1>1. m \in Good(1, sk)
  BY DeadlineOpsGood, SetStreak
<1>2. Quiet(m) /\ ~m.ka_idle /\ (c.closing => m.closing)
  BY GoodIsConn DEF ConnRec, Quiet, MarkActivity
<1>3. c.fd \in FdOrNone /\ StashCap \in Nat
  BY GoodIsConn, Members, SizeAssumption
<1> HIDE DEF m
<1>4. CASE m.too_big \/ m.phase \in {"done", "error"}
  <2>1. Heard(m)
    BY <1>2, <1>4 DEF Heard
  <2>2. \A n \in 1 .. StashCap : Lives(m, StashAndApply(m, c.fd, drain, n, FALSE))
    <3>1. 1 .. StashCap \subseteq Nat /\ FALSE \in BOOLEAN
      BY <1>3
    <3>2. \A n \in Nat : Lives(m, StashAndApply(m, c.fd, drain, n, FALSE))
      BY <1>1, <1>2, <1>3, <2>1, <3>1, StashAndApplyLife, Zenon
    <3> QED BY <3>1, <3>2, Zenon
  <2>3. ReadBytes(c, drain)
          = UNION {StashAndApply(m, c.fd, drain, n, FALSE) : n \in 1 .. StashCap}
    BY <1>4, Zenon DEF ReadBytes, m
  <2> QED BY <1>2, <2>2, <2>3, Zenon DEF Lives
<1>5. CASE ~(m.too_big \/ m.phase \in {"done", "error"})
  <2>1. ASSUME NEW x \in HttpPipelineFeed(m), NEW ie \in BOOLEAN
        PROVE  Lives(m, ReadFed(x, c.fd, drain, ie))
    <3>1. x \in Good(1, sk)
      BY <1>1, FeedGood
    <3>2. PICK p \in PhaseAfter(m), big \in BOOLEAN : x = Parsed(m, p, big)
      BY DEF HttpPipelineFeed
    <3>3. Quiet(x) /\ Heard(x) /\ (m.closing => x.closing)
      <4>1. p # "start"
        BY DEF PhaseAfter
      <4> QED BY <1>1, <1>2, <3>2, <4>1, GoodIsConn DEF ConnRec, Quiet, Heard, Parsed
    <3>4. \A n \in Unconsumed(x, StashCap) : Lives(x, StashAndApply(x, c.fd, drain, n, ie))
      BY <1>3, <3>1, <3>3, UnconsumedType, StashAndApplyLife
    <3> QED BY <3>3, <3>4 DEF ReadFed, Lives
  <2>2. ReadBytes(c, drain)
          = UNION {ReadFed(x, c.fd, drain, TRUE) \cup ReadFed(x, c.fd, drain, FALSE) :
                     x \in HttpPipelineFeed(m)}
    BY <1>5 DEF ReadBytes, m
  <2> QED BY <1>2, <2>1, <2>2, Zenon DEF Lives
<1> QED BY <1>4, <1>5

LEMMA RepostLife ==
  ASSUME NEW sk, NEW c \in Good(1, sk), Quiet(c), c.deadline_active, Fresh(c)
  PROVE  Lives(c, RepostRecv(c))
<1> SUFFICES ASSUME NEW d \in RepostRecv(c) PROVE Life(d) /\ (c.closing => d.closing)
  BY DEF Lives
<1>1. d = c \/ Reading(c, d)
  BY GoodIsConn, PostRecvReads DEF RepostRecv
<1>2. Core(c, d) /\ d.deadline_active /\ d.deadline_kind = c.deadline_kind
      /\ d.rd <= 1 /\ (d.rd = 1 <=> d.recv_armed)
  BY <1>1 DEF Quiet, Reading, Core, Rest
<1>3. Fresh(d)
  BY <1>2, CoreKind DEF Fresh
<1> QED BY <1>2, <1>3 DEF Core, Rest, Quiet, Life, Ops, Open

\* OP_READ
LEMMA ReadLife ==
  ASSUME NEW sk, NEW e \in ConnRec, Life(e), e.rd > 0, [e EXCEPT !.rd = @ - 1] \in Good(1, sk),
         NEW drain \in BOOLEAN, NEW res
  PROVE  Lives(e, ReadHandleCqe([e EXCEPT !.rd = @ - 1], drain, res))
<1> DEFINE c == [e EXCEPT !.rd = @ - 1]
           r == [c EXCEPT !.recv_armed = FALSE]
           s == [r EXCEPT !.noselect_streak = @ + 1]
<1>1. Core(e, c) /\ c.rd = e.rd - 1 /\ (c.recv_armed <=> e.recv_armed)
      /\ (c.deadline_active <=> e.deadline_active) /\ c.deadline_kind = e.deadline_kind
  BY DEF ConnRec, Core, Rest
<1>2. e.rd = 1 /\ e.recv_armed
  BY Members DEF Life, Ops
<1>3. c \in Good(1, sk) /\ c.key = c.fd
  BY Zenon DEF Good, Balance
<1> HIDE DEF c
<1>4. Fresh(e) => Fresh(c)
  BY <1>1, CoreKind DEF Fresh
<1>5. CASE c.fd = NoFd \/ c.closing
  <2>1. Ops(c)
    BY <1>1, <1>2 DEF Core, Rest, Life, Ops
  <2>2. c.key # NoFd => Open(c)
    <3>1. TxPendingHeaders(c) <=> TxPendingHeaders(e)
      BY <1>1, CoreKind, Zenon
    <3>2. e.key = c.key /\ (c.key # NoFd => c.closing)
      BY <1>1, <1>3, <1>5, Zenon DEF Core, Rest
    <3>3. ASSUME c.key # NoFd PROVE Open(e) /\ c.closing /\ Fresh(c)
      BY <1>4, <3>2, <3>3, Zenon DEF Life, Open
    <3>4. ASSUME c.key # NoFd PROVE c.wr + c.pl = 1 => Sending(c)
      BY <1>1, <3>3, <3>4, Zenon DEF Core, Rest, Open, Sending
    <3> QED BY <1>1, <3>1, <3>3, <3>4, Zenon DEF Core, Rest, Open
  <2>3. ReadHandleCqe(c, drain, res) = {c}
    BY <1>5 DEF ReadHandleCqe
  <2> QED BY <1>1, <2>1, <2>2, <2>3, Zenon DEF Lives, Life, Core, Rest, c
<1>6. CASE ~(c.fd = NoFd \/ c.closing)
  <2>1. /\ r \in Good(1, sk) /\ s \in Good(1, sk)
        /\ Core(c, r) /\ r.rd = c.rd /\ ~r.recv_armed
        /\ (r.deadline_active <=> c.deadline_active) /\ r.deadline_kind = c.deadline_kind
        /\ Core(c, s) /\ s.rd = c.rd /\ ~s.recv_armed
        /\ (s.deadline_active <=> c.deadline_active) /\ s.deadline_kind = c.deadline_kind
    <3>1. r \in Good(1, sk)
      BY <1>3, SetRecvArmed, Zenon
    <3>2. s \in Good(1, sk)
      <4> HIDE DEF r
      <4>1. r.noselect_streak + 1 \in Nat
        BY <3>1, GoodIsConn, Members
      <4> QED BY <3>1, <4>1, SetStreak, Zenon
    <3> QED BY <1>3, <3>1, <3>2, GoodIsConn DEF ConnRec, Core, Rest
  <2> HIDE DEF r, s
  <2>2. c.rd = 0 /\ c.wr = 0 /\ c.pl = 0 /\ ~c.write_poll_armed /\ c.deadline_active
        /\ Fresh(c) /\ ~c.closing /\ (c.drain_after_headers => c.draining)
    <3>1. e.key # NoFd /\ ~e.closing
      BY <1>1, <1>3, <1>6 DEF Core, Rest
    <3>2. e.wr + e.pl # 1
      BY <1>2, <3>1 DEF Life, Open, Sending
    <3>3. e.wr = 0 /\ e.pl = 0
      BY <3>2, Members DEF Life, Ops
    <3> QED BY <1>1, <1>2, <1>4, <3>1, <3>3 DEF Core, Rest, Life, Ops, Open
  <2>3. \A x \in {r, s} : Quiet(x) /\ x.deadline_active /\ Fresh(x) /\ Ops(x)
                          /\ (e.closing => x.closing)
    BY <1>1, <2>1, <2>2, CoreKind DEF Quiet, Core, Rest, Fresh, Ops
  <2>4. \A x \in {r, s} : Lives(x, Close(x)) /\ Lives(x, RepostRecv(x))
                          /\ Lives(x, ReadBytes(x, drain))
    BY <2>1, <2>3, CloseLives, RepostLife, ReadBytesLife
  <2>5. ReadHandleCqe(c, drain, res) \subseteq
          Close(s) \cup RepostRecv(s) \cup Close(r) \cup RepostRecv(r) \cup ReadBytes(r, drain)
    BY <1>6 DEF ReadHandleCqe, ReadNoBuffer, r, s
  <2> QED BY <2>3, <2>4, <2>5 DEF Lives, c
<1> QED BY <1>5, <1>6

-----------------------------------------------------------------------------
\* The send side.

\* Inside the handler of a send or of a write poll: the next piece of the
\* response is to be sent, or the response is complete.
Idle(c) ==
  /\ Ops(c) /\ c.wr = 0 /\ c.pl = 0
  /\ c.key # NoFd =>
       /\ c.recv_armed => c.rd = 1 \/ c.closing
       /\ ~c.write_poll_armed
       /\ c.keepalive => ~c.closing
       /\ Sending(c)

LEMMA SendingTimed ==
  ASSUME NEW c, c.fd # NoFd, Sending(c), WriteInProgress(c)
  PROVE  ConnDeadlineKind(c) # "NONE"
  BY DEF Sending, ConnDeadlineKind, Unread

LEMMA ArmedIdle ==
  ASSUME NEW sk, NEW c \in Good(1, sk), Idle(c), c.key # NoFd
  PROVE  LET d == ArmWriteTimeout(c)
         IN  /\ d \in Good(1, sk) /\ Idle(d) /\ Fresh(d) /\ d.write_start
             /\ d.key = c.key /\ d.file_rem = c.file_rem /\ d.write_rem = c.write_rem
             /\ (d.write_buf <=> c.write_buf) /\ (d.closing <=> c.closing)
             /\ WriteInProgress(d) => d.deadline_active
<1> DEFINE b == [c EXCEPT !.write_start = TRUE]
           d == TwReschedule(b)
<1>1. b \in Good(1, sk) /\ d \in Good(1, sk)
  BY SetWriteStart, TwRescheduleGood, Zenon
<1>2. /\ Idle(b) /\ b.write_start /\ Sending(b) /\ b.fd = c.fd
      /\ b.key = c.key /\ b.file_rem = c.file_rem /\ b.write_rem = c.write_rem
      /\ (b.write_buf <=> c.write_buf) /\ (b.closing <=> c.closing)
  BY GoodIsConn DEF ConnRec, Idle, Ops, Sending
<1> HIDE DEF b
<1>3. Timed(b, d)
  BY <1>1, RescheduleTimed, GoodIsConn
<1>4. d = ArmWriteTimeout(c)
  BY DEF ArmWriteTimeout, b
<1> HIDE DEF d
<1>5. Idle(d) /\ Fresh(d)
  BY <1>2, <1>3 DEF Timed, Core, Rest, Idle, Ops, Sending
<1>6. WriteInProgress(d) => d.deadline_active
  <2>1. WriteInProgress(d) => WriteInProgress(b)
    BY <1>3 DEF Timed, Core, Rest, WriteInProgress
  <2>2. b.fd # NoFd
    BY <1>2 DEF Good, Balance
  <2> QED BY <1>2, <1>3, <2>1, <2>2, SendingTimed DEF Timed
<1> QED BY <1>1, <1>2, <1>3, <1>4, <1>5, <1>6 DEF Timed, Core, Rest

\* worker_loop_write_post_remaining
LEMMA WritePostRemainingLife ==
  ASSUME NEW sk, NEW c \in Good(1, sk), Idle(c), Fresh(c), c.key # NoFd, TxPendingHeaders(c),
         NEW guard \in BOOLEAN, guard => c.deadline_active
  PROVE  Lives(c, WritePostRemaining(c, guard))
<1> DEFINE d == PostSend(c, c.fd)
<1>1. /\ Rest(c, d) /\ d.rd = c.rd /\ d.wr = c.wr + 1 /\ d.pl = c.pl
      /\ (d.recv_armed <=> c.recv_armed) /\ (d.write_poll_armed <=> c.write_poll_armed)
      /\ (d.deadline_active <=> c.deadline_active) /\ d.deadline_kind = c.deadline_kind
  BY GoodIsConn DEF ConnRec, Rest, PostSend
<1> HIDE DEF d
<1>2. Life(d) /\ (c.closing => d.closing)
  <2>1. Fresh(d) /\ TxPendingHeaders(d)
    BY <1>1, RestKind DEF Fresh
  <2>2. d.wr = 1 /\ d.pl = 0
    BY <1>1 DEF Idle
  <2>3. Ops(d)
    BY SMTT(30), <1>1, <2>2 DEF Idle, Ops, Rest
  <2>4. Sending(d)
    BY <1>1 DEF Idle, Sending, Rest
  <2> QED BY <1>1, <2>1, <2>2, <2>3, <2>4 DEF Idle, Life, Open, Rest
<1>3. guard => Life(c)
  BY DEF Idle, Life, Open
<1>4. Lives(c, Close(c))
  BY CloseLives DEF Idle
<1>5. \A x \in WritePostRemaining(c, guard) : x = d \/ x \in Close(c) \/ (x = c /\ guard)
  BY DEF WritePostRemaining, d
<1> QED BY <1>2, <1>3, <1>4, <1>5 DEF Lives

\* worker_loop_write_arm_pollout
LEMMA WriteArmPolloutLife ==
  ASSUME NEW sk, NEW c \in Good(1, sk), Idle(c), c.key # NoFd,
         TxPendingHeaders(c) \/ c.file_rem > 0
  PROVE  Lives(c, WriteArmPollout(c))
<1> DEFINE a == ArmWriteTimeout(c)
           d == [a EXCEPT !.refcnt = @ + 1, !.pl = @ + 1, !.write_poll_armed = TRUE]
<1>1. /\ a \in Good(1, sk) /\ Idle(a) /\ Fresh(a) /\ a.write_start
      /\ a.key = c.key /\ a.file_rem = c.file_rem /\ a.write_rem = c.write_rem
      /\ (a.write_buf <=> c.write_buf) /\ (a.closing <=> c.closing)
      /\ WriteInProgress(a) => a.deadline_active
  BY ArmedIdle
<1> HIDE DEF a
<1>2. TxPendingHeaders(a) \/ a.file_rem > 0
  BY <1>1 DEF TxPendingHeaders
<1>3. a.deadline_active
  BY <1>1, <1>2 DEF WriteInProgress, TxPendingHeaders
<1>4. /\ Rest(a, d) /\ d.rd = a.rd /\ d.wr = a.wr /\ d.pl = a.pl + 1
      /\ (d.recv_armed <=> a.recv_armed) /\ d.write_poll_armed
      /\ (d.deadline_active <=> a.deadline_active) /\ d.deadline_kind = a.deadline_kind
  BY <1>1, GoodIsConn DEF ConnRec, Rest
<1> HIDE DEF d
<1>5. Life(d) /\ (c.closing => d.closing)
  <2>1. Fresh(d) /\ (TxPendingHeaders(d) \/ d.file_rem > 0)
    BY <1>1, <1>2, <1>4, RestKind DEF Fresh, Rest
  <2>2. d.wr = 0 /\ d.pl = 1
    BY SMTT(30), <1>1, <1>4 DEF Idle
  <2>3. Ops(d)
    BY SMTT(30), <1>1, <1>4, <2>2 DEF Idle, Ops, Rest
  <2>4. Sending(d)
    BY <1>1, <1>4 DEF Idle, Sending, Rest
  <2> QED BY <1>1, <1>4, <2>1, <2>2, <2>3, <2>4 DEF Idle, Life, Open, Rest
<1>6. Life(a) /\ (c.closing => a.closing)
  BY <1>1, <1>3 DEF Idle, Life, Open
<1>7. Lives(a, Close(a))
  BY <1>1, CloseLives DEF Idle
<1>8. \A x \in WriteArmPollout(c) : x = d \/ x \in Close(a) \/ x = a
  BY DEF WriteArmPollout, Idle, a, d
<1> QED BY <1>1, <1>5, <1>6, <1>7, <1>8 DEF Lives

LEMMA ClearedIdle ==
  ASSUME NEW sk, NEW c \in Good(1, sk), Idle(c)
  PROVE  LET d == ClearWriteTimeout(c)
         IN  /\ d \in Good(1, sk) /\ Idle(d) /\ d.key = c.key
             /\ (d.closing <=> c.closing) /\ (d.draining <=> c.draining)
             /\ (d.keepalive <=> c.keepalive)
             /\ c.write_start => /\ Fresh(d)
                                 /\ d.deadline_active <=> ConnDeadlineKind(d) # "NONE"
<1> DEFINE b == [c EXCEPT !.write_start = FALSE]
           d == TwReschedule(b)
<1>1. b \in Good(1, sk) /\ d \in Good(1, sk)
  BY SetWriteStart, TwRescheduleGood, Zenon
<1>2. /\ Idle(b) /\ b.key = c.key /\ (b.closing <=> c.closing) /\ (b.draining <=> c.draining)
      /\ b.keepalive <=> c.keepalive
  BY GoodIsConn DEF ConnRec, Idle, Ops, Sending
<1> HIDE DEF b
<1>3. Timed(b, d)
  BY <1>1, RescheduleTimed, GoodIsConn
<1>4. ClearWriteTimeout(c) = IF c.write_start THEN d ELSE c
  BY DEF ClearWriteTimeout, b
<1> HIDE DEF d
<1>5. Idle(d) /\ Fresh(d) /\ (d.deadline_active <=> ConnDeadlineKind(d) # "NONE")
  BY SMTT(30), <1>2, <1>3, CoreKind DEF Timed, Core, Rest, Idle, Ops, Sending
<1> QED BY <1>1, <1>2, <1>3, <1>4, <1>5 DEF Timed, Core, Rest

LEMMA ClearedCloseLives ==
  ASSUME NEW sk, NEW c \in Good(1, sk), Idle(c)
  PROVE  Lives(c, Close(ClearWriteTimeout(c)))
<1> DEFINE d == ClearWriteTimeout(c)
<1>1. d \in Good(1, sk) /\ Idle(d) /\ (d.closing <=> c.closing)
  BY ClearedIdle
<1> HIDE DEF d
<1>2. Lives(d, Close(d))
  BY <1>1, CloseLives DEF Idle
<1>3. Lives(c, Close(d))
  BY <1>1, <1>2 DEF Lives
<1> QED BY <1>3 DEF d

\* A response that refuses a request is out: the rest of the request is read
\* and dropped.
LEMMA ShutWrAndReadLife ==
  ASSUME NEW sk, NEW c \in Good(1, sk), Idle(c), c.key # NoFd, c.write_start, c.draining
  PROVE  Lives(c, ShutWrAndRead(c))
<1> DEFINE b == ClearWriteTimeout(c)
           d == [b EXCEPT !.shut = TRUE]
<1>1. /\ b \in Good(1, sk) /\ Idle(b) /\ b.key = c.key /\ (b.closing <=> c.closing) /\ b.draining
      /\ Fresh(b) /\ (b.deadline_active <=> ConnDeadlineKind(b) # "NONE")
  BY ClearedIdle
<1> HIDE DEF b
<1>2. /\ Core(b, d) /\ d.rd = b.rd /\ (d.recv_armed <=> b.recv_armed)
      /\ (d.deadline_active <=> b.deadline_active) /\ d.deadline_kind = b.deadline_kind
  BY <1>1, GoodIsConn DEF ConnRec, Core, Rest
<1>6. d \in ConnRec
  BY <1>1, SetShut, GoodIsConn, Zenon
<1> HIDE DEF d
<1>3. b.deadline_active
  BY <1>1 DEF ConnDeadlineKind, Good, Balance
<1>4. ASSUME NEW x \in PostRecvPtr(d)
      PROVE  Life(x) /\ (c.closing => x.closing)
  <2>1. x = d \/ (Reading(d, x) /\ ~d.recv_armed)
    BY Zenon, <1>6, PostRecvReads
  <2>2. Core(b, x) /\ x.deadline_active /\ x.deadline_kind = b.deadline_kind
    <3>1. CASE x = d
      BY Zenon, <1>2, <1>3, <3>1
    <3>2. CASE Reading(d, x)
      BY Zenon, <1>2, <1>3, <3>2, CoreTwice DEF Reading
    <3> QED BY <2>1, <3>1, <3>2
  <2>3. d.rd \in Nat /\ Ops(d) /\ (d.recv_armed => d.rd = 1 \/ d.closing)
    BY <1>1, <1>2, <1>6, Members DEF Idle, Ops, Core, Rest
  <2>4. x.rd <= 1 /\ (x.rd = 1 => x.recv_armed) /\ (x.recv_armed => x.rd = 1 \/ x.closing)
    BY <2>1, <2>3 DEF Ops, Reading
  <2>5. Fresh(x)
    BY <1>1, <1>3, <2>2, CoreKind DEF Fresh
  <2> QED BY <1>1, <2>2, <2>4, <2>5 DEF Idle, Life, Ops, Open, Core, Rest
<1>5. ShutWrAndRead(c) = PostRecvPtr(d)
  BY DEF ShutWrAndRead, b, d
<1> QED BY <1>4, <1>5 DEF Lives

-----------------------------------------------------------------------------
\* The next request on a connection that is kept.

\* A connection that waits for a request, or whose last response is on its way.
LEMMA AwaitLife ==
  ASSUME NEW sk, NEW c \in Good(1, sk), Life(c),
         c.key # NoFd /\ c.wr + c.pl = 1 => ClosingNoDeadline(c)
  PROVE  Lives(c, AwaitRequest({c}))
<1> SUFFICES ASSUME NEW x \in PostRecvPtr(c)
             PROVE  Life(TwReschedule(x)) /\ (c.closing => TwReschedule(x).closing)
  BY DEF AwaitRequest, Lives
<1> DEFINE d == TwReschedule(x)
<1>1. c \in ConnRec /\ c.key = c.fd /\ x \in ConnRec
  BY PostRecvPtrGood DEF Good, Balance
<1>2. x = c \/ (Reading(c, x) /\ c.fd # NoFd /\ ~ClosingNoDeadline(c) /\ ~c.recv_armed)
  BY <1>1, PostRecvReads
<1>3. Timed(x, d)
  BY <1>1, RescheduleTimed
<1> HIDE DEF d
<1>4. Core(c, d)
  BY SMTT(30), <1>2, <1>3 DEF Timed, Reading, Core, Rest
<1>5. c.rd \in Nat /\ c.wr \in Nat /\ c.pl \in Nat
  BY <1>1, Members
<1>6. /\ d.rd <= 1 /\ (d.rd = 1 => d.recv_armed)
      /\ d.rd = c.rd \/ (d.rd = 1 /\ c.key # NoFd /\ c.wr + c.pl # 1)
      /\ c.key # NoFd => (d.recv_armed => d.rd = 1 \/ d.closing)
  <2>1. d.rd = x.rd /\ (d.recv_armed <=> x.recv_armed) /\ (d.closing <=> c.closing)
    BY <1>3, <1>4 DEF Timed, Core, Rest
  <2>2. CASE x = c
    BY <2>1, <2>2 DEF Life, Ops, Open
  <2>3. CASE Reading(c, x) /\ c.fd # NoFd /\ ~ClosingNoDeadline(c) /\ ~c.recv_armed
    <3>1. c.rd = 0
      <4>1. c.rd # 1
        BY <2>3 DEF Life, Ops
      <4> QED BY <1>5, <4>1 DEF Life, Ops
    <3>2. x.rd = 1 /\ x.recv_armed
      BY <2>3, <3>1 DEF Reading
    <3>3. c.key # NoFd /\ c.wr + c.pl # 1
      BY <1>1, <2>3
    <3> QED BY <2>1, <3>2, <3>3
  <2> QED BY <1>2, <2>2, <2>3
<1>7. Ops(d)
  BY <1>4, <1>6 DEF Life, Ops, Core, Rest
<1>8. ASSUME c.key # NoFd PROVE Open(d)
  <2>1. d.deadline_active \/ d.wr + d.pl = 1
    <3>1. CASE c.wr + c.pl = 1
      BY <1>4, <3>1 DEF Core
    <3>2. CASE c.deadline_active
      <4>1. ConnDeadlineKind(c) # "NONE"
        BY <1>8, <3>2 DEF Life, Open, Fresh
      <4>2. Core(c, x)
        BY <1>2 DEF Reading, Core, Rest
      <4> QED BY <1>3, <4>1, <4>2, CoreKind DEF Timed
    <3> QED BY <1>8, <3>1, <3>2 DEF Life, Open
  <2>2. d.wr + d.pl = 1 => Sending(d)
    BY <1>4, <1>6, <1>8 DEF Life, Open, Sending, Core, Rest
  <2>3. Fresh(d)
    BY <1>3 DEF Timed
  <2>4. TxPendingHeaders(d) <=> TxPendingHeaders(c)
    BY <1>4, CoreKind
  <2> QED BY <1>4, <1>6, <1>8, <2>1, <2>2, <2>3, <2>4 DEF Life, Open, Core, Rest
<1>9. Life(d) /\ (c.closing => d.closing)
  BY <1>4, <1>7, <1>8 DEF Life, Core, Rest
<1> QED BY <1>9 DEF d

\* What the stash held was the beginning of a request: nothing was staged, or a
\* last response was.
LEMMA ContinueClosing ==
  ASSUME NEW sk, NEW c \in Good(1, sk), Quiet(c), Heard(c), ~c.draining,
         ClassifyAction(c) = "CONTINUE",
         NEW f \in FdOrNone, NEW drain \in BOOLEAN, NEW ie \in BOOLEAN,
         NEW d \in HttpApplyAction(c, f, drain, ie)
  PROVE  d.key # NoFd /\ d.wr + d.pl = 1 => ClosingNoDeadline(d)
<1> DEFINE Shut(k) == PostSend(PrepareCloseAfterSend(TxBeginHeaders(c, k, FALSE, FALSE)), f)
<1>1. d \in Close(c) \/ d \in StageHeaderResponseSend(c, f, drain, "OTHER", FALSE, TRUE)
      \/ \E x \in PostRecvPtr(c) : d = TwReschedule(x)
  BY Zenon DEF HttpApplyAction
<1>2. CASE d \in Close(c)
  BY <1>2, CloseQuiet
<1>3. CASE d \in StageHeaderResponseSend(c, f, drain, "OTHER", FALSE, TRUE)
  <2>1. d = Shut("OTHER")
    BY <1>3, Zenon DEF StageHeaderResponseSend
  <2> QED BY <2>1, GoodIsConn DEF ConnRec, PostSend, PrepareCloseAfterSend, TwCancel,
                                  TxBeginHeaders, ClosingNoDeadline
<1>4. CASE \E x \in PostRecvPtr(c) : d = TwReschedule(x)
  <2>1. d.wr = 0 /\ d.pl = 0
    BY <1>4, ContinueLife
  <2> QED BY <2>1
<1> QED BY <1>1, <1>2, <1>3, <1>4, Zenon

\* d is c but for fields on which its life does not depend.
Alike(c, d) ==
  /\ Core(c, d) /\ d.rd = c.rd /\ (d.recv_armed <=> c.recv_armed)
  /\ (d.deadline_active <=> c.deadline_active) /\ d.deadline_kind = c.deadline_kind

LEMMA AlikeLife ==
  ASSUME NEW c, NEW d, Alike(c, d), Life(c)
  PROVE  Life(d)
<1>1. Ops(d)
  BY DEF Life, Ops, Alike, Core, Rest
<1>2. c.key # NoFd => Open(d)
  BY SMTT(30), CoreKind DEF Life, Open, Fresh, Sending, Alike, Core, Rest
<1> QED BY <1>1, <1>2 DEF Life, Alike, Core, Rest

\* conn_try_process_stash on a connection that is open and not closing.
LEMMA StashFedLife ==
  ASSUME NEW sk, NEW c \in Good(1, sk), Quiet(c), Heard(c), ~c.draining, ~c.closing,
         NEW drain \in BOOLEAN, NEW ie \in BOOLEAN
  PROVE  \A d \in StashFed(c, drain, ie) : Life(d)
<1>1. c.fd \in FdOrNone /\ c.stash \in Nat /\ c.stash <= StashCap /\ StashCap \in Nat
  BY SMTT(30), GoodIsConn, Members, SizeAssumption
<1>2. ASSUME NEW left \in Unconsumed(c, c.stash), NEW y \in ApplyStash(c, drain, left, ie)
      PROVE  /\ Life(y) /\ y \in Good(1, sk)
             /\ ClassifyAction(c) = "CONTINUE" =>
                  (y.key # NoFd /\ y.wr + y.pl = 1 => ClosingNoDeadline(y))
  <2>1. left \in 0 .. StashCap
    BY <1>1, UnconsumedType
  <2>2. PICK z \in HttpApplyAction(c, c.fd, drain, ie) : y = [z EXCEPT !.stash = left]
    BY DEF ApplyStash
  <2>3. z \in Good(1, sk)
    BY <1>1, HttpApplyActionGood
  <2>4. Life(z)
    BY <1>1, ApplyLife DEF Lives
  <2>5. ClassifyAction(c) = "CONTINUE" =>
          (z.key # NoFd /\ z.wr + z.pl = 1 => ClosingNoDeadline(z))
    BY <1>1, ContinueClosing
  <2>6. y \in Good(1, sk)
    BY <2>1, <2>2, <2>3, SetStash
  <2>7. Alike(z, y)
    BY <2>2, <2>3, GoodIsConn DEF ConnRec, Alike, Core, Rest
  <2>8. Life(y)
    BY <2>4, <2>7, AlikeLife
  <2> QED BY <2>5, <2>6, <2>7, <2>8 DEF Alike, Core, Rest, ClosingNoDeadline
<1>3. ASSUME NEW left \in Unconsumed(c, c.stash), ClassifyAction(c) = "CONTINUE",
             NEW d \in AwaitRequest(ApplyStash(c, drain, left, ie))
      PROVE  Life(d)
  <2>1. PICK y \in ApplyStash(c, drain, left, ie) : d \in AwaitRequest({y})
    BY DEF AwaitRequest
  <2>2. Lives(y, AwaitRequest({y}))
    BY <1>2, <1>3, AwaitLife
  <2> QED BY <2>1, <2>2 DEF Lives
<1> QED BY <1>2, <1>3 DEF StashFed

\* The keep-alive branch.
LEMMA NextRequestLife ==
  ASSUME NEW sk, NEW c \in Good(1, sk), Idle(c), c.key # NoFd, c.keepalive,
         NEW drain \in BOOLEAN
  PROVE  Lives(c, NextRequest(c, drain))
<1> DEFINE b == ClearWriteTimeout(c)
           t == [TxReset(b) EXCEPT
                   !.phase = "start", !.too_big = FALSE, !.ka_idle = TRUE, !.closing = FALSE,
                   !.write_start = FALSE, !.noselect_streak = 0, !.draining = FALSE]
           r == TwReschedule(t)
           m == MarkActivity(r)
<1>1. /\ b \in Good(1, sk) /\ Idle(b) /\ b.key = c.key /\ (b.closing <=> c.closing) /\ b.keepalive
  BY ClearedIdle
<1> HIDE DEF b
<1>2. r = ConnResetRequest(b) /\ r \in Good(1, sk)
  BY <1>1, ConnResetRequestGood, Zenon DEF ConnResetRequest
<1>3. ~c.closing /\ b.rd = 0
  <2>1. ~c.closing /\ b.rd # 1
    BY <1>1 DEF Idle, Sending
  <2>2. b.rd \in Nat
    BY <1>1, GoodIsConn, Members
  <2>3. b.rd <= 1
    BY <1>1, Zenon DEF Idle, Ops
  <2> QED BY <2>1, <2>2, <2>3
<1>4. /\ t.rd = b.rd /\ t.wr = b.wr /\ t.pl = b.pl /\ t.key = b.key /\ t.fd = b.fd
      /\ t.phase = "start" /\ ~t.closing /\ ~t.draining /\ t.ka_idle /\ ~t.keepalive
      /\ ~t.recv_armed /\ ~t.write_poll_armed /\ ~t.drain_after_headers
  BY <1>1, GoodIsConn DEF ConnRec, TxReset
<1>5. t \in ConnRec
  <2> DEFINE u == TxReset(b)
             v == [u EXCEPT !.phase = "start", !.too_big = FALSE, !.ka_idle = TRUE,
                            !.closing = FALSE]
  <2>1. u \in Good(1, sk) /\ "start" \in Phase
    BY <1>1, TxResetGood DEF Phase
  <2> HIDE DEF u
  <2>2. v \in Good(1, sk)
    BY <2>1, SetPhase, SetTooBig, SetKaIdle, SetClosing, Zenon
  <2> HIDE DEF v
  <2>3. [v EXCEPT !.write_start = FALSE, !.noselect_streak = 0, !.draining = FALSE] \in Good(1, sk)
    BY <2>2, SetWriteStart, SetStreak, SetDraining, Zenon
  <2> QED BY <2>3, GoodIsConn DEF u, v
<1> HIDE DEF t
<1>6. Timed(t, r)
  BY <1>5, RescheduleTimed
<1> HIDE DEF r
<1>7. /\ Quiet(r) /\ Fresh(r) /\ ~r.closing /\ ~r.draining /\ r.deadline_active /\ ~r.keepalive
  <2>1. ConnDeadlineKind(t) # "NONE"
    BY <1>1, <1>4 DEF ConnDeadlineKind, Good, Balance
  <2>2. r.rd = 0 /\ r.wr = 0 /\ r.pl = 0
    BY <1>1, <1>3, <1>4, <1>6 DEF Timed, Core, Idle
  <2> QED BY Zenon, <1>4, <1>6, <2>1, <2>2 DEF Timed, Core, Rest, Quiet
<1>8. ASSUME NEW d \in AwaitRequest({r}) PROVE Life(d)
  <2>1. Life(r) /\ ~(r.key # NoFd /\ r.wr + r.pl = 1)
    BY SMTT(30), <1>7 DEF Quiet, Life, Ops, Open
  <2> QED BY <1>2, <1>8, <2>1, AwaitLife DEF Lives
<1>9. ASSUME NEW x \in HttpPipelineFeed(m), NEW ie \in BOOLEAN, NEW d \in StashFed(x, drain, ie)
      PROVE  Life(d)
  <2>1. m \in Good(1, sk)
    BY <1>2, DeadlineOpsGood
  <2>2. Quiet(m) /\ ~m.ka_idle /\ ~m.draining /\ ~m.closing
    BY <1>2, <1>7, GoodIsConn DEF ConnRec, MarkActivity, Quiet
  <2> HIDE DEF m
  <2>3. x \in Good(1, sk)
    BY <2>1, FeedGood
  <2>4. PICK p \in PhaseAfter(m), big \in BOOLEAN : x = Parsed(m, p, big)
    BY DEF HttpPipelineFeed
  <2>5. Quiet(x) /\ Heard(x) /\ ~x.draining /\ ~x.closing
    <3>1. p # "start"
      BY DEF PhaseAfter
    <3> QED BY <2>1, <2>2, <2>4, <3>1, GoodIsConn DEF ConnRec, Quiet, Heard, Parsed
  <2> QED BY <1>9, <2>3, <2>5, StashFedLife
<1>10. NextRequest(c, drain) =
         IF r.stash = 0 \/ r.closing \/ r.draining
         THEN AwaitRequest({r})
         ELSE UNION {StashFed(x, drain, TRUE) \cup StashFed(x, drain, FALSE) :
                       x \in HttpPipelineFeed(m)}
  BY <1>2 DEF NextRequest, b
<1> HIDE DEF m
<1> QED BY <1>3, <1>8, <1>9, <1>10, Zenon DEF Lives

-----------------------------------------------------------------------------
\* A completed send or write poll.

LEMMA WriteOnFullResponseLife ==
  ASSUME NEW sk, NEW c \in Good(1, sk), Idle(c), c.key # NoFd, c.write_start,
         NEW drain \in BOOLEAN
  PROVE  Lives(c, WriteOnFullResponse(c, drain))
<1>1. c.draining => Lives(c, ShutWrAndRead(c))
  BY ShutWrAndReadLife
<1>2. c.keepalive => Lives(c, NextRequest(c, drain))
  BY NextRequestLife
<1>3. Lives(c, Close(ClearWriteTimeout(c)))
  BY ClearedCloseLives
<1> QED BY <1>1, <1>2, <1>3 DEF WriteOnFullResponse

\* An armed poll would have been the operation in flight.
LEMMA NothingToCancel ==
  ASSUME NEW c, Idle(c), c.key # NoFd
  PROVE  CancelWritePoll(c) = {c}
  BY Zenon DEF Idle, CancelWritePoll

LEMMA SendfileProgressLife ==
  ASSUME NEW sk, NEW c \in Good(1, sk), Idle(c), c.key # NoFd, c.write_start,
         NEW drain \in BOOLEAN
  PROVE  Lives(c, SendfileProgress(c, drain))
<1> DEFINE n == Smaller(c.file_rem, c.room)
           sent == FileSent(c, n)
           a == ArmWriteTimeout(sent)
           some == {k \in 0 .. n : k < c.file_rem}
<1>1. c.file_rem \in 0 .. MaxFile /\ c.room \in 0 .. SndBuf
  BY GoodIsConn, Members
<1>2. n \in Nat /\ n <= c.file_rem /\ n <= c.room
  BY <1>1, SizeAssumption DEF Smaller
<1> HIDE DEF n
<1>3. ASSUME NEW k \in 0 .. n
      PROVE  LET d == FileSent(c, k)
             IN  /\ d \in Good(1, sk) /\ Idle(d) /\ d.key = c.key
                 /\ d.write_start /\ (d.closing <=> c.closing)
  <2>1. c.file_rem - k \in 0 .. MaxFile /\ c.room - k \in 0 .. SndBuf
    BY <1>1, <1>2, SizeAssumption
  <2>2. FileSent(c, k) \in Good(1, sk)
    BY <2>1, SetFileRem, SetRoom, Zenon DEF FileSent
  <2> QED BY <2>2, GoodIsConn DEF ConnRec, FileSent, Idle, Ops, Sending
<1>4. /\ sent \in Good(1, sk) /\ Idle(sent) /\ sent.key # NoFd
      /\ sent.write_start /\ (sent.closing <=> c.closing)
  BY <1>2, <1>3
<1> HIDE DEF sent
<1>5. /\ a \in Good(1, sk) /\ Idle(a) /\ a.key # NoFd /\ a.file_rem = sent.file_rem
      /\ a.closing <=> sent.closing
  BY <1>4, ArmedIdle
<1> HIDE DEF a
<1>6. ASSUME NEW k \in some
      PROVE  Lives(c, Close(ClearWriteTimeout(FileSent(c, k))))
  <2> DEFINE d == FileSent(c, k)
  <2>1. d \in Good(1, sk) /\ Idle(d) /\ (d.closing <=> c.closing)
    BY <1>3
  <2> HIDE DEF d
  <2>2. Lives(d, Close(ClearWriteTimeout(d)))
    BY <2>1, ClearedCloseLives
  <2> QED BY <2>1, <2>2 DEF Lives, d
<1>7. sent.file_rem > 0 =>
        Lives(c, WriteArmPollout(a)) /\ Lives(c, WriteArmPollout(sent))
  BY <1>4, <1>5, WriteArmPolloutLife DEF Lives
<1>8. Lives(c, WriteOnFullResponse(sent, drain)) /\ CancelWritePoll(sent) = {sent}
  BY <1>4, WriteOnFullResponseLife, NothingToCancel DEF Lives
<1>9. Lives(c, WriteOnFullResponse(c, drain))
  BY WriteOnFullResponseLife
<1> HIDE DEF some
<1>10. SendfileProgress(c, drain) =
         IF c.file_rem = 0 THEN WriteOnFullResponse(c, drain)
         ELSE (UNION {Close(ClearWriteTimeout(FileSent(c, k))) : k \in some}) \cup
              (IF sent.file_rem > 0 THEN WriteArmPollout(IF n > 0 THEN a ELSE sent)
               ELSE UNION {WriteOnFullResponse(x, drain) : x \in CancelWritePoll(sent)})
  BY DEF SendfileProgress, n, sent, a, some
<1> QED BY SMTT(30), <1>6, <1>7, <1>8, <1>9, <1>10 DEF Lives

LEMMA WriteAdvanceLife ==
  ASSUME NEW sk, NEW c \in Good(1, sk), Idle(c), c.key # NoFd, NEW drain \in BOOLEAN,
         NEW n \in 1 .. Smaller(c.write_rem, c.room)
  PROVE  Lives(c, WriteAdvance(c, drain, n))
<1> DEFINE moved == [c EXCEPT !.room = @ - n]
           armed == ArmWriteTimeout(moved)
           w == [armed EXCEPT !.write_rem = @ - n]
           t == TxDiscard(w)
<1>1. /\ c.write_rem \in 0 .. MaxSend /\ c.room \in 0 .. SndBuf
      /\ n <= c.write_rem /\ n <= c.room
  BY GoodIsConn, Members, SizeAssumption DEF Smaller
<1>2. c.write_rem - n \in 0 .. MaxSend /\ c.room - n \in 0 .. SndBuf
  BY <1>1, SizeAssumption DEF Smaller
<1>3. moved \in Good(1, sk)
  BY <1>2, SetRoom
<1>4. /\ Idle(moved) /\ moved.key = c.key /\ (moved.closing <=> c.closing)
      /\ moved.write_rem = c.write_rem /\ (moved.write_buf <=> c.write_buf)
  BY GoodIsConn DEF ConnRec, Idle, Ops, Sending
<1> HIDE DEF moved
<1>5. /\ armed \in Good(1, sk) /\ Idle(armed) /\ Fresh(armed) /\ armed.write_start
      /\ armed.key # NoFd /\ armed.write_rem = c.write_rem
      /\ (armed.write_buf <=> c.write_buf) /\ (armed.closing <=> c.closing)
      /\ WriteInProgress(armed) => armed.deadline_active
  BY <1>3, <1>4, ArmedIdle
<1> HIDE DEF armed
<1>6. w \in Good(1, sk)
  BY <1>2, <1>5, SetWriteRem
<1>7. /\ Idle(w) /\ w.write_start /\ w.key # NoFd /\ w.write_rem = armed.write_rem - n
      /\ (w.write_buf <=> c.write_buf) /\ (w.closing <=> c.closing)
  BY <1>5, GoodIsConn DEF ConnRec, Idle, Ops, Sending
<1>8. ASSUME c.write_buf, w.write_rem > 0 PROVE Fresh(w) /\ w.deadline_active /\ TxPendingHeaders(w)
  <2>1. /\ w.fd = armed.fd /\ w.phase = armed.phase /\ w.deadline_kind = armed.deadline_kind
        /\ (w.draining <=> armed.draining) /\ (w.closing <=> armed.closing)
        /\ (w.ka_idle <=> armed.ka_idle) /\ (w.deadline_active <=> armed.deadline_active)
    BY <1>5, GoodIsConn DEF ConnRec
  <2>2. WriteInProgress(w) /\ WriteInProgress(armed) /\ TxPendingHeaders(w)
    BY <1>1, <1>5, <1>7, <1>8 DEF WriteInProgress, TxPendingHeaders
  <2> HIDE DEF w
  <2>3. ConnDeadlineKind(w) = ConnDeadlineKind(armed)
    BY <2>1, <2>2 DEF ConnDeadlineKind
  <2> QED BY <1>5, <2>1, <2>2, <2>3 DEF Fresh
<1>9. t \in Good(1, sk) /\ Idle(t) /\ t.write_start /\ t.key # NoFd /\ (t.closing <=> c.closing)
  <2>1. t \in Good(1, sk)
    BY <1>6, TxDiscardGood
  <2> HIDE DEF w
  <2> QED BY <1>6, <1>7, <2>1, GoodIsConn DEF ConnRec, TxDiscard, Idle, Ops, Sending
<1> HIDE DEF w, t
<1>10. CancelWritePoll(w) = {w}
  BY <1>7, NothingToCancel
<1>11. Lives(c, Close(ClearWriteTimeout(armed)))
  BY <1>5, ClearedCloseLives DEF Lives
<1>12. c.write_buf /\ w.write_rem > 0 => Lives(c, WritePostRemaining(w, TRUE))
  BY <1>6, <1>7, <1>8, WritePostRemainingLife, Zenon DEF Lives
<1>13. w.drain_after_headers => Lives(c, ShutWrAndRead(w))
  BY <1>6, <1>7, ShutWrAndReadLife DEF Lives, Idle, Ops
<1>14. Lives(c, SendfileProgress(t, drain))
  BY <1>9, SendfileProgressLife DEF Lives
<1>15. Lives(c, WriteOnFullResponse(w, drain))
  BY <1>6, <1>7, WriteOnFullResponseLife DEF Lives
<1>16. WriteAdvance(c, drain, n) =
         IF ~c.write_buf THEN Close(ClearWriteTimeout(armed))
         ELSE IF w.write_rem > 0 THEN WritePostRemaining(w, TRUE)
         ELSE IF w.drain_after_headers THEN UNION {ShutWrAndRead(x) : x \in {w}}
         ELSE IF w.file_rem > 0 THEN UNION {SendfileProgress(TxDiscard(x), drain) : x \in {w}}
         ELSE UNION {WriteOnFullResponse(x, drain) : x \in {w}}
  BY <1>10, Zenon DEF WriteAdvance, moved, armed, w
<1> QED BY <1>11, <1>12, <1>13, <1>14, <1>15, <1>16, Zenon DEF Lives, t

\* OP_WRITE
LEMMA WriteLife ==
  ASSUME NEW sk, NEW e \in ConnRec, Life(e), e.wr > 0, [e EXCEPT !.wr = @ - 1] \in Good(1, sk),
         NEW drain \in BOOLEAN, NEW res
  PROVE  Lives(e, WriteHandleCqe([e EXCEPT !.wr = @ - 1], drain, res))
<1> DEFINE c == [e EXCEPT !.wr = @ - 1]
<1>1. /\ Rest(e, c) /\ c.rd = e.rd /\ c.wr = e.wr - 1 /\ c.pl = e.pl
      /\ (c.recv_armed <=> e.recv_armed) /\ (c.write_poll_armed <=> e.write_poll_armed)
  BY DEF ConnRec, Rest
<1>2. c \in Good(1, sk) /\ c.key = c.fd
  BY Zenon DEF Good, Balance
<1> HIDE DEF c
<1>3. e.wr = 1 /\ e.pl = 0
  BY Members DEF Life, Ops
<1>4. Ops(c) /\ c.wr = 0 /\ c.pl = 0
  BY <1>1, <1>3 DEF Life, Ops, Rest
<1>5. CASE c.fd = NoFd
  <2>1. Life(c)
    BY <1>2, <1>4, <1>5 DEF Life
  <2> QED BY <1>1, <1>5, <2>1, Zenon DEF WriteHandleCqe, Lives, Rest, c
<1>6. CASE c.fd # NoFd
  <2>1. c.key # NoFd /\ Idle(c) /\ TxPendingHeaders(c)
    <3>1. e.key # NoFd
      BY <1>1, <1>2, <1>6 DEF Rest
    <3>2. Sending(e) /\ TxPendingHeaders(e) /\ ~e.write_poll_armed
      BY <1>3, <3>1 DEF Life, Open
    <3>3. TxPendingHeaders(c) /\ Sending(c)
      BY <1>1, <3>2, RestKind DEF Sending, Rest
    <3> QED BY <1>1, <1>4, <3>1, <3>2, <3>3, Zenon DEF Life, Open, Idle, Rest
  <2>2. \A n \in 1 .. Smaller(c.write_rem, c.room) : Lives(c, WriteAdvance(c, drain, n))
    BY <1>2, <2>1, WriteAdvanceLife
  <2>3. Lives(c, WriteArmPollout(c))
    BY <1>2, <2>1, WriteArmPolloutLife
  <2>4. Lives(c, Close(ClearWriteTimeout(c)))
    BY <1>2, <2>1, ClearedCloseLives
  <2>5. Lives(c, WriteHandleCqe(c, drain, res))
    BY <1>6, <2>2, <2>3, <2>4 DEF WriteHandleCqe, Lives
  <2> QED BY <1>1, <2>5 DEF Lives, Rest, c
<1> QED BY <1>5, <1>6

\* OP_WRITE_READY
LEMMA WriteReadyLife ==
  ASSUME NEW sk, NEW e \in ConnRec, Life(e), e.pl > 0, [e EXCEPT !.pl = @ - 1] \in Good(1, sk),
         NEW drain \in BOOLEAN
  PROVE  Lives(e, WriteReadyHandleCqe([e EXCEPT !.pl = @ - 1], drain))
<1> DEFINE c == [e EXCEPT !.pl = @ - 1]
           p == [c EXCEPT !.write_poll_armed = FALSE]
<1>1. /\ Rest(e, c) /\ c.rd = e.rd /\ c.wr = e.wr /\ c.pl = e.pl - 1
      /\ (c.recv_armed <=> e.recv_armed) /\ (c.write_poll_armed <=> e.write_poll_armed)
      /\ (c.deadline_active <=> e.deadline_active) /\ c.deadline_kind = e.deadline_kind
  BY DEF ConnRec, Rest
<1>2. c \in Good(1, sk) /\ c.key = c.fd
  BY Zenon DEF Good, Balance
<1> HIDE DEF c
<1>3. e.wr = 0 /\ e.pl = 1
  BY Members DEF Life, Ops
<1>4. Ops(c) /\ c.wr = 0 /\ c.pl = 0
  BY <1>1, <1>3 DEF Life, Ops, Rest
<1>5. CASE c.fd = NoFd
  <2>1. Life(c)
    BY <1>2, <1>4, <1>5 DEF Life
  <2> QED BY <1>1, <1>5, <2>1, Zenon DEF WriteReadyHandleCqe, Lives, Rest, c
<1>6. CASE c.fd # NoFd
  <2>1. /\ Rest(c, p) /\ p.rd = c.rd /\ p.wr = c.wr /\ p.pl = c.pl
        /\ (p.recv_armed <=> c.recv_armed) /\ ~p.write_poll_armed
        /\ (p.deadline_active <=> c.deadline_active) /\ p.deadline_kind = c.deadline_kind
    BY <1>2, GoodIsConn DEF ConnRec, Rest
  <2>2. p \in Good(1, sk)
    BY <1>2, SetPollArmed, Zenon
  <2> HIDE DEF p
  <2>3. e.key # NoFd /\ Open(e) /\ Sending(e)
    BY <1>1, <1>2, <1>3, <1>6 DEF Life, Open, Rest
  <2>4. /\ p.key # NoFd /\ Idle(p) /\ Fresh(p) /\ p.write_start
        /\ TxPendingHeaders(p) \/ p.file_rem > 0
    <3>1. Rest(e, p)
      BY <1>1, <2>1 DEF Rest
    <3>2. Fresh(p)
      BY <1>1, <2>1, <2>3, <3>1, RestKind DEF Open, Fresh
    <3>3. TxPendingHeaders(p) \/ p.file_rem > 0
      BY <1>3, <2>3, <3>1, RestKind DEF Open, Rest
    <3>4. Ops(p) /\ p.wr = 0 /\ p.pl = 0
      BY <1>4, <2>1 DEF Ops, Rest
    <3>5. Sending(p)
      BY <1>1, <2>1, <2>3, <3>1 DEF Sending, Rest
    <3> QED BY <1>1, <1>3, <2>1, <2>3, <3>1, <3>2, <3>3, <3>4, <3>5 DEF Open, Idle, Rest
  <2>5. Lives(p, SendfileProgress(p, drain))
    BY <2>2, <2>4, SendfileProgressLife
  <2>6. TxPendingHeaders(p) => Lives(p, WritePostRemaining(p, FALSE))
    BY <2>2, <2>4, WritePostRemainingLife, Zenon
  <2>7. c.resp_kind # "NONE" /\ p.resp_kind # "NONE"
    BY <1>1, <2>1, <2>3 DEF Sending, Rest
  <2>8. WriteReadyHandleCqe(c, drain) =
          IF p.file_rem > 0 /\ ~TxPendingHeaders(p) THEN SendfileProgress(p, drain)
          ELSE WritePostRemaining(p, FALSE)
    BY <1>6, <2>7, Zenon DEF WriteReadyHandleCqe, p
  <2>9. Lives(p, WriteReadyHandleCqe(c, drain))
    BY <2>4, <2>5, <2>6, <2>8, Zenon
  <2> QED BY <1>1, <2>1, <2>9 DEF Lives, Rest, c
<1> QED BY <1>5, <1>6

-----------------------------------------------------------------------------
\* Steps.  d is what a step leaves of c.
Vital(c) == Life(c) /\ (c.closing => c.live)
After(c, d) == Vital(d) /\ (c.closing => d.closing \/ ~d.live)

LEMMA PutLife ==
  ASSUME NEW sk, NEW c, NEW x \in Good(1, sk), Life(x), c.closing => x.closing
  PROVE  After(c, ConnPut(x))
<1>1. x \in ConnRec /\ Balance(x, 1)
  BY DEF Good
<1>2. CASE x.refcnt = 1
  <2> DEFINE d == Recycle(x)
  <2>6. x.refcnt = Owner(x) + x.rd + x.wr + x.pl + x.cl + 1
    BY <1>1 DEF Balance
  <2>1. x.rd = 0 /\ x.wr = 0 /\ x.pl = 0 /\ x.key = NoFd
    BY <1>1, <1>2, <2>6, Members DEF Owner
  <2>2. d.rd = x.rd /\ d.wr = x.wr /\ d.pl = x.pl /\ d.key = x.key
    BY DEF Recycle, Blank
  <2>3. ~d.live /\ ~d.closing /\ ~d.drain_after_headers
    BY DEF Recycle, Blank
  <2> HIDE DEF d
  <2>4. Life(d)
    BY <2>1, <2>2, <2>3 DEF Life, Ops
  <2>5. ConnPut(x) = d
    BY <1>2 DEF ConnPut, d
  <2> QED BY <2>3, <2>4, <2>5 DEF After, Vital
<1>3. CASE x.refcnt # 1
  <2> DEFINE d == [x EXCEPT !.refcnt = @ - 1]
  <2>1. Alike(x, d) /\ (d.live <=> x.live)
    BY <1>1 DEF ConnRec, Alike, Core, Rest
  <2> HIDE DEF d
  <2>2. Life(d)
    BY <2>1, AlikeLife
  <2>3. x.live
    BY <1>1, Members DEF Balance, Owner
  <2>4. ConnPut(x) = d
    BY <1>3 DEF ConnPut, d
  <2> QED BY <2>1, <2>2, <2>3, <2>4 DEF After, Vital, Alike, Core, Rest
<1> QED BY <1>2, <1>3

LEMMA ClosedAfter ==
  ASSUME NEW c, NEW x, NEW d, Closed(x, d, 0)
  PROVE  After(c, d)
  BY DEF Closed, After, Vital, Life

\* tw_process_tick.  A header or body deadline finds no response on its way.
LEMMA ExpireLife ==
  ASSUME NEW sk, NEW c \in Good(0, sk), Life(c), c.deadline_active, NEW d \in Expire(c)
  PROVE  After(c, d)
<1> DEFINE x == [c EXCEPT !.deadline_active = FALSE]
           u == PostSend([TxBeginHeaders(x, "OTHER", FALSE, FALSE) EXCEPT !.closing = TRUE], c.fd)
           y == TwReschedule(u)
<1>1. c \in ConnRec /\ c.key # NoFd /\ c.live
  BY SMTT(30), Members DEF Good, Balance, Owner
<1>2. x \in Good(0, sk)
  <2>1. c.deadline_kind \in DeadlineKind
    BY <1>1 DEF ConnRec
  <2>2. [c EXCEPT !.deadline_kind = c.deadline_kind, !.deadline_active = FALSE] \in Good(0, sk)
    BY <2>1, SetDeadline, Zenon
  <2>3. x = [c EXCEPT !.deadline_kind = c.deadline_kind, !.deadline_active = FALSE]
    BY <1>1, Zenon DEF ConnRec
  <2> QED BY <2>2, <2>3
<1>3. Ops(x) /\ x.key = c.key
  BY <1>1 DEF ConnRec, Life, Ops
<1>4. ASSUME NEW abortive \in BOOLEAN, d \in ScheduleOrSyncClose(x, abortive)
      PROVE  After(c, d)
  <2> HIDE DEF x
  <2>1. Closed(x, d, 0)
    BY <1>1, <1>2, <1>3, <1>4, CloseCloses
  <2> QED BY <2>1, ClosedAfter
<1>5. CASE c.deadline_kind \in {"HEADER", "BODY"} /\ d = y
  <2>1. c.wr = 0 /\ c.pl = 0 /\ ~c.closing /\ ~c.write_poll_armed
    <3>1. ConnDeadlineKind(c) \in {"HEADER", "BODY"}
      BY <1>1, <1>5 DEF Life, Open, Fresh
    <3>2. ~c.draining /\ ~c.closing /\ c.phase \in Unread
      BY <3>1 DEF ConnDeadlineKind, Unread
    <3>3. c.wr + c.pl # 1
      BY <1>1, <3>2 DEF Life, Open, Sending
    <3>4. c.wr = 0 /\ c.pl = 0
      BY <1>1, <3>3, Members DEF Life, Ops
    <3> QED BY <1>1, <3>2, <3>4 DEF Life, Open
  <2>2. /\ u.rd = c.rd /\ u.wr = c.wr + 1 /\ u.pl = c.pl /\ u.key = c.key
        /\ u.resp_kind = "OTHER" /\ u.write_rem = MaxSend
        /\ u.closing /\ u.write_buf /\ ~u.keepalive /\ ~u.drain_after_headers
        /\ (u.recv_armed <=> c.recv_armed) /\ (u.write_poll_armed <=> c.write_poll_armed)
        /\ (u.live <=> c.live)
    BY <1>1 DEF ConnRec, TxBeginHeaders, PostSend
  <2>3. u \in ConnRec
    <3> DEFINE t == TxBeginHeaders(x, "OTHER", FALSE, FALSE)
               v == [t EXCEPT !.closing = TRUE]
    <3>1. v \in Good(0, sk)
      BY <1>2, TxBeginHeadersGood, SetClosing, Zenon DEF RespKind
    <3>2. v.key = c.key /\ c.fd \in FdOrNone
      BY <1>1, Members DEF ConnRec, TxBeginHeaders
    <3> HIDE DEF v
    <3>3. PostSend(v, c.fd) \in Good(0, sk)
      BY <1>1, <3>1, <3>2, PostSendGood
    <3> QED BY <3>3, GoodIsConn DEF v
  <2> HIDE DEF u
  <2>4. Timed(u, y)
    BY <2>3, RescheduleTimed
  <2>5. y.live <=> u.live
    BY SMTT(30), <2>3 DEF ConnRec, TwReschedule
  <2> HIDE DEF y
  <2>6. y.rd = c.rd /\ y.wr = 1 /\ y.pl = 0 /\ y.write_rem > 0
    BY SMTT(30), Zenon, <2>1, <2>2, <2>4, SizeAssumption DEF Timed, Core, Rest
  <2>7. Ops(y)
    BY Zenon, SMTT(30), <2>2, <2>4, <2>6 DEF Timed, Core, Rest, Life, Ops
  <2>8. Open(y)
    BY SMTT(30), <2>1, <2>2, <2>4, <2>6 DEF Timed, Core, Rest, Open, Sending, TxPendingHeaders
  <2>9. y.closing /\ y.live
    BY <1>1, <2>2, <2>4, <2>5 DEF Timed, Core, Rest
  <2> QED BY <1>5, <2>7, <2>8, <2>9 DEF After, Vital, Life
<1>6. \/ c.deadline_kind \in {"HEADER", "BODY"} /\ d = y
      \/ \E abortive \in BOOLEAN : d \in ScheduleOrSyncClose(x, abortive)
  BY Zenon DEF Expire, Close
<1> QED BY Zenon, <1>4, <1>5, <1>6

\* worker_accept_success
LEMMA AcceptLife ==
  ASSUME NEW f \in Fds, NEW d \in AcceptSuccess(f)
  PROVE  Vital(d)
<1> DEFINE b == [Blank EXCEPT !.live = TRUE, !.refcnt = 1, !.fd = f, !.key = f,
                              !.sock = f, !.room = SndBuf, !.counted = 1]
           c == TwReschedule(b)
<1>1. c = ConnInit(f) /\ c \in Good(0, f) /\ c \in ConnRec /\ c.key # NoFd /\ c.live
  <2>1. c = ConnInit(f) /\ c \in Good(0, f) /\ c.key # NoFd
    BY ConnInitGood, Zenon DEF ConnInit
  <2> HIDE DEF c
  <2> QED BY SMTT(30), <2>1, Members DEF Good, Balance, Owner
<1>2. /\ c.rd = 0 /\ c.wr = 0 /\ c.pl = 0 /\ ~c.recv_armed /\ ~c.closing
      /\ ~c.write_poll_armed /\ ~c.drain_after_headers /\ ~c.keepalive
  BY DEF Blank, TwReschedule
<1>3. c.deadline_active /\ Fresh(c)
  <2>1. f # NoFd
    BY FdsAssumption DEF NoFd
  <2>4. b.fd = f /\ b.phase = "start" /\ ~b.draining /\ ~b.closing /\ ~b.ka_idle
    BY DEF Blank
  <2>5. c.fd = f /\ c.phase = "start" /\ ~c.draining /\ ~c.closing /\ ~c.ka_idle
    BY DEF Blank, TwReschedule
  <2>6. c.deadline_kind = ConnDeadlineKind(b)
        /\ (c.deadline_active <=> ConnDeadlineKind(b) # "NONE")
    BY Zenon DEF Blank, TwReschedule
  <2> HIDE DEF b, c
  <2>2. c.deadline_kind = "INITIAL_IDLE" /\ c.deadline_active
    BY <2>1, <2>4, <2>6 DEF ConnDeadlineKind
  <2>3. ConnDeadlineKind(c) = "INITIAL_IDLE"
    BY <2>1, <2>5 DEF ConnDeadlineKind
  <2> QED BY <2>2, <2>3 DEF Fresh
<1> HIDE DEF c
<1>4. Ops(c) /\ Quiet(c)
  BY <1>2 DEF Ops, Quiet
<1>5. ASSUME NEW x \in Close(c) PROVE Vital(x)
  <2>1. Closed(c, x, 0)
    BY Zenon, <1>1, <1>4, CloseCloses DEF Close
  <2> QED BY <2>1 DEF Closed, Vital, Life
<1>6. ASSUME NEW x \in PostRecvPtr(c), x.recv_armed PROVE Vital(x)
  <2>1. Reading(c, x)
    BY <1>1, <1>2, <1>6, PostRecvReads
  <2>2. x \in Good(0, f)
    BY Zenon, <1>1, PostRecvPtrGood
  <2>3. x.rd = 1 /\ x.wr = 0 /\ x.pl = 0 /\ x.key # NoFd
    BY SMTT(30), <1>1, <1>2, <2>1 DEF Reading, Core, Rest
  <2>4. x.live
    BY <2>2, <2>3, Members DEF Good, Balance, Owner
  <2>5. Fresh(x)
    BY <1>3, <2>1, CoreKind DEF Fresh, Reading
  <2> QED BY SMTT(30), Zenon, <1>2, <1>3, <2>1, <2>3, <2>4, <2>5 DEF Reading, Core, Rest, Vital, Life, Ops, Open
<1>7. ASSUME NEW y \in Overload503(c) PROVE Vital(y)
  <2> DEFINE z == PostSend(PrepareCloseAfterSend(TxBeginHeaders(c, "503", FALSE, FALSE)), c.fd)
  <2>1. "503" \in RespKind \ {"NONE"}
    BY DEF RespKind
  <2>2. Life(z) /\ z.closing
    BY <1>1, <1>4, <2>1, ClosingResponseLife, Zenon
  <2>3. z.live
    BY <1>1 DEF ConnRec, PostSend, PrepareCloseAfterSend, TwCancel, TxBeginHeaders
  <2> HIDE DEF z
  <2>4. y = z \/ y \in Close(c)
    BY <1>7, Zenon DEF Overload503, z
  <2> QED BY <1>5, <2>2, <2>3, <2>4 DEF Vital
<1>8. \A x \in PostRecvPtr(c) : x.recv_armed \/ x = c
  BY <1>1, PostRecvReads DEF Reading
<1> QED BY Zenon, <1>1, <1>5, <1>6, <1>7, <1>8 DEF AcceptSuccess

-----------------------------------------------------------------------------
\* The inductive invariant.
LifeInv == WorkerInv /\ \A s \in Slots : Vital(conn[s])

\* What a step does to every structure.
StepLives == \A s \in Slots : After(conn[s], conn'[s])

LEMMA OneLives ==
  ASSUME LifeInv, NEW s \in Slots, NEW d, After(conn[s], d), conn' = [conn EXCEPT ![s] = d]
  PROVE  StepLives
<1>1. \A t \in Slots : conn'[t] = IF t = s THEN d ELSE conn[t]
  BY DEF LifeInv, WorkerInv, TypeOK
<1>2. \A t \in Slots : After(conn[t], conn[t])
  BY DEF LifeInv, After
<1> QED BY <1>1, <1>2 DEF StepLives

LEMMA HandledLives ==
  ASSUME LifeInv, NEW s \in Slots, NEW outcomes,
         \A c \in outcomes : c \in Good(1, conn[s].sock),
         Lives(conn[s], outcomes), Handled(s, outcomes)
  PROVE  StepLives
<1>1. PICK c \in outcomes : conn' = [conn EXCEPT ![s] = ConnPut(c)]
  BY Zenon DEF Handled
<1>2. After(conn[s], ConnPut(c))
  BY PutLife DEF Lives
<1> QED BY <1>1, <1>2, OneLives, Zenon

LEMMA InitLives == Init => LifeInv
<1>1. Vital(Blank)
  <2>1. Blank.rd = 0 /\ Blank.wr = 0 /\ Blank.pl = 0 /\ Blank.key = NoFd
    BY Zenon DEF Blank
  <2>2. ~Blank.drain_after_headers /\ ~Blank.closing
    BY Zenon DEF Blank
  <2>3. Ops(Blank)
    BY <2>1, <2>2 DEF Ops
  <2> QED BY <2>1, <2>2, <2>3 DEF Vital, Life
<1>2. Init => \A s \in Slots : conn[s] = Blank
  BY DEF Init
<1> QED BY SMTT(30), <1>1, <1>2, InitKeeps DEF LifeInv

LEMMA NextLives == LifeInv /\ [Next]_vars => StepLives
<1> SUFFICES ASSUME LifeInv, [Next]_vars PROVE StepLives
  OBVIOUS
<1> DEFINE sk(s) == conn[s].sock
<1>0. \A s \in Slots : /\ conn[s] \in Good(0, sk(s)) /\ conn[s] \in ConnRec
                       /\ Vital(conn[s]) /\ Life(conn[s])
  BY GoodIsConn DEF LifeInv, WorkerInv, Vital
<1>00. is_draining \in BOOLEAN
  BY DEF LifeInv, WorkerInv, TypeOK
<1>1. CASE UNCHANGED conn
  BY <1>0, <1>1 DEF StepLives, After
<1>2. ASSUME NEW s \in Slots, Accept(s) PROVE StepLives
  <2>1. PICK f \in FreeFds : \E c \in AcceptSuccess(f) : conn' = [conn EXCEPT ![s] = c]
    BY <1>2, Zenon DEF Accept
  <2>2. PICK c \in AcceptSuccess(f) : conn' = [conn EXCEPT ![s] = c]
    BY <2>1, Zenon
  <2>3. Vital(c)
    BY AcceptLife DEF FreeFds
  <2>4. ~conn[s].closing
    BY <1>0, <1>2 DEF Accept, Vital
  <2> QED BY <2>2, <2>3, <2>4, OneLives, Zenon DEF After
<1>3. ASSUME NEW s \in Slots, NEW res \in ReadResult, OpRead(s, res) PROVE StepLives
  <2> DEFINE c == [conn[s] EXCEPT !.rd = @ - 1]
             S == ReadHandleCqe(c, is_draining, res)
  <2>1. conn[s].rd > 0 /\ Handled(s, S)
    BY <1>3 DEF OpRead
  <2>2. c \in Good(1, sk(s))
    BY <1>0, <2>1, ReadArrived
  <2>3. Lives(conn[s], S)
    BY <1>0, <1>00, <2>1, <2>2, ReadLife
  <2>4. \A d \in S : d \in Good(1, sk(s))
    BY <1>00, <2>2, ReadHandleCqeGood
  <2> HIDE DEF S
  <2> QED BY <2>1, <2>3, <2>4, HandledLives
<1>4. ASSUME NEW s \in Slots, NEW res \in WriteResult, OpWrite(s, res) PROVE StepLives
  <2> DEFINE c == [conn[s] EXCEPT !.wr = @ - 1]
             S == WriteHandleCqe(c, is_draining, res)
  <2>1. conn[s].wr > 0 /\ Handled(s, S)
    BY <1>4 DEF OpWrite
  <2>2. c \in Good(1, sk(s))
    BY <1>0, <2>1, WriteArrived
  <2>3. Lives(conn[s], S)
    BY <1>0, <1>00, <2>1, <2>2, WriteLife
  <2>4. \A d \in S : d \in Good(1, sk(s))
    BY <1>00, <2>2, WriteHandleCqeGood
  <2> HIDE DEF S
  <2> QED BY <2>1, <2>3, <2>4, HandledLives
<1>5. ASSUME NEW s \in Slots, OpWriteReady(s) PROVE StepLives
  <2> DEFINE c == [conn[s] EXCEPT !.pl = @ - 1]
             S == WriteReadyHandleCqe(c, is_draining)
  <2>1. conn[s].pl > 0 /\ Handled(s, S)
    BY <1>5 DEF OpWriteReady
  <2>2. c \in Good(1, sk(s))
    BY <1>0, <2>1, PollArrived
  <2>3. Lives(conn[s], S)
    BY <1>0, <1>00, <2>1, <2>2, WriteReadyLife
  <2>4. \A d \in S : d \in Good(1, sk(s))
    BY <1>00, <2>2, WriteReadyHandleCqeGood
  <2> HIDE DEF S
  <2> QED BY <2>1, <2>3, <2>4, HandledLives
<1>6. ASSUME NEW s \in Slots, KernelClose(s) PROVE StepLives
  <2> DEFINE d == [conn[s] EXCEPT !.sock = NoFd]
  <2>1. conn' = [conn EXCEPT ![s] = d]
    BY <1>6 DEF KernelClose
  <2>2. Alike(conn[s], d) /\ (d.live <=> conn[s].live)
    BY SMTT(30), <1>0 DEF ConnRec, Alike, Core, Rest
  <2> HIDE DEF d
  <2>3. After(conn[s], d)
    BY Zenon, <1>0, <2>2, AlikeLife DEF After, Vital, Alike, Core, Rest
  <2> QED BY <2>1, <2>3, OneLives, Zenon
<1>7. ASSUME NEW s \in Slots, OpClose(s) PROVE StepLives
  <2> DEFINE d == [conn[s] EXCEPT !.cl = @ - 1, !.fd = NoFd]
  <2>1. Handled(s, {d}) /\ conn[s].cl > 0 /\ conn[s].sock = NoFd
    BY <1>7 DEF OpClose
  <2>2. d \in Good(1, sk(s))
    BY <1>0, <2>1, CloseArrived, Zenon
  <2>3. conn[s].fd = NoFd
    BY <1>0, <2>1, Members DEF Good, Balance
  <2>4. Alike(conn[s], d)
    BY SMTT(30), <1>0, <2>3 DEF ConnRec, Alike, Core, Rest
  <2> HIDE DEF d
  <2>5. Lives(conn[s], {d})
    BY SMTT(30), <1>0, <2>4, AlikeLife DEF Lives, Alike, Core, Rest
  <2> QED BY <2>1, <2>2, <2>5, HandledLives
<1>8. ASSUME NEW s \in Slots, Tick(s) PROVE StepLives
  <2>1. PICK d \in Expire(conn[s]) : conn' = [conn EXCEPT ![s] = d]
    BY <1>8, Zenon DEF Tick
  <2>2. After(conn[s], d)
    BY <1>0, <1>8, ExpireLife DEF Tick
  <2> QED BY <2>1, <2>2, OneLives, Zenon
<1>9. ASSUME NEW s \in Slots, PeerReads(s) PROVE StepLives
  <2> DEFINE d == [conn[s] EXCEPT !.room = SndBuf]
  <2>1. conn' = [conn EXCEPT ![s] = d]
    BY <1>9 DEF PeerReads
  <2>2. Alike(conn[s], d) /\ (d.live <=> conn[s].live)
    BY SMTT(30), <1>0 DEF ConnRec, Alike, Core, Rest
  <2> HIDE DEF d
  <2>3. After(conn[s], d)
    BY Zenon, <1>0, <2>2, AlikeLife DEF After, Vital, Alike, Core, Rest
  <2> QED BY <2>1, <2>3, OneLives, Zenon
<1> QED
  BY <1>1, <1>2, <1>3, <1>4, <1>5, <1>6, <1>7, <1>8, <1>9
  DEF Next, AcceptFails, EnterDrain, vars

LEMMA LifeInvariance == Spec => []LifeInv
<1>1. LifeInv /\ [Next]_vars => LifeInv'
  BY NextKeeps, NextLives DEF LifeInv, StepLives, After
<1> QED BY <1>1, InitLives, PTL DEF Spec

-----------------------------------------------------------------------------
\* Every path that changes the state of a connection recomputes or cancels its
\* deadline: tw_process_tick never applies the deadline of an earlier phase.
THEOREM DeadlinesFresh == Spec => []DeadlineFresh
<1>1. LifeInv => DeadlineFresh
  <2> SUFFICES ASSUME LifeInv, NEW s \in Slots, conn[s].deadline_active
               PROVE  conn[s].deadline_kind = ConnDeadlineKind(conn[s])
    BY DEF DeadlineFresh
  <2>1. conn[s].key # NoFd
    BY DEF LifeInv, WorkerInv, Good, Balance
  <2> QED BY <2>1 DEF LifeInv, Vital, Life, Open, Fresh
<1> QED BY <1>1, LifeInvariance, PTL

\* No open connection is forgotten: whatever submission fails, an operation is
\* in flight or a deadline will find the connection.
THEOREM NoneStranded == Spec => []NeverStranded
<1>1. LifeInv => NeverStranded
  <2> SUFFICES ASSUME LifeInv, NEW s \in Slots, conn[s].key # NoFd
               PROVE  conn[s].deadline_active \/ conn[s].rd + conn[s].wr + conn[s].pl > 0
    BY DEF NeverStranded
  <2>1. conn[s].rd \in Nat /\ conn[s].wr \in Nat /\ conn[s].pl \in Nat
    BY Zenon, GoodIsConn, Members DEF LifeInv, WorkerInv
  <2>2. conn[s].deadline_active \/ conn[s].wr + conn[s].pl = 1
    BY DEF LifeInv, Vital, Life, Open
  <2> QED BY <2>1, <2>2
<1> QED BY <1>1, LifeInvariance, PTL

\* The embedded op_read and op_write and the transmit buffer are used by one
\* operation at a time.
THEOREM OneOperationEach == Spec => []OneReaderOneWriter
<1>1. LifeInv => OneReaderOneWriter
  BY DEF LifeInv, Vital, Life, Ops, OneReaderOneWriter
<1> QED BY <1>1, LifeInvariance, PTL

\* No completion and no deadline takes back a decision to close, although
\* conn_enter_keepalive_idle clears the flag.
THEOREM ClosingForGood == Spec => CloseIsFinal
<1>1. LifeInv /\ [Next]_vars
        => [\A s \in Slots : conn[s].closing => conn'[s].closing \/ ~conn'[s].live]_vars
  BY NextLives DEF StepLives, After
<1> QED BY <1>1, LifeInvariance, PTL DEF Spec, CloseIsFinal
=============================================================================
