------------------------------ MODULE TlsConn ------------------------------
(***************************************************************************)
(* One TLS connection of a worker (worker_loop.c, tls.c).  The ring only    *)
(* polls the socket: a POLLIN poll (op_read) or a POLLOUT poll              *)
(* (op_write_ready) completes and its handler calls OpenSSL, which reads    *)
(* and writes the socket itself.                                            *)
(*                                                                          *)
(* Data are counted: requests of ReqLen chunks, read ReadMax chunks at a    *)
(* time (the 8192-byte buffer of worker_loop_tls_read_handle_cqe, against   *)
(* TLS records of up to 16384), responses of RespLen units, of which the    *)
(* send buffer of the socket holds Room.  References and deadlines are the  *)
(* same as for plaintext and are left to Conn; closing is final here.       *)
(***************************************************************************)
EXTENDS Integers, Sequences, FiniteSetsExt

CONSTANTS
  ReqLen,      \* chunks of a request
  RespLen,     \* units of a response
  FlightLen,   \* units of a flight of the handshake that the server sends
  Room,        \* units the socket's send buffer holds
  ReadMax,     \* chunks one SSL_read returns at most
  Spins,       \* SSL_reads per completion (8 in the code)
  StashCap,    \* chunks the stash holds (RBUF_SZ)
  RecordSizes, \* chunks a TLS record may carry
  MaxRequests, \* requests the client sends (a bound of the model)
  Pipelined,   \* whether the client sends a request before the last is answered
  Sqe          \* outcomes of get_sqe: {TRUE}, or BOOLEAN when the queue may be full

VARIABLES
  t,      \* the connection, its SSL object and the two socket buffers
  client  \* the peer: phase 0..3 (silent, hello, finished, closed), chunks sent

vars == <<t, client>>

Flight == 0    \* a flight of the handshake on the wire
Eof    == -1   \* the end of the stream

Conn == [open: BOOLEAN, closing: BOOLEAN, done: BOOLEAN, hs: 0..4, fl: 0..FlightLen,
         recv_armed: BOOLEAN, poll_armed: BOOLEAN,
         in: Nat, inq: Nat, out: Nat, outq: Nat,
         wire: Seq(RecordSizes \cup {Flight, Eof}), pend: Nat, room: 0..Room,
         got: 0..ReqLen, stash: 0..StashCap,
         tx: 0..RespLen, wpend: Nat, ka: BOOLEAN, serial: Nat, answered: Nat]

(* What a handler cannot choose: whether the submission queue has an entry, *)
(* whether a response that replaces a pending one lies in the same buffer,  *)
(* and whether the request allows keep-alive.                               *)
Env == [sqe: Sqe, same: BOOLEAN, ka: BOOLEAN]

(* Op applied to the value of s, computed once.                             *)
Do(Op(_), s) == CHOOSE r \in {Op(x) : x \in {s}} : TRUE

----------------------------------------------------------------------------
(* Operations of the worker.                                                *)

schedule_or_sync_close(s) ==
  [s EXCEPT !.closing = TRUE, !.in = 0, !.inq = 0, !.out = 0, !.outq = 0]

post_recv_ptr(s, e) ==
  IF s.closing \/ s.recv_armed \/ ~e.sqe THEN s
  ELSE [s EXCEPT !.recv_armed = TRUE, !.in = @ + 1]

post_tls_pollout_unchecked(s, e) ==
  IF s.poll_armed \/ ~e.sqe THEN s
  ELSE [s EXCEPT !.poll_armed = TRUE, !.out = @ + 1]

(* Both callers close the connection when the poll cannot be posted.        *)
post_tls_pollout(s, e) ==
  IF s.poll_armed THEN s
  ELSE IF ~e.sqe THEN schedule_or_sync_close(s)
  ELSE [s EXCEPT !.poll_armed = TRUE, !.out = @ + 1]

conn_reset_request_parser(s) ==
  [s EXCEPT !.tx = 0, !.wpend = 0, !.recv_armed = FALSE, !.poll_armed = FALSE]

(* The flags are cleared whatever is in flight (tx_reset).                  *)
conn_reset_request(s) ==
  [s EXCEPT !.got = 0, !.tx = 0, !.wpend = 0, !.recv_armed = FALSE, !.poll_armed = FALSE]

(* A poll that is removed completes as well.                                *)
cancel_write_poll(s, e) ==
  IF s.poll_armed /\ e.sqe /\ s.out > 0
  THEN [s EXCEPT !.poll_armed = FALSE, !.out = @ - 1, !.outq = @ + 1]
  ELSE s

----------------------------------------------------------------------------
(* OpenSSL, without partial writes: SSL_write succeeds when the whole       *)
(* record is in the send buffer, and until then must be retried with the    *)
(* same data.                                                               *)

SSL_write(s) ==
  LET k == Min({s.room, s.tx})
  IN  [s EXCEPT !.room = @ - k, !.tx = @ - k, !.wpend = s.serial]

BadRetry(s, e) == s.wpend \notin {0, s.serial} /\ ~e.same

(* Two flights are read and two are written, in turn.                       *)
AcceptStep(s) ==
  LET k == Min({s.room, s.fl}) IN
  IF s.hs \in {0, 2} /\ s.wire # <<>> /\ Head(s.wire) = Flight
  THEN [s EXCEPT !.hs = @ + 1, !.fl = FlightLen, !.wire = Tail(@)]
  ELSE IF s.hs \in {1, 3}
  THEN [s EXCEPT !.hs = IF k = s.fl THEN @ + 1 ELSE @, !.fl = @ - k, !.room = @ - k]
  ELSE s

SSL_accept(s) == Do(AcceptStep, Do(AcceptStep, Do(AcceptStep, AcceptStep(s))))

----------------------------------------------------------------------------
(* A response and what follows it.  Sending, completing a response and      *)
(* taking the next request from the stash call one another: with TLS a send *)
(* completes inside the handler that staged it.                             *)
RECURSIVE tls_try_send_pending(_, _)
RECURSIVE conn_try_process_stash(_, _)

Stage(s, e) ==
  Do(LAMBDA x : tls_try_send_pending(x, e),
     [s EXCEPT !.serial = @ + 1, !.tx = RespLen, !.ka = e.ka])

write_on_full_response(s, e) ==
  LET sent == [cancel_write_poll(s, e) EXCEPT !.answered = @ + 1] IN
  IF ~s.ka THEN schedule_or_sync_close(sent)
  ELSE Do(LAMBDA x : post_recv_ptr(conn_try_process_stash(x, e), e), conn_reset_request(sent))

tls_try_send_pending(s, e) ==
  LET written == SSL_write(s) IN
  IF s.tx = 0 THEN s
  ELSE IF BadRetry(s, e) THEN schedule_or_sync_close(s)
  ELSE IF written.tx = 0 THEN write_on_full_response(written, e)
  ELSE post_tls_pollout(written, e)

(* The bytes leave the stash after the request in them was answered.        *)
conn_try_process_stash(s, e) ==
  LET take == Min({s.stash, ReqLen})
      fed  == [s EXCEPT !.got = take]
      acted == IF take = ReqLen THEN Stage(fed, e) ELSE post_recv_ptr(fed, e)
  IN  IF s.stash = 0 THEN s
      ELSE [acted EXCEPT !.stash = Max({@ - take, 0})]

(* n chunks: those of the current request are parsed, the others stashed.   *)
process_rx_bytes(s, n, e) ==
  LET take == Min({n, ReqLen - s.got})
      left == n - take
      fed  == [s EXCEPT !.got = @ + take, !.stash = @ + left]
  IN  IF s.closing THEN s
      ELSE IF left > 0 /\ s.stash + left > StashCap THEN schedule_or_sync_close(s)
      ELSE IF fed.got = ReqLen THEN Stage(fed, e)
      ELSE post_recv_ptr(fed, e)

(* One turn of the read loop; nothing to read leaves the state as it is.    *)
ReadOnce(s, e) ==
  LET plain == IF s.pend > 0 THEN s.pend ELSE Head(s.wire)
      n     == Min({plain, ReadMax})
  IN  IF s.closing \/ (s.pend = 0 /\ s.wire = <<>>) THEN s
      ELSE IF plain = Eof THEN schedule_or_sync_close(s)
      ELSE process_rx_bytes([s EXCEPT !.pend = plain - n,
                                      !.wire = IF s.pend > 0 THEN @ ELSE Tail(@)], n, e)

tls_read_single(s, e) == post_recv_ptr(ReadOnce(s, e), e)

tls_read(s, e) ==
  LET loop[k \in 0..Spins] == IF k = 0 THEN s ELSE Do(LAMBDA x : ReadOnce(x, e), loop[k-1])
  IN  post_recv_ptr(loop[Spins], e)

tls_handshake_progress(s, e) ==
  LET after(a) ==
        CASE a.hs = 4        -> post_recv_ptr([a EXCEPT !.done = TRUE], e)
          [] a.hs \in {0, 2} -> IF a.wire # <<>> THEN schedule_or_sync_close(a)
                               ELSE post_recv_ptr(a, e)
          [] a.hs \in {1, 3} -> post_tls_pollout(a, e)
  IN  Do(after, SSL_accept(s))

----------------------------------------------------------------------------
(* Actions of the worker.                                                   *)

Init ==
  /\ t = [open |-> FALSE, closing |-> FALSE, done |-> FALSE, hs |-> 0, fl |-> FlightLen,
          recv_armed |-> FALSE, poll_armed |-> FALSE, in |-> 0, inq |-> 0, out |-> 0, outq |-> 0,
          wire |-> <<>>, pend |-> 0, room |-> Room, got |-> 0, stash |-> 0,
          tx |-> 0, wpend |-> 0, ka |-> TRUE, serial |-> 0, answered |-> 0]
  /\ client = [phase |-> 0, sent |-> 0]

(* worker_accept_success tries the handshake at once.                       *)
Accept(e) ==
  /\ ~t.open
  /\ t' = tls_handshake_progress([t EXCEPT !.open = TRUE], e)
  /\ UNCHANGED client

ReadHandle(e) ==
  LET s == [t EXCEPT !.inq = @ - 1, !.recv_armed = FALSE] IN
  /\ t.inq > 0
  /\ t' = IF t.done THEN tls_read(s, e) ELSE tls_handshake_progress(s, e)
  /\ UNCHANGED client

WriteReadyHandle(e) ==
  LET s == [t EXCEPT !.outq = @ - 1, !.poll_armed = FALSE] IN
  /\ t.outq > 0
  /\ t' = IF t.done THEN tls_try_send_pending(s, e) ELSE tls_handshake_progress(s, e)
  /\ UNCHANGED client

(* Actions of the kernel: a poll completes.                                 *)
PollIn ==
  /\ t.in > 0 /\ t.wire # <<>>
  /\ t' = [t EXCEPT !.in = @ - 1, !.inq = @ + 1]
  /\ UNCHANGED client

PollOut ==
  /\ t.out > 0 /\ t.room > 0
  /\ t' = [t EXCEPT !.out = @ - 1, !.outq = @ + 1]
  /\ UNCHANGED client

(* Actions of the client.                                                   *)
ClientShakes ==
  /\ client.phase = 0 \/ (client.phase = 1 /\ t.hs >= 2 /\ t.room = Room)
  /\ t' = [t EXCEPT !.wire = Append(@, Flight)]
  /\ client' = [client EXCEPT !.phase = @ + 1]

(* A client that does not pipeline starts a request when it has read the    *)
(* answer to the one before.                                                *)
MaySend(n) ==
  LET upto == IF Pipelined THEN MaxRequests ELSE Min({t.answered + 1, MaxRequests}) IN
  /\ client.sent + n <= upto * ReqLen
  /\ Pipelined \/ client.sent % ReqLen # 0 \/ t.room = Room

ClientSends(n) ==
  /\ client.phase = 2 /\ MaySend(n)
  /\ t' = [t EXCEPT !.wire = Append(@, n)]
  /\ client' = [client EXCEPT !.sent = @ + n]

ClientReads ==
  /\ t.room < Room
  /\ t' = [t EXCEPT !.room = @ + 1]
  /\ UNCHANGED client

ClientCloses ==
  /\ client.phase < 3
  /\ t' = [t EXCEPT !.wire = Append(@, Eof)]
  /\ client' = [client EXCEPT !.phase = 3]

(* The connection is closed, or the client has had all its answers or left. *)
Ended == t.closing \/ t.answered >= MaxRequests \/ client.phase = 3

Finished == Ended /\ UNCHANGED vars

Next ==
  \/ ~t.closing /\ \E e \in Env : Accept(e)
  \/ ~t.closing /\ \E e \in Env : ReadHandle(e)
  \/ ~t.closing /\ \E e \in Env : WriteReadyHandle(e)
  \/ ~t.closing /\ PollIn
  \/ ~t.closing /\ PollOut
  \/ ~t.closing /\ ClientShakes
  \/ ~t.closing /\ \E n \in RecordSizes : ClientSends(n)
  \/ ~t.closing /\ ClientReads
  \/ ~t.closing /\ ClientCloses
  \/ Finished

Spec == Init /\ [][Next]_vars

(* The worker handles what completes, the kernel completes polls that are   *)
(* due, and the client reads and takes its part in the handshake.           *)
Fairness ==
  /\ WF_vars(~t.closing /\ \E e \in Env : Accept(e))
  /\ WF_vars(~t.closing /\ \E e \in Env : ReadHandle(e))
  /\ WF_vars(~t.closing /\ \E e \in Env : WriteReadyHandle(e))
  /\ WF_vars(~t.closing /\ PollIn)
  /\ WF_vars(~t.closing /\ PollOut)
  /\ WF_vars(~t.closing /\ ClientShakes)
  /\ WF_vars(~t.closing /\ ClientReads)

----------------------------------------------------------------------------
(* Properties.                                                              *)

(* The connection is well formed: the stash stays within its capacity and   *)
(* the counters of polls never run below zero.                              *)
TypeOK == t \in Conn

(* Every response that process_rx_bytes or conn_try_process_stash stages    *)
(* belongs to a request of its own: there are never more responses than     *)
(* complete requests the client has sent.                                   *)
NoAnswerInvented == t.serial * ReqLen <= client.sent

(* A response that SSL_write could not place in the send buffer has its     *)
(* POLLOUT poll, armed or completed, also when submission entries run out:  *)
(* tls_try_send_pending closes the connection when it cannot post one.      *)
ResponseWatched == t.done /\ t.tx > 0 => t.closing \/ t.out + t.outq > 0

(* recv_armed tells whether a read poll of the connection is in flight, so  *)
(* post_recv_ptr never posts a second one.                                  *)
RecvTracked == t.recv_armed <=> t.in + t.inq > 0

(* The handshake of an accepted connection ends, through every order in     *)
(* which the flights and the room in the send buffer arrive.                *)
HandshakeEnds == t.open ~> (t.done \/ t.closing)

(* A request that was sent completely is answered, unless the client closes *)
(* the connection: no bytes remain unread in the SSL object and no response *)
(* remains unsent.                                                          *)
EveryRequestAnswered ==
  \A k \in 1..MaxRequests :
    (client.sent >= k * ReqLen) ~> (t.answered >= k \/ client.phase = 3)
=============================================================================
