----------------------------- MODULE MCProtocol -----------------------------
(***************************************************************************)
(* What a connection makes of the bytes it receives, in plain text or      *)
(* under TLS, which is chosen at the start.  In plain text the streams of  *)
(* MCRequestFraming arrive in buffers cut anywhere.  Under TLS a polite    *)
(* client waits for each answer and meets a worker that has submission     *)
(* entries enough; an eager one pipelines its requests and meets a worker  *)
(* whose every submission may be refused.                                  *)
(***************************************************************************)
EXTENDS MCRequestFraming

VARIABLES setting, t, client

Polite == INSTANCE TlsConn WITH
  ReqLen <- 3, RespLen <- 3, FlightLen <- 3, Room <- 2, ReadMax <- 1, Spins <- 3,
  StashCap <- 2, RecordSizes <- 1 .. 3, MaxRequests <- 3, Pipelined <- FALSE, Sqe <- {TRUE}
Eager == INSTANCE TlsConn WITH
  ReqLen <- 2, RespLen <- 3, FlightLen <- 3, Room <- 2, ReadMax <- 4, Spins <- 2,
  StashCap <- 2, RecordSizes <- 1 .. 4, MaxRequests <- 3, Pipelined <- TRUE, Sqe <- BOOLEAN

plain == <<reqs, stream, received, stash, h1, resp, open, answers>>
tls == <<t, client>>
all == <<setting, plain, tls>>

\* The settings under TLS have no stream in plain text.
NoStream ==
  /\ reqs = <<>> /\ stream = <<>> /\ received = 0 /\ stash = <<>>
  /\ h1 = H1Init(1) /\ resp = "none" /\ open = TRUE /\ answers = <<>>

ProtocolInit ==
  \/ setting = "plain" /\ Init /\ Polite!Init
  \/ setting = "polite" /\ Polite!Init /\ NoStream
  \/ setting = "eager" /\ Eager!Init /\ NoStream

\* A stream that was read to its end, or whose connection was closed, stays.
Ended == open => resp = "none" /\ received = Len(stream)

ProtocolNext ==
  /\ UNCHANGED setting
  /\ \/ setting = "plain" /\ (Next \/ (Ended /\ UNCHANGED plain)) /\ UNCHANGED tls
     \/ setting = "polite" /\ Polite!Next /\ UNCHANGED plain
     \/ setting = "eager" /\ Eager!Next /\ UNCHANGED plain

\* The peer's bytes arrive and the worker handles every completion.
Fair(A) == setting = "polite" /\ ~t.closing /\ A /\ UNCHANGED <<setting, plain>>
ProtocolSpec ==
  /\ ProtocolInit /\ [][ProtocolNext]_all
  /\ WF_all(setting = "plain" /\ Next /\ UNCHANGED <<setting, tls>>)
  /\ WF_all(Fair(\E e \in Polite!Env : Polite!Accept(e)))
  /\ WF_all(Fair(\E e \in Polite!Env : Polite!ReadHandle(e)))
  /\ WF_all(Fair(\E e \in Polite!Env : Polite!WriteReadyHandle(e)))
  /\ WF_all(Fair(Polite!PollIn)) /\ WF_all(Fair(Polite!PollOut))
  /\ WF_all(Fair(Polite!ClientShakes)) /\ WF_all(Fair(Polite!ClientReads))

-----------------------------------------------------------------------------
\* In plain text the answers come in the order of the requests, one for each,
\* and each with the status that its own request deserves.
AnswersRight == AnswersInOrder /\ StatusDeserved

\* A TLS client that waits for its answers gets one for each request and no more.
NoAnswerInvented == setting = "polite" => Polite!NoAnswerInvented

\* A response that waits for room in the send buffer has its POLLOUT poll, also
\* when submissions are refused; otherwise the connection is closed.
ResponseWatched == setting # "plain" => Polite!ResponseWatched

\* The handshake ends, in every order of flights and room in the send buffer,
\* and a request that was then sent completely is answered.
TlsClientServed ==
  setting = "polite" => Polite!HandshakeEnds /\ Polite!EveryRequestAnswered
=============================================================================
