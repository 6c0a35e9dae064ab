--------------------------- MODULE RequestFraming ---------------------------
(***************************************************************************)
(* How a connection cuts the bytes it receives into requests.              *)
(*                                                                         *)
(* The peer sends a stream of requests, several of which may be on their   *)
(* way at once.  The worker receives it in buffers cut anywhere, runs      *)
(* llhttp over a buffer in two stages (headers, then body), keeps the      *)
(* bytes behind the end of a message in the stash, and returns to them     *)
(* when the response has been sent.                                        *)
(*                                                                         *)
(* The stream is a sequence of pieces: "h" a header field, "e" the end of  *)
(* the headers, "b" body data, "z" the last chunk of a chunked body.  A    *)
(* piece is known by its place in the stream, so a buffer is a sequence of *)
(* places.  A limit of the server is a number of pieces.                   *)
(***************************************************************************)
EXTENDS Naturals, Sequences, FiniteSetsExt

CONSTANTS
  Streams,      \* the streams a peer may send: sequences of requests
  BufCap,       \* pieces a receive buffer, and the stash, can hold (RBUF_SZ)
  MaxHeader,    \* max_header_bytes
  MaxFields,    \* max_header_fields
  MaxBody       \* max_body_bytes

ASSUME LimitAssumption ==
  BufCap \in Nat \ {0} /\ MaxHeader \in Nat /\ MaxFields \in Nat /\ MaxBody \in Nat

\* A request: its method, how its body is framed, its header fields, the pieces
\* of its body, and whether it asks to keep the connection.
RequestRec == [method : {"GET", "POST"}, framing : {"none", "length", "chunked", "other"},
               valid : BOOLEAN, fields : Nat, body : Nat, ka : BOOLEAN]
ASSUME StreamsAssumption == \A r \in Streams : r \in Seq(RequestRec)

VARIABLES
  reqs,         \* what the peer sends
  stream,       \* the pieces of it
  received,     \* pieces that have been received
  stash,        \* rx_stash
  h1,           \* the parser state of the connection
  resp,         \* the status being sent, or "none"
  open,         \* the connection is open
  answers       \* the responses so far: request and status

vars == <<reqs, stream, received, stash, h1, resp, open, answers>>

-----------------------------------------------------------------------------
\* The stream.

Pieces(i, r) ==
  [j \in 1 .. r.fields |-> [req |-> i, kind |-> "h"]]
  \o <<[req |-> i, kind |-> "e"]>>
  \o [j \in 1 .. r.body |-> [req |-> i, kind |-> "b"]]
  \o (IF r.framing = "chunked" THEN <<[req |-> i, kind |-> "z"]>> ELSE <<>>)

Stream(rs) ==
  LET upto[i \in 0 .. Len(rs)] ==
        IF i = 0 THEN <<>> ELSE upto[i - 1] \o Pieces(i, rs[i])
  IN  upto[Len(rs)]

-----------------------------------------------------------------------------
\* llhttp and the parser callbacks.

\* http_parser_init and the request members of conn_reset_request.  start is
\* the place where the request begins, at the place the next piece should have,
\* left the body pieces llhttp still expects; hdr is hdr_state = 2, a field
\* that is not finalized yet.
H1Init(at) ==
  [start |-> at, at |-> at, left |-> 0, hdr |-> FALSE, paused |-> FALSE, failed |-> FALSE,
   headers_done |-> FALSE, message_done |-> FALSE, parse_error |-> FALSE,
   header_too_big |-> FALSE, unsupported_te |-> FALSE, body_too_big |-> FALSE,
   method_not_allowed |-> FALSE, want_keepalive |-> FALSE, te_chunked |-> FALSE,
   parser_bytes |-> 0, fields |-> 0, body_remaining |-> 0, body_bytes |-> 0]

OnMessageComplete(c) == [c EXCEPT !.message_done = TRUE, !.paused = TRUE]

\* h1_finalize_interested_header and http1_header_field_seen, which a field
\* meets when the next one starts or the headers end.  It pauses the parser
\* from inside a callback, which does not end the run of llhttp that called it.
HeaderFieldSeen(c) ==
  IF ~c.hdr \/ c.header_too_big THEN c
  ELSE [c EXCEPT !.fields = @ + 1,
                 !.header_too_big = MaxFields # 0 /\ c.fields + 1 > MaxFields]

OnHeaderField(c) ==
  IF c.header_too_big THEN c ELSE [HeaderFieldSeen(c) EXCEPT !.hdr = TRUE]

\* on_headers_complete
OnHeadersComplete(c, r) ==
  LET d == [HeaderFieldSeen(c) EXCEPT !.headers_done = TRUE, !.want_keepalive = r.ka,
                     !.te_chunked = (r.framing = "chunked")]
  IN  IF ~r.valid THEN [d EXCEPT !.parse_error = TRUE, !.want_keepalive = FALSE]
      ELSE IF r.framing = "other"
        THEN [d EXCEPT !.unsupported_te = TRUE, !.want_keepalive = FALSE]
      ELSE IF r.method # "GET"
        THEN [d EXCEPT !.method_not_allowed = TRUE, !.want_keepalive = FALSE,
                       !.message_done = TRUE]
      ELSE IF r.framing = "length" /\ r.body > MaxBody
        THEN [d EXCEPT !.body_too_big = TRUE, !.want_keepalive = FALSE]
      ELSE IF r.framing = "length"
        THEN [d EXCEPT !.body_remaining = r.body, !.message_done = (r.body = 0)]
      ELSE [d EXCEPT !.message_done = (r.framing = "none")]

\* What llhttp does at the end of the headers: a message without a body is
\* complete, and a transfer coding that it does not know is an error.
HeadersEnd(c, r) ==
  LET d == [OnHeadersComplete(c, r) EXCEPT !.left = r.body, !.failed = (r.framing = "other")]
  IN  IF r.framing \in {"none", "length"} /\ r.body = 0 THEN OnMessageComplete(d) ELSE d

\* on_body; a body over its limit makes llhttp fail.
OnBody(c) ==
  LET n == c.body_bytes + 1
  IN  IF n > MaxBody
      THEN [c EXCEPT !.body_bytes = n, !.body_too_big = TRUE, !.want_keepalive = FALSE,
                     !.failed = TRUE]
      ELSE [c EXCEPT !.body_bytes = n]

BodyPiece(c, r) ==
  LET d == [OnBody(c) EXCEPT !.left = @ - 1]
  IN  IF r.framing = "length" /\ d.left = 0 /\ ~d.failed THEN OnMessageComplete(d) ELSE d

\* One piece.  A piece that is not the one expected, and body data where a
\* request should start, is a syntax error.
Piece(c, p, q) ==
  LET r == reqs[p.req]
      d == [c EXCEPT !.at = q + 1]
  IN  IF q # c.at \/ (p.kind \in {"b", "z"} /\ ~c.headers_done)
        THEN [c EXCEPT !.failed = TRUE]
      ELSE IF p.kind = "h" THEN OnHeaderField(d)
      ELSE IF p.kind = "e" THEN HeadersEnd(d, r)
      ELSE IF p.kind = "b" THEN BodyPiece(d, r)
      ELSE OnMessageComplete(d)

\* llhttp_execute: the parser stops at a pause or a failure.
Execute(c, buf) ==
  LET after[i \in 0 .. Len(buf)] ==
        IF i = 0 THEN c
        ELSE LET d == after[i - 1]
             IN  IF d.paused \/ d.failed THEN d ELSE Piece(d, stream[buf[i]], buf[i])
  IN  after[Len(buf)]

Terminal(c) == c.parse_error \/ c.header_too_big \/ c.unsupported_te

\* http_pipeline_feed.  The header limit counts the bytes of every buffer that
\* is fed before the headers are complete.
CountHeader(c, n) ==
  IF c.headers_done THEN c
  ELSE [c EXCEPT !.parser_bytes = @ + n,
                 !.header_too_big = @ \/ c.parser_bytes + n > MaxHeader]

HttpPipelineFeed(c, buf) ==
  LET d == CountHeader(c, Len(buf))
      x == Execute(d, buf)
  IN  IF Terminal(c) \/ c.message_done THEN c
      ELSE IF d.header_too_big THEN d
      ELSE [x EXCEPT !.parse_error = @ \/ (x.failed /\ ~x.body_too_big)]

-----------------------------------------------------------------------------
\* The two stages of worker_loop_read_handle_cqe and conn_try_process_stash.

\* Pieces of buf that a feed used: up to the pause of a complete message, or
\* all of them.
UsedAll(x, buf) == Len(buf)
Used(x, buf) == IF x.paused THEN x.at - buf[1] ELSE Len(buf)

HeaderStage(c, buf) ==
  IF c.headers_done \/ Terminal(c) THEN [h1 |-> c, consumed |-> 0]
  ELSE LET x == HttpPipelineFeed(c, buf)
       IN  [h1 |-> x, consumed |-> Used(x, buf)]

\* A body with a Content-Length: all the pieces that were offered count as used.
LengthBody(c, buf) ==
  LET n == Min({c.body_remaining, Len(buf)})
      x == HttpPipelineFeed(c, SubSeq(buf, 1, n))
  IN  IF n = 0 THEN [h1 |-> c, consumed |-> 0]
      ELSE [h1 |-> [x EXCEPT !.body_remaining = @ - n], consumed |-> n]

ChunkedBody(c, buf) ==
  LET x == HttpPipelineFeed(c, buf)
  IN  [h1 |-> x, consumed |-> Used(x, buf)]

BodyStage(c, buf) ==
  IF buf = <<>> \/ ~c.headers_done \/ c.message_done \/ Terminal(c)
  THEN [h1 |-> c, consumed |-> 0]
  ELSE IF c.te_chunked THEN ChunkedBody(c, buf) ELSE LengthBody(c, buf)

Parse(c, buf) ==
  LET s1 == HeaderStage(c, buf)
      s2 == BodyStage(s1.h1, SubSeq(buf, s1.consumed + 1, Len(buf)))
  IN  [h1 |-> s2.h1, consumed |-> s1.consumed + s2.consumed]

\* http_pipeline_classify_action and http_pipeline_build_apply_plan: the status
\* that answers the request, "none" to read on.
StatusAtHeaders(c) ==
  IF c.header_too_big THEN "431"
  ELSE IF c.unsupported_te THEN "501"
  ELSE IF c.body_too_big THEN "413"
  ELSE IF c.parse_error THEN "400"
  ELSE IF ~c.headers_done THEN "none"
  ELSE IF c.method_not_allowed THEN "405"
  ELSE "200"
Status(c) ==
  IF c.header_too_big THEN "431"
  ELSE IF c.unsupported_te THEN "501"
  ELSE IF c.body_too_big THEN "413"
  ELSE IF c.parse_error THEN "400"
  ELSE IF ~c.message_done THEN "none"
  ELSE IF c.method_not_allowed THEN "405"
  ELSE "200"

\* The request a response answers: the one whose piece was parsed last.
Current(c) == stream[Max({c.start, c.at - 1})].req

Apply(c) ==
  /\ resp' = Status(c)
  /\ answers' = IF Status(c) = "none" THEN answers
                ELSE Append(answers, [req |-> Current(c), status |-> Status(c)])

-----------------------------------------------------------------------------
Init ==
  /\ reqs \in Streams
  /\ stream = Stream(reqs)
  /\ received = 0
  /\ stash = <<>>
  /\ h1 = H1Init(1)
  /\ resp = "none"
  /\ open = TRUE
  /\ answers = <<>>

\* OP_READ with n pieces, while no response is being sent.
Read(n) ==
  LET buf == [i \in 1 .. n |-> received + i] IN
  /\ open /\ resp = "none"
  /\ received + n <= Len(stream)
  /\ received' = received + n
  /\ \E p \in {Parse(h1, buf)} :
       LET rest == SubSeq(buf, p.consumed + 1, n) IN
       /\ h1' = p.h1
       /\ Apply(p.h1)
       /\ IF Len(stash) + Len(rest) <= BufCap
          THEN stash' = stash \o rest /\ open' = open
          ELSE stash' = stash /\ open' = FALSE
  /\ UNCHANGED <<reqs, stream>>

\* The response is out (tx_after_full_response).
KeepsAliveUnlessPipelined(c) == resp = "200" /\ c.want_keepalive /\ stash = <<>>
KeepsAlive(c) == resp = "200" /\ c.want_keepalive

CloseAfterResponse ==
  /\ open /\ resp # "none" /\ ~KeepsAlive(h1)
  /\ open' = FALSE
  /\ UNCHANGED <<reqs, stream, received, stash, h1, resp, answers>>

\* conn_reset_request and conn_try_process_stash, which ends by dropping from
\* the stash what was consumed.
StashReady == stash # <<>>

NextRequest ==
  LET fresh == H1Init(h1.at) IN
  /\ open /\ resp # "none" /\ KeepsAlive(h1)
  /\ IF StashReady
     THEN \E p \in {Parse(fresh, stash)} :
            /\ h1' = p.h1
            /\ stash' = SubSeq(stash, p.consumed + 1, Len(stash))
            /\ Apply(p.h1)
     ELSE /\ h1' = fresh
          /\ resp' = "none"
          /\ UNCHANGED <<stash, answers>>
  /\ UNCHANGED <<reqs, stream, received, open>>

Next == (\E n \in 1 .. BufCap : Read(n)) \/ CloseAfterResponse \/ NextRequest

Spec == Init /\ [][Next]_vars

\* The peer's bytes arrive and the worker handles every completion.
FairSpec == Spec /\ WF_vars(Next)

-----------------------------------------------------------------------------
TypeOK ==
  /\ reqs \in Streams
  /\ received \in 0 .. Len(stream)
  /\ Len(stash) <= BufCap /\ \A i \in DOMAIN stash : stash[i] \in 1 .. received
  /\ h1.at \in 1 .. received + 1 /\ h1.left \in Nat /\ h1.body_remaining \in Nat
  /\ MaxFields # 0 => h1.fields \in 0 .. MaxFields + 1
  /\ resp \in {"none", "200", "400", "405", "413", "431", "501"}
  /\ open \in BOOLEAN

\* Every byte that was received is either parsed or waits in the stash, and the
\* stash continues exactly where the parser stopped, wherever the receive
\* buffers were cut ("consume only up to error_pos so pipelined bytes remain
\* for the next request", worker_loop.c:1580).
NoByteLost ==
  open /\ Status(h1) \in {"none", "200"} =>
    stash = [i \in 1 .. received + 1 - h1.at |-> h1.at + i - 1]

\* The worker receives only when the stash is empty: read_handle_cqe parses the
\* buffer it got without looking at the stash, so bytes that are older must
\* never be waiting there.
ReadsInOrder == open /\ resp = "none" => stash = <<>>

\* Pipelined requests are answered in the order they were sent, each once.
AnswersInOrder == \A i \in DOMAIN answers : answers[i].req = i

\* The status of a response is one the request deserves, wherever the buffers
\* were cut: a request is accepted only within every limit, and refused only
\* for a limit or a rule that it breaks.
Deserves(r, status) ==
  CASE status = "200" -> /\ r.method = "GET" /\ r.valid /\ r.framing # "other"
                         /\ r.fields + 1 <= MaxHeader /\ r.body <= MaxBody
                         /\ MaxFields # 0 => r.fields <= MaxFields
    [] status = "431" -> r.fields + 1 > MaxHeader \/ (MaxFields # 0 /\ r.fields > MaxFields)
    [] status = "413" -> r.body > MaxBody
    [] status = "501" -> r.framing = "other"
    [] status = "405" -> r.method # "GET"
    [] status = "400" -> ~r.valid
StatusDeserved ==
  \A i \in DOMAIN answers : Deserves(reqs[answers[i].req], answers[i].status)

\* docs/config_ini_reference.md:83, max_header_bytes is the "request header byte
\* cap": a request whose header is within it is not refused with 431.
HeaderCapCountsHeader ==
  \A i \in DOMAIN answers : LET r == reqs[answers[i].req] IN
    answers[i].status = "431" /\ MaxFields = 0 => r.fields + 1 > MaxHeader

\* Every request of the stream is answered, up to the first that ends the
\* connection: none waits in the stash for bytes that do not come.
Ends(a) == a.status # "200" \/ ~reqs[a.req].ka
EveryRequestAnswered ==
  <>(Len(answers) = Len(reqs) \/ \E i \in DOMAIN answers : Ends(answers[i]))
=============================================================================
