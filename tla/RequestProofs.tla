---------------------------- MODULE RequestProofs ----------------------------
(***************************************************************************)
(* No byte that a connection receives is lost or parsed out of order, for  *)
(* every stream of requests, every size of buffer and limit, and wherever  *)
(* the buffers are cut, as long as a body with a Content-Length that the   *)
(* server reads is the last thing the peer sends. (FramingLength shows     *)
(* what happens when it is not.)                                           *)
(***************************************************************************)
EXTENDS RequestFraming, HttpRange, WellFoundedInduction, NaturalsInduction, TLAPS

-----------------------------------------------------------------------------
(* The Range header *)

Uint64 == 0 .. UINT64_MAX
Ranges == [valid : BOOLEAN, suffix : BOOLEAN, first : Uint64, last : Uint64]

\* A range http_range_parse returns: a suffix is never empty, and any other
\* range ends no earlier than it begins.
Parsed(br) ==
  /\ br \in Ranges /\ br.valid
  /\ IF br.suffix THEN br.first > 0 ELSE br.first <= br.last

\* parse_u64 tests for overflow before it multiplies: a digit is appended
\* exactly when the result still fits, and then the result is the exact one.
THEOREM DigitFits ==
  ASSUME NEW val \in Uint64, NEW digit \in 0 .. 9
  PROVE  /\ push_digit(val, digit) = -1 <=> val * 10 + digit > UINT64_MAX
         /\ push_digit(val, digit) # -1 => push_digit(val, digit) = val * 10 + digit
<1> DEFINE q == UINT64_MAX \div 10
           r == UINT64_MAX % 10
<1>1. UINT64_MAX = 10 * q + r /\ q \in Nat /\ r \in 0 .. 9
  BY MaxAssumption
<1>2. val > q => val * 10 + digit > UINT64_MAX
  BY <1>1, MaxAssumption DEF Uint64
<1>3. val < q => val * 10 + digit <= UINT64_MAX
  BY <1>1, MaxAssumption DEF Uint64
<1>4. val = q => (digit > r <=> val * 10 + digit > UINT64_MAX)
  BY <1>1, MaxAssumption DEF Uint64
<1>5. val # -1 /\ val * 10 + digit # -1
  BY MaxAssumption DEF Uint64
<1>6. val * 10 + digit \in Int /\ val \in Int /\ q \in Int
  BY <1>1 DEF Uint64
<1> QED
  BY <1>2, <1>3, <1>4, <1>5, <1>6, MaxAssumption DEF push_digit

\* The answer of http_range_resolve lies inside the file, and its length is
\* the number of bytes from start to end and no more than the file has: none
\* of the unsigned subtractions wraps.
THEOREM ResolveInsideFile ==
  ASSUME NEW br \in Ranges, NEW size \in Uint64, Parsed(br),
         http_range_resolve(br, size).satisfiable
  PROVE  LET rr == http_range_resolve(br, size)
         IN /\ rr.start \in 0 .. rr.end
            /\ rr.end \in 0 .. size - 1
            /\ rr.length = rr.end - rr.start + 1
            /\ rr.length \in 1 .. size
  BY MaxAssumption DEF http_range_resolve, Resolved, Unsatisfiable, Ranges, Uint64, Parsed

\* http_range_resolve serves exactly the bytes the range asks for, and calls
\* it unsatisfiable exactly when it asks for none of the file's bytes.
THEOREM ResolveExact ==
  ASSUME NEW br \in Ranges, NEW size \in Uint64, Parsed(br)
  PROVE  LET rr == http_range_resolve(br, size)
         IN /\ rr.satisfiable <=> Asked(br, size) # {}
            /\ rr.satisfiable => rr.start .. rr.end = Asked(br, size)
<1> DEFINE rr == http_range_resolve(br, size)
<1>1. CASE rr.satisfiable
  <2>1. ASSUME NEW i \in Int
        PROVE  i \in rr.start .. rr.end <=> i \in Asked(br, size)
    BY <1>1, <2>1, MaxAssumption
       DEF http_range_resolve, Resolved, Unsatisfiable, Ranges, Uint64, Parsed, Asked
  <2>2. rr.start \in Int /\ rr.end \in Int /\ rr.start <= rr.end
    BY <1>1, ResolveInsideFile DEF Uint64
  <2>3. rr.start .. rr.end \subseteq Int /\ Asked(br, size) \subseteq Int
    BY <2>2 DEF Asked, Uint64
  <2>4. rr.start .. rr.end = Asked(br, size)
    BY <2>1, <2>3
  <2>5. rr.start \in rr.start .. rr.end
    BY <2>2
  <2> QED
    BY <1>1, <2>4, <2>5, Zenon
<1>2. CASE ~rr.satisfiable
  <2>1. ASSUME NEW i \in Asked(br, size)
        PROVE  FALSE
    BY <1>2, <2>1, MaxAssumption
       DEF http_range_resolve, Resolved, Unsatisfiable, Ranges, Uint64, Parsed, Asked
  <2> QED
    BY <1>2, <2>1
<1> QED
  BY <1>1, <1>2

-----------------------------------------------------------------------------
(* Framing *)

\* A request whose body, if it has one, is framed.
Framed(r) == r.framing = "none" => r.body = 0

\* A body with a Content-Length that the server reads.
LengthRead(r) ==
  r.framing = "length" /\ r.body # 0 /\ r.valid /\ r.method = "GET" /\ r.body <= MaxBody

\* The streams in which such a body is the last thing the peer sends.
LengthLast(rs) ==
  \A i \in DOMAIN rs : Framed(rs[i]) /\ (LengthRead(rs[i]) => i = Len(rs))

\* c has the members of a parser state.
Shaped(c) ==
  c = [start |-> c.start, at |-> c.at, left |-> c.left, hdr |-> c.hdr, paused |-> c.paused,
       failed |-> c.failed, headers_done |-> c.headers_done, message_done |-> c.message_done,
       parse_error |-> c.parse_error, header_too_big |-> c.header_too_big,
       unsupported_te |-> c.unsupported_te, body_too_big |-> c.body_too_big,
       method_not_allowed |-> c.method_not_allowed, want_keepalive |-> c.want_keepalive,
       te_chunked |-> c.te_chunked, parser_bytes |-> c.parser_bytes, fields |-> c.fields,
       body_remaining |-> c.body_remaining, body_bytes |-> c.body_bytes]

Refused(c) == c.header_too_big \/ c.unsupported_te \/ c.body_too_big \/ c.parse_error

\* The members that say where the parser is, apart from its place.
SamePlace(c, y) ==
  /\ y.paused = c.paused /\ y.failed = c.failed /\ y.headers_done = c.headers_done
  /\ y.message_done = c.message_done /\ y.method_not_allowed = c.method_not_allowed
  /\ y.te_chunked = c.te_chunked /\ y.body_remaining = c.body_remaining

\* y is a parser state at the same byte, and what was refused stays refused.
Follows(c, y) == Shaped(y) /\ y.at = c.at /\ (Refused(c) => Refused(y))

-----------------------------------------------------------------------------
(* The callbacks *)

LEMMA FieldSeen ==
  ASSUME NEW c, Shaped(c)
  PROVE  Follows(c, HeaderFieldSeen(c)) /\ SamePlace(c, HeaderFieldSeen(c))
<1>1. CASE ~c.hdr \/ c.header_too_big
  BY <1>1 DEF HeaderFieldSeen, Follows, SamePlace
<1>2. CASE ~(~c.hdr \/ c.header_too_big)
  <2> DEFINE n == c.fields + 1
             b == MaxFields # 0 /\ c.fields + 1 > MaxFields
             y == HeaderFieldSeen(c)
  <2>1. y = [c EXCEPT !.fields = n, !.header_too_big = b]
    BY <1>2 DEF HeaderFieldSeen
  <2> HIDE DEF n, b, y
  <2>2. Shaped(y) /\ y.at = c.at /\ SamePlace(c, y)
    BY <2>1, Zenon DEF Shaped, SamePlace
  <2>3. /\ y.unsupported_te = c.unsupported_te /\ y.body_too_big = c.body_too_big
        /\ y.parse_error = c.parse_error
    BY <2>1 DEF Shaped
  <2>4. Refused(c) => Refused(y)
    BY <1>2, <2>3 DEF Refused
  <2> QED BY <2>2, <2>4 DEF Follows, y
<1> QED BY <1>1, <1>2

LEMMA HeaderField ==
  ASSUME NEW c, Shaped(c)
  PROVE  Follows(c, OnHeaderField(c)) /\ SamePlace(c, OnHeaderField(c))
<1>1. CASE c.header_too_big
  BY <1>1 DEF OnHeaderField, Follows, SamePlace
<1>2. CASE ~c.header_too_big
  <2> DEFINE d == HeaderFieldSeen(c)
             y == OnHeaderField(c)
  <2>1. Follows(c, d) /\ SamePlace(c, d)
    BY FieldSeen
  <2>2. y = [d EXCEPT !.hdr = TRUE]
    BY <1>2 DEF OnHeaderField
  <2> HIDE DEF d, y
  <2>3. Shaped(d)
    BY <2>1 DEF Follows
  <2>4. /\ Shaped(y) /\ y.at = d.at /\ SamePlace(d, y)
        /\ y.unsupported_te = d.unsupported_te /\ y.body_too_big = d.body_too_big
        /\ y.parse_error = d.parse_error /\ y.header_too_big = d.header_too_big
    BY <2>2, <2>3, Zenon DEF Shaped, SamePlace
  <2>5. Follows(c, y) /\ SamePlace(c, y)
    BY <2>1, <2>4 DEF Follows, SamePlace, Refused
  <2> QED BY <2>5 DEF y
<1> QED BY <1>1, <1>2

LEMMA MessageComplete ==
  ASSUME NEW c, Shaped(c)
  PROVE  LET y == OnMessageComplete(c)
         IN  Follows(c, y) /\ y.paused /\ y.message_done /\ y.left = c.left
<1> DEFINE y == OnMessageComplete(c)
<1>1. y = [c EXCEPT !.message_done = TRUE, !.paused = TRUE]
  BY DEF OnMessageComplete
<1> HIDE DEF y
<1>2. /\ Shaped(y) /\ y.at = c.at /\ y.paused = TRUE /\ y.message_done = TRUE /\ y.left = c.left
      /\ y.unsupported_te = c.unsupported_te /\ y.body_too_big = c.body_too_big
      /\ y.parse_error = c.parse_error /\ y.header_too_big = c.header_too_big
  BY <1>1, Zenon DEF Shaped
<1>3. Follows(c, y) /\ y.paused /\ y.message_done /\ y.left = c.left
  BY <1>2 DEF Follows, Refused
<1> QED BY <1>3 DEF y

\* A piece of a body is the last one of a message with a Content-Length, or the
\* parser stays as it is.
LEMMA Body ==
  ASSUME NEW c, Shaped(c), ~c.failed, NEW r
  PROVE  LET y == BodyPiece(c, r)
         IN  /\ Follows(c, y) /\ (y.paused => y.message_done \/ c.paused)
             /\ Refused(y) \/ y.left = c.left - 1
             /\ \/ Refused(y) \/ (SamePlace(c, y) /\ (r.framing = "length" => y.left # 0))
                \/ r.framing = "length" /\ y.left = 0 /\ y.paused /\ y.message_done
<1> DEFINE n == c.body_bytes + 1
           b == OnBody(c)
           l == b.left - 1
           d == [b EXCEPT !.left = l]
<1>1. /\ Follows(c, b) /\ b.paused = c.paused /\ b.left = c.left
      /\ Refused(b) \/ SamePlace(c, b)
  <2> HIDE DEF n
  <2>1. CASE n > MaxBody
    <3>1. b = [c EXCEPT !.body_bytes = n, !.body_too_big = TRUE, !.want_keepalive = FALSE,
                        !.failed = TRUE]
      BY <2>1 DEF OnBody, n
    <3> HIDE DEF b
    <3>2. /\ Shaped(b) /\ b.at = c.at /\ b.body_too_big = TRUE /\ b.paused = c.paused
          /\ b.left = c.left
      BY <3>1, Zenon DEF Shaped
    <3> QED BY <3>2 DEF Follows, Refused
  <2>2. CASE ~(n > MaxBody)
    <3>1. b = [c EXCEPT !.body_bytes = n]
      BY <2>2 DEF OnBody, n
    <3> HIDE DEF b
    <3>2. /\ Shaped(b) /\ b.at = c.at /\ SamePlace(c, b) /\ b.left = c.left
          /\ b.unsupported_te = c.unsupported_te /\ b.body_too_big = c.body_too_big
          /\ b.parse_error = c.parse_error /\ b.header_too_big = c.header_too_big
      BY <3>1 DEF Shaped, SamePlace
    <3> QED BY <3>2 DEF Follows, Refused, SamePlace
  <2> QED BY <2>1, <2>2
<1>2. d = [OnBody(c) EXCEPT !.left = @ - 1]
  OBVIOUS
<1>3. l = c.left - 1
  BY <1>1
<1> HIDE DEF b, l
<1>4. Follows(b, d) /\ SamePlace(b, d) /\ Shaped(d) /\ d.left = l
  <2>1. Shaped(b)
    BY <1>1 DEF Follows
  <2>2. d = [b EXCEPT !.left = l]
    OBVIOUS
  <2> HIDE DEF d
  <2>3. /\ Shaped(d) /\ d.at = b.at /\ SamePlace(b, d) /\ d.left = l
        /\ d.unsupported_te = b.unsupported_te /\ d.body_too_big = b.body_too_big
        /\ d.parse_error = b.parse_error /\ d.header_too_big = b.header_too_big
    BY <2>1, <2>2 DEF Shaped, SamePlace
  <2> QED BY <2>3 DEF Follows, Refused
<1>5. Follows(c, d) /\ (Refused(d) \/ SamePlace(c, d)) /\ d.paused = c.paused
  BY <1>1, <1>4 DEF Follows, SamePlace
<1>6. BodyPiece(c, r) = IF r.framing = "length" /\ d.left = 0 /\ ~d.failed
                        THEN OnMessageComplete(d) ELSE d
  BY <1>2, Zenon DEF BodyPiece
<1> HIDE DEF d
<1>7. CASE r.framing = "length" /\ d.left = 0 /\ ~d.failed
  <2> DEFINE y == OnMessageComplete(d)
  <2>1. Follows(d, y) /\ y.message_done /\ y.paused /\ y.left = d.left
    BY <1>4, MessageComplete
  <2> QED BY <1>3, <1>4, <1>5, <1>6, <1>7, <2>1, Zenon DEF Follows
<1>8. CASE ~(r.framing = "length" /\ d.left = 0 /\ ~d.failed)
  <2>1. SamePlace(c, d) => ~d.failed
    BY DEF SamePlace
  <2> QED BY <1>3, <1>4, <1>5, <1>6, <1>8, <2>1, Zenon
<1> QED BY <1>7, <1>8

\* The members that follow the end of the headers of a request r with a body: it
\* is chunked, or has a Content-Length and is answered with 405 or read.
BodyBegins(r, y) ==
  \/ r.framing = "chunked" /\ (y.message_done => y.method_not_allowed)
  \/ r.framing = "length" /\ r.body # 0 /\ y.message_done /\ y.method_not_allowed
  \/ LengthRead(r) /\ ~y.message_done /\ y.body_remaining = r.body

\* At the end of the headers a request is refused, complete, or has a body to
\* come.
LEMMA HeadersComplete ==
  ASSUME NEW c, Shaped(c), NEW r \in RequestRec, Framed(r)
  PROVE  LET y == OnHeadersComplete(c, r)
         IN  /\ Follows(c, y) /\ y.paused = c.paused /\ y.failed = c.failed
             /\ y.headers_done = TRUE /\ y.te_chunked = (r.framing = "chunked")
             /\ \/ Refused(y) \/ (r.framing \in {"none", "length"} /\ r.body = 0)
                \/ BodyBegins(r, y)
<1> DEFINE s == HeaderFieldSeen(c)
           ch == (r.framing = "chunked")
           d == [s EXCEPT !.headers_done = TRUE, !.want_keepalive = r.ka, !.te_chunked = ch]
           y == OnHeadersComplete(c, r)
           nb == (r.body = 0)
           nn == (r.framing = "none")
<1>1. Follows(c, s) /\ SamePlace(c, s)
  BY FieldSeen
<1> HIDE DEF s, ch, nb, nn
<1>2. /\ Shaped(d) /\ d.at = s.at /\ d.paused = s.paused /\ d.failed = s.failed
      /\ d.headers_done = TRUE /\ d.te_chunked = ch
      /\ d.unsupported_te = s.unsupported_te /\ d.body_too_big = s.body_too_big
      /\ d.parse_error = s.parse_error /\ d.header_too_big = s.header_too_big
  <2>1. Shaped(s)
    BY <1>1 DEF Follows
  <2>2. d = [s EXCEPT !.headers_done = TRUE, !.want_keepalive = r.ka, !.te_chunked = ch]
    OBVIOUS
  <2> HIDE DEF d
  <2> QED BY <2>1, <2>2, Zenon DEF Shaped
<1>3. Follows(c, d) /\ d.paused = c.paused /\ d.failed = c.failed
  BY <1>1, <1>2 DEF Follows, Refused, SamePlace
<1>4. y = IF ~r.valid THEN [d EXCEPT !.parse_error = TRUE, !.want_keepalive = FALSE]
      ELSE IF r.framing = "other"
        THEN [d EXCEPT !.unsupported_te = TRUE, !.want_keepalive = FALSE]
      ELSE IF r.method # "GET"
        THEN [d EXCEPT !.method_not_allowed = TRUE, !.want_keepalive = FALSE,
                       !.message_done = TRUE]
      ELSE IF r.framing = "length" /\ r.body > MaxBody
        THEN [d EXCEPT !.body_too_big = TRUE, !.want_keepalive = FALSE]
      ELSE IF r.framing = "length"
        THEN [d EXCEPT !.body_remaining = r.body, !.message_done = nb]
      ELSE [d EXCEPT !.message_done = nn]
  BY DEF OnHeadersComplete, s, ch, nb, nn
<1> DEFINE Same(z) == /\ Shaped(z) /\ z.at = d.at /\ z.paused = d.paused /\ z.failed = d.failed
                      /\ z.headers_done = TRUE /\ z.te_chunked = ch
           Flags(z) == /\ z.unsupported_te = d.unsupported_te /\ z.body_too_big = d.body_too_big
                       /\ z.parse_error = d.parse_error /\ z.header_too_big = d.header_too_big
<1>5. r.framing \in {"none", "length", "chunked", "other"} /\ r.valid \in BOOLEAN
  BY DEF RequestRec
<1> HIDE DEF y
<1>6. SUFFICES /\ Same(y) /\ (Refused(d) => Refused(y))
               /\ \/ Refused(y) \/ (r.framing \in {"none", "length"} /\ r.body = 0)
                  \/ BodyBegins(r, y)
  <2> HIDE DEF d
  <2> QED BY <1>3 DEF Follows, ch, y
<1>7. Shaped(d) /\ d.headers_done = TRUE /\ d.te_chunked = ch
  BY <1>2
<1> HIDE DEF d
<1>8. CASE ~r.valid
  <2>1. y = [d EXCEPT !.parse_error = TRUE, !.want_keepalive = FALSE]
    BY <1>4, <1>8
  <2>2. Same(y) /\ y.parse_error = TRUE
    BY <1>7, <2>1, Zenon DEF Shaped
  <2> QED BY <2>2 DEF Refused
<1>9. CASE r.valid /\ r.framing = "other"
  <2>1. y = [d EXCEPT !.unsupported_te = TRUE, !.want_keepalive = FALSE]
    BY <1>4, <1>9
  <2>2. Same(y) /\ y.unsupported_te = TRUE
    BY <1>7, <2>1, Zenon DEF Shaped
  <2> QED BY <2>2 DEF Refused
<1>10. CASE r.valid /\ r.framing # "other" /\ r.method # "GET"
  <2>1. y = [d EXCEPT !.method_not_allowed = TRUE, !.want_keepalive = FALSE,
                      !.message_done = TRUE]
    BY <1>4, <1>10
  <2>2. Same(y) /\ Flags(y) /\ y.method_not_allowed = TRUE /\ y.message_done = TRUE
    BY <1>7, <2>1, Zenon DEF Shaped
  <2>3. r.framing = "none" => r.body = 0
    BY DEF Framed
  <2>4. (r.framing \in {"none", "length"} /\ r.body = 0) \/ BodyBegins(r, y)
    BY <1>5, <1>10, <2>2, <2>3 DEF BodyBegins
  <2> QED BY <2>2, <2>4 DEF Refused
<1>11. CASE r.valid /\ r.method = "GET" /\ r.framing = "length" /\ r.body > MaxBody
  <2>1. y = [d EXCEPT !.body_too_big = TRUE, !.want_keepalive = FALSE]
    BY <1>4, <1>11
  <2>2. Same(y) /\ y.body_too_big = TRUE
    BY <1>7, <2>1, Zenon DEF Shaped
  <2> QED BY <2>2 DEF Refused
<1>12. CASE r.valid /\ r.method = "GET" /\ r.framing = "length" /\ ~(r.body > MaxBody)
  <2>1. y = [d EXCEPT !.body_remaining = r.body, !.message_done = nb]
    BY <1>4, <1>12
  <2>2. Same(y) /\ Flags(y) /\ y.body_remaining = r.body /\ y.message_done = nb
    BY <1>7, <2>1, Zenon DEF Shaped
  <2>3. r.body \in Nat /\ MaxBody \in Nat
    BY LimitAssumption DEF RequestRec
  <2>4. r.body <= MaxBody
    BY <1>12, <2>3
  <2>5. r.body # 0 => BodyBegins(r, y)
    BY <1>12, <2>2, <2>4, Zenon DEF BodyBegins, LengthRead, nb
  <2> QED BY <1>12, <2>2, <2>5 DEF Refused
<1>13. CASE r.valid /\ r.method = "GET" /\ r.framing \in {"none", "chunked"}
  <2>1. y = [d EXCEPT !.message_done = nn]
    BY <1>4, <1>13
  <2>2. Same(y) /\ Flags(y) /\ y.message_done = nn
    BY <1>7, <2>1 DEF Shaped
  <2>3. r.framing = "none" => r.body = 0
    BY DEF Framed
  <2>4. r.framing = "chunked" => BodyBegins(r, y)
    BY <2>2, Zenon DEF BodyBegins, nn
  <2> QED BY <1>13, <2>2, <2>3, <2>4 DEF Refused
<1> QED BY <1>5, <1>8, <1>9, <1>10, <1>11, <1>12, <1>13, Zenon

LEMMA HeadersEnding ==
  ASSUME NEW c, Shaped(c), NEW r \in RequestRec, Framed(r)
  PROVE  LET y == HeadersEnd(c, r)
         IN  /\ Follows(c, y) /\ (y.paused => y.message_done \/ c.paused)
             /\ \/ Refused(y) \/ y.failed
                \/ y.paused /\ y.message_done
                \/ /\ y.paused = c.paused /\ y.headers_done
                   /\ y.te_chunked = (r.framing = "chunked")
                   /\ y.left = r.body /\ BodyBegins(r, y)
<1> DEFINE o == OnHeadersComplete(c, r)
           f == (r.framing = "other")
           d == [o EXCEPT !.left = r.body, !.failed = f]
           y == HeadersEnd(c, r)
<1>1. y = IF r.framing \in {"none", "length"} /\ r.body = 0 THEN OnMessageComplete(d) ELSE d
  BY DEF HeadersEnd
<1>2. /\ Follows(c, o) /\ o.paused = c.paused
      /\ o.headers_done = TRUE /\ o.te_chunked = (r.framing = "chunked")
      /\ Refused(o) \/ (r.framing \in {"none", "length"} /\ r.body = 0) \/ BodyBegins(r, o)
  BY HeadersComplete, Zenon
<1> HIDE DEF o, y, f
<1>3. Shaped(o)
  BY <1>2 DEF Follows
<1>4. /\ Shaped(d) /\ d.at = o.at /\ d.paused = o.paused /\ d.headers_done = o.headers_done
      /\ d.te_chunked = o.te_chunked /\ d.message_done = o.message_done
      /\ d.left = r.body /\ d.body_remaining = o.body_remaining
      /\ d.method_not_allowed = o.method_not_allowed
      /\ d.unsupported_te = o.unsupported_te /\ d.body_too_big = o.body_too_big
      /\ d.parse_error = o.parse_error /\ d.header_too_big = o.header_too_big
  <2>1. d = [o EXCEPT !.left = r.body, !.failed = f]
    OBVIOUS
  <2> HIDE DEF d
  <2> QED BY <1>3, <2>1, Zenon DEF Shaped
<1> HIDE DEF d
<1>5. Refused(d) <=> Refused(o)
  BY <1>4 DEF Refused
<1>6. Follows(c, d)
  BY <1>2, <1>4, <1>5 DEF Follows
<1>7. CASE r.framing \in {"none", "length"} /\ r.body = 0
  <2>1. Follows(d, y) /\ y.paused /\ y.message_done
    BY <1>1, <1>4, <1>7, MessageComplete
  <2> QED BY <1>6, <2>1 DEF Follows, y
<1>8. CASE ~(r.framing \in {"none", "length"} /\ r.body = 0)
  <2>1. y = d
    BY <1>1, <1>8
  <2>2. Refused(d) \/ BodyBegins(r, d)
    BY <1>2, <1>4, <1>5, <1>8 DEF BodyBegins
  <2>3. d.headers_done /\ d.te_chunked = (r.framing = "chunked")
    BY <1>2, <1>4
  <2> QED BY <1>2, <1>4, <1>6, <2>1, <2>2, <2>3 DEF y
<1> QED BY <1>7, <1>8

-----------------------------------------------------------------------------
(* The stream *)

PieceOf(rs) == [req : DOMAIN rs, kind : {"h", "e", "b", "z"}]

\* The next piece belongs to the body of a chunked request.
MoreBody(rs, p) == p.kind \in {"e", "b"} /\ rs[p.req].framing = "chunked"
InBody(rs, p) == p.kind \in {"b", "z"} /\ rs[p.req].framing = "chunked"

\* The pieces s are those of whole requests of rs.
Whole(rs, s) ==
  /\ s \in Seq(PieceOf(rs))
  /\ \A q \in 1 .. Len(s) : MoreBody(rs, s[q]) => q + 1 \in 1 .. Len(s) /\ InBody(rs, s[q + 1])

\* Behind the headers of a request with a Content-Length come the pieces of its
\* body, and only later requests behind those.
LengthHead(rs, p) == p.kind = "e" /\ rs[p.req].framing = "length"
Lengths(rs, s) ==
  \A q \in 1 .. Len(s) : LengthHead(rs, s[q]) =>
    LET m == rs[s[q].req].body IN
    /\ \A j \in 1 .. m : q + j \in 1 .. Len(s) /\ s[q + j].kind = "b" /\ s[q + j].req = s[q].req
    /\ \A k \in q + m + 1 .. Len(s) : s[k].req > s[q].req

UpTo(s, i) == \A q \in 1 .. Len(s) : s[q].req \in 1 .. i

LEMMA MinIsLeast ==
  ASSUME NEW S \in SUBSET Nat, S # {}
  PROVE  Min(S) \in S /\ \A y \in S : Min(S) <= y
<1> DEFINE R == {p \in Nat \X Nat : p[1] < p[2]}
<1>1. R = OpToRel(<, Nat)
  BY DEF OpToRel
<1>2. IsWellFoundedOn(R, Nat)
  BY <1>1, NatLessThanWellFounded, Zenon
<1> HIDE DEF R
<1>3. PICK x \in S : \A y \in S : ~(<<y, x>> \in R)
  BY <1>2, WFMin, Zenon
<1>4. \A a, b \in Nat : a < b => <<a, b>> \in R
  BY DEF R
<1>5. ASSUME NEW y \in S PROVE x <= y
  <2>1. x \in Nat /\ y \in Nat
    OBVIOUS
  <2>2. ~(y < x)
    <3>1. ~(<<y, x>> \in R)
      BY <1>3
    <3> QED BY <3>1, <2>1, <1>4, Zenon
  <2> QED BY <2>1, <2>2
<1> QED BY <1>5, Zenon DEF Min

\* u is the pieces of s and then those of t.
Joins(P, s, t, a, b, u) ==
  /\ u \in Seq(P) /\ Len(u) = a + b /\ a \in Nat /\ b \in Nat
  /\ \A q \in 1 .. a : u[q] = s[q]
  /\ \A q \in 1 .. b : u[a + q] = t[q]
  /\ \A q \in a + 1 .. a + b : u[q] = t[q - a] /\ q - a \in 1 .. b

LEMMA Concat ==
  ASSUME NEW P, NEW s \in Seq(P), NEW t \in Seq(P), NEW a, NEW b, Len(s) = a, Len(t) = b
  PROVE  Joins(P, s, t, a, b, s \o t)
<1>1. s \o t \in Seq(P) /\ Len(s \o t) = a + b /\ a \in Nat /\ b \in Nat
  OBVIOUS
<1>2. \A q \in 1 .. a : (s \o t)[q] = s[q]
  OBVIOUS
<1>3. \A q \in 1 .. b : (s \o t)[a + q] = t[q]
  OBVIOUS
<1>4. ASSUME NEW q \in a + 1 .. a + b PROVE (s \o t)[q] = t[q - a] /\ q - a \in 1 .. b
  <2>1. q - a \in 1 .. b /\ a + (q - a) = q
    BY <1>1
  <2> QED BY <1>3, <2>1
<1> QED BY <1>1, <1>2, <1>3, <1>4, Zenon DEF Joins

LEMMA WholeConcat ==
  ASSUME NEW rs, NEW s, NEW t, Whole(rs, s), Whole(rs, t)
  PROVE  Whole(rs, s \o t)
<1> DEFINE P == PieceOf(rs)
           u == s \o t
<1>1. s \in Seq(P) /\ t \in Seq(P)
  BY DEF Whole
<1> HIDE DEF P
<1>2. u \in Seq(P) /\ Len(u) = Len(s) + Len(t) /\ Len(s) \in Nat /\ Len(t) \in Nat
  BY <1>1
<1>3. /\ \A q \in 1 .. Len(s) : u[q] = s[q]
      /\ \A q \in 1 .. Len(t) : u[Len(s) + q] = t[q]
  BY <1>1
<1> HIDE DEF u
<1>4. ASSUME NEW q \in 1 .. Len(u), MoreBody(rs, u[q])
      PROVE  q + 1 \in 1 .. Len(u) /\ InBody(rs, u[q + 1])
  <2>1. CASE q <= Len(s)
    <3>1. q \in 1 .. Len(s) /\ u[q] = s[q]
      BY <1>2, <1>3, <2>1
    <3>2. q + 1 \in 1 .. Len(s) /\ InBody(rs, s[q + 1])
      BY <1>4, <3>1 DEF Whole
    <3>3. u[q + 1] = s[q + 1]
      BY <1>3, <3>2
    <3> QED BY <1>2, <3>2, <3>3
  <2>2. CASE ~(q <= Len(s))
    <3> DEFINE k == q - Len(s)
    <3>1. k \in 1 .. Len(t) /\ Len(s) + k = q
      BY <1>2, <2>2
    <3>2. u[q] = t[k]
      BY <1>3, <3>1
    <3> HIDE DEF k
    <3>3. k + 1 \in 1 .. Len(t) /\ InBody(rs, t[k + 1])
      BY <1>4, <3>1, <3>2 DEF Whole
    <3>4. u[Len(s) + (k + 1)] = t[k + 1]
      BY <1>3, <3>3
    <3>5. Len(s) + (k + 1) = q + 1 /\ q + 1 \in 1 .. Len(u)
      BY <1>2, <3>1, <3>3
    <3> QED BY <3>3, <3>4, <3>5
  <2> QED BY <2>1, <2>2
<1> QED BY <1>2, <1>4 DEF Whole, P, u

LEMMA LengthsConcat ==
  ASSUME NEW rs \in Seq(RequestRec), NEW s, NEW t, NEW i \in Nat,
         Whole(rs, s), Whole(rs, t), Lengths(rs, s), Lengths(rs, t),
         UpTo(s, i), \A q \in 1 .. Len(t) : t[q].req = i + 1
  PROVE  Lengths(rs, s \o t) /\ UpTo(s \o t, i + 1)
<1> DEFINE P == PieceOf(rs)
           u == s \o t
           a == Len(s)
           b == Len(t)
<1>1. s \in Seq(P) /\ t \in Seq(P)
  BY DEF Whole
<1>2. Joins(P, s, t, a, b, u)
  BY <1>1, Concat
<1>3. /\ Len(u) = a + b /\ a \in Nat /\ b \in Nat
      /\ \A q \in 1 .. a : u[q] = s[q]
      /\ \A q \in 1 .. b : u[a + q] = t[q]
      /\ \A q \in a + 1 .. a + b : u[q] = t[q - a] /\ q - a \in 1 .. b
  BY <1>2 DEF Joins
<1>4. \A q \in 1 .. Len(u) : q \in 1 .. a \/ q \in a + 1 .. a + b
  BY <1>3
<1>5. \A q \in 1 .. a : u[q].req \in 1 .. i
  BY <1>3 DEF UpTo, a
<1>6. \A q \in a + 1 .. a + b : u[q].req = i + 1
  BY <1>3 DEF b
<1> HIDE DEF u, a, b, P
<1>7. UpTo(u, i + 1)
  <2>1. \A x \in 1 .. i : x \in 1 .. i + 1
    OBVIOUS
  <2>2. i + 1 \in 1 .. i + 1
    OBVIOUS
  <2> QED BY <1>4, <1>5, <1>6, <2>1, <2>2 DEF UpTo
<1>8. ASSUME NEW q \in 1 .. Len(u), LengthHead(rs, u[q]), NEW m, m = rs[u[q].req].body
      PROVE  /\ \A j \in 1 .. m : /\ q + j \in 1 .. Len(u) /\ u[q + j].kind = "b"
                                  /\ u[q + j].req = u[q].req
             /\ \A k \in q + m + 1 .. Len(u) : u[k].req > u[q].req
  <2>1. u[q].req \in DOMAIN rs
    <3>1. u \in Seq(P)
      BY <1>2 DEF Joins
    <3>2. u[q] \in P
      BY <3>1
    <3> QED BY <3>2 DEF P, PieceOf
  <2>2. rs[u[q].req] \in RequestRec
    BY <2>1
  <2>3. m \in Nat /\ q \in Nat
    BY <1>8, <2>2 DEF RequestRec
  <2>4. CASE q \in 1 .. a
    <3>1. u[q] = s[q]
      BY <1>3, <2>4
    <3>2. /\ \A j \in 1 .. m : q + j \in 1 .. a /\ s[q + j].kind = "b" /\ s[q + j].req = s[q].req
          /\ \A k \in q + m + 1 .. a : s[k].req > s[q].req
      BY <1>8, <2>4, <3>1 DEF Lengths, a
    <3>3. \A x \in 1 .. a : x \in 1 .. Len(u)
      BY <1>3
    <3>4. ASSUME NEW k \in q + m + 1 .. Len(u) PROVE u[k].req > u[q].req
      <4>1. CASE k \in 1 .. a
        <5>1. k \in q + m + 1 .. a
          BY <2>3, <4>1
        <5> QED BY <1>3, <3>1, <3>2, <4>1, <5>1
      <4>2. CASE k \in a + 1 .. a + b
        <5>1. u[k].req = i + 1 /\ u[q].req \in 1 .. i
          BY <1>5, <1>6, <2>4, <4>2
        <5> QED BY <5>1
      <4>3. k \in 1 .. Len(u)
        BY <1>3, <2>3
      <4> QED BY <1>4, <4>1, <4>2, <4>3
    <3> QED BY <1>3, <3>1, <3>2, <3>3, <3>4
  <2>5. CASE q \in a + 1 .. a + b
    <3> DEFINE p == q - a
    <3>1. p \in 1 .. b /\ u[q] = t[p] /\ q = a + p
      BY <1>3, <2>3, <2>5
    <3> HIDE DEF p
    <3>2. /\ \A j \in 1 .. m : p + j \in 1 .. b /\ t[p + j].kind = "b" /\ t[p + j].req = t[p].req
          /\ \A k \in p + m + 1 .. b : t[k].req > t[p].req
      BY <1>8, <3>1 DEF Lengths, b
    <3>3. ASSUME NEW j \in 1 .. m
          PROVE  q + j \in 1 .. Len(u) /\ u[q + j].kind = "b" /\ u[q + j].req = u[q].req
      <4>1. p + j \in 1 .. b /\ t[p + j].kind = "b" /\ t[p + j].req = t[p].req
        BY <3>2
      <4>2. u[a + (p + j)] = t[p + j]
        BY <1>3, <4>1
      <4>3. a + (p + j) = q + j /\ q + j \in 1 .. Len(u)
        BY <1>3, <2>3, <3>1, <4>1
      <4> QED BY <3>1, <4>1, <4>2, <4>3
    <3>4. ASSUME NEW k \in q + m + 1 .. Len(u) PROVE u[k].req > u[q].req
      <4>1. k \in a + 1 .. a + b /\ k - a \in p + m + 1 .. b
        <5>1. a \in Nat /\ b \in Nat /\ Len(u) = a + b
          BY <1>3, Zenon
        <5>2. p \in 1 .. b /\ q = a + p
          BY <3>1, Zenon
        <5> QED BY <2>3, <5>1, <5>2
      <4>2. u[k] = t[k - a]
        BY <1>3, <4>1
      <4>3. t[k - a].req > t[p].req
        BY <3>2, <4>1
      <4> QED BY <3>1, <4>2, <4>3
    <3> QED BY <3>3, <3>4
  <2> QED BY <1>4, <2>4, <2>5
<1>9. Lengths(rs, u)
  BY <1>8 DEF Lengths
<1> QED BY <1>7, <1>9 DEF u

LEMMA PiecesWhole ==
  ASSUME NEW rs \in Seq(RequestRec), NEW i \in DOMAIN rs
  PROVE  LET s == Pieces(i, rs[i])
         IN  Whole(rs, s) /\ Lengths(rs, s) /\ \A q \in 1 .. Len(s) : s[q].req = i
<1> DEFINE r == rs[i]
           P == PieceOf(rs)
           h == [req |-> i, kind |-> "h"]
           e == [req |-> i, kind |-> "e"]
           b == [req |-> i, kind |-> "b"]
           z == [req |-> i, kind |-> "z"]
           n == r.fields
           m == r.body
           A == [j \in 1 .. n |-> h]
           E == <<e>>
           B == [j \in 1 .. m |-> b]
           Z == IF r.framing = "chunked" THEN <<z>> ELSE <<>>
           s == Pieces(i, r)
<1>1. r \in RequestRec
  OBVIOUS
<1>2. n \in Nat /\ m \in Nat
  BY <1>1 DEF RequestRec
<1>3. s = A \o E \o B \o Z
  BY DEF Pieces
<1>4. h \in P /\ e \in P /\ b \in P /\ z \in P
  BY DEF PieceOf
<1>5. /\ h.kind = "h" /\ e.kind = "e" /\ b.kind = "b" /\ z.kind = "z"
      /\ h.req = i /\ e.req = i /\ b.req = i /\ z.req = i
  OBVIOUS
<1> HIDE DEF h, e, b, z, P, n, m, s
<1>6. /\ A \in Seq(P) /\ Len(A) = n /\ \A j \in 1 .. n : A[j] = h
      /\ E \in Seq(P) /\ Len(E) = 1 /\ E[1] = e
      /\ B \in Seq(P) /\ Len(B) = m /\ \A j \in 1 .. m : B[j] = b
  BY <1>2, <1>4
<1>7. /\ Z \in Seq(P)
      /\ r.framing = "chunked" => Len(Z) = 1 /\ Z[1] = z
      /\ r.framing # "chunked" => Len(Z) = 0
  BY <1>4
<1> HIDE DEF A, E, B, Z
<1>8. /\ A \o E \in Seq(P) /\ Len(A \o E) = n + 1
      /\ \A q \in 1 .. n : (A \o E)[q] = h
      /\ (A \o E)[n + 1] = e
  <2>1. 1 \in 1 .. 1
    OBVIOUS
  <2>2. /\ A \o E \in Seq(P) /\ Len(A \o E) = n + 1
        /\ \A q \in 1 .. n : (A \o E)[q] = A[q]
        /\ \A q \in 1 .. 1 : (A \o E)[n + q] = E[q]
    <3>1. Joins(P, A, E, n, 1, A \o E)
      BY <1>6, Concat, Zenon
    <3> QED BY <3>1 DEF Joins
  <2> QED BY <1>6, <2>1, <2>2
<1> DEFINE C == A \o E
<1> HIDE DEF C
<1>9. /\ C \o B \in Seq(P) /\ Len(C \o B) = n + 1 + m
      /\ \A q \in 1 .. n : (C \o B)[q] = h
      /\ (C \o B)[n + 1] = e
      /\ \A q \in n + 2 .. n + 1 + m : (C \o B)[q] = b
  <2>1. /\ C \o B \in Seq(P) /\ Len(C \o B) = (n + 1) + m
        /\ \A q \in 1 .. n + 1 : (C \o B)[q] = C[q]
        /\ \A q \in (n + 1) + 1 .. (n + 1) + m :
             (C \o B)[q] = B[q - (n + 1)] /\ q - (n + 1) \in 1 .. m
    <3>1. C \in Seq(P) /\ Len(C) = n + 1
      BY <1>8 DEF C
    <3>2. B \in Seq(P) /\ Len(B) = m
      BY <1>6
    <3>3. Joins(P, C, B, n + 1, m, C \o B)
      BY <3>1, <3>2, Concat
    <3> QED BY <3>3 DEF Joins
  <2>2. \A q \in n + 2 .. n + 1 + m : q \in (n + 1) + 1 .. (n + 1) + m
    BY <1>2
  <2>3. \A q \in 1 .. n : q \in 1 .. n + 1
    BY <1>2
  <2>4. n + 1 \in 1 .. n + 1
    BY <1>2
  <2> QED BY <1>6, <1>8, <2>1, <2>2, <2>3, <2>4 DEF C
<1> DEFINE D == C \o B
<1> HIDE DEF D
<1>10. s = D \o Z
  BY <1>3 DEF C, D
<1>11. /\ s \in Seq(P) /\ Len(s) = n + 1 + m + Len(Z) /\ Len(Z) \in Nat
       /\ \A q \in 1 .. n : s[q] = h
       /\ s[n + 1] = e
       /\ \A q \in n + 2 .. n + 1 + m : s[q] = b
       /\ \A q \in 1 .. Len(Z) : s[n + 1 + m + q] = Z[q]
  <2>1. /\ s \in Seq(P) /\ Len(s) = n + 1 + m + Len(Z) /\ Len(Z) \in Nat
        /\ \A q \in 1 .. n + 1 + m : s[q] = D[q]
        /\ \A q \in 1 .. Len(Z) : s[n + 1 + m + q] = Z[q]
    <3>1. D \in Seq(P) /\ Len(D) = n + 1 + m
      BY <1>9 DEF D
    <3>2. Z \in Seq(P)
      BY <1>7
    <3>3. Joins(P, D, Z, n + 1 + m, Len(Z), D \o Z)
      BY <3>1, <3>2, Concat
    <3> QED BY <1>10, <3>3 DEF Joins
  <2>2. \A q \in n + 2 .. n + 1 + m : q \in 1 .. n + 1 + m
    BY <1>2
  <2>3. \A q \in 1 .. n : q \in 1 .. n + 1 + m
    BY <1>2
  <2>4. n + 1 \in 1 .. n + 1 + m
    BY <1>2
  <2> QED BY <1>9, <2>1, <2>2, <2>3, <2>4, Zenon DEF D
<1>12. ASSUME NEW q \in 1 .. Len(s), MoreBody(rs, s[q])
       PROVE  q + 1 \in 1 .. Len(s) /\ InBody(rs, s[q + 1])
  <2>1. CASE r.framing # "chunked"
    <3>0. q \in 1 .. n \/ q = n + 1 \/ q \in n + 2 .. n + 1 + m
      <4>1. Len(Z) = 0
        BY <1>7, <2>1, Zenon
      <4>2. Len(s) = n + 1 + m + Len(Z)
        BY <1>11, Zenon
      <4>3. q \in 1 .. n + 1 + m
        BY <1>2, <4>1, <4>2
      <4> QED BY <1>2, <4>3
    <3>1. s[q] \in {h, e, b}
      BY <1>11, <3>0, Zenon
    <3> QED BY <1>5, <1>12, <2>1, <3>1 DEF MoreBody
  <2>2. CASE r.framing = "chunked"
    <3>1. Len(s) = n + 1 + m + 1 /\ s[n + 1 + m + 1] = z
      <4>1. Len(Z) = 1 /\ Z[1] = z /\ 1 \in 1 .. 1
        BY <1>7, <2>2
      <4> QED BY <1>11, <4>1
    <3>2. ~(q \in 1 .. n) /\ q # n + 1 + m + 1
      BY <1>5, <1>11, <1>12, <3>1 DEF MoreBody
    <3>3. q + 1 \in 1 .. Len(s) /\ (q + 1 \in n + 2 .. n + 1 + m \/ q + 1 = n + 1 + m + 1)
      BY <1>2, <3>1, <3>2
    <3>4. s[q + 1] \in {b, z}
      BY <1>11, <3>1, <3>3
    <3> QED BY <1>5, <2>2, <3>3, <3>4 DEF InBody
  <2> QED BY <2>1, <2>2
<1>13. ASSUME NEW q \in 1 .. Len(s) PROVE s[q] \in {h, e, b, z} /\ (s[q] = e => q = n + 1)
  <2>1. CASE q \in 1 .. n + 1 + m
    <3>1. q \in 1 .. n \/ q = n + 1 \/ q \in n + 2 .. n + 1 + m
      BY <1>2, <2>1
    <3> QED BY <1>5, <1>11, <3>1
  <2>2. CASE ~(q \in 1 .. n + 1 + m)
    <3> DEFINE k == q - (n + 1 + m)
    <3>1. k \in 1 .. Len(Z) /\ q = n + 1 + m + k
      BY <1>2, <1>11, <2>2
    <3>2. s[q] = Z[k]
      BY <1>11, <3>1
    <3>3. Z[k] = z
      BY <1>7, <3>1
    <3> QED BY <1>5, <3>2, <3>3
  <2> QED BY <2>1, <2>2
<1>14. \A q \in 1 .. Len(s) : s[q].req = i
  BY <1>5, <1>13
<1>15. Lengths(rs, s)
  <2> SUFFICES ASSUME NEW q \in 1 .. Len(s), LengthHead(rs, s[q])
               PROVE  /\ \A j \in 1 .. m : /\ q + j \in 1 .. Len(s) /\ s[q + j].kind = "b"
                                           /\ s[q + j].req = s[q].req
                      /\ \A k \in q + m + 1 .. Len(s) : s[k].req > s[q].req
    BY <1>14 DEF Lengths, m
  <2>1. q = n + 1 /\ Len(s) = n + 1 + m
    <3>1. s[q].kind = "e" /\ r.framing = "length"
      BY <1>14 DEF LengthHead
    <3> QED BY <1>2, <1>5, <1>7, <1>11, <1>13, <3>1
  <2>2. ASSUME NEW j \in 1 .. m
        PROVE  q + j \in 1 .. Len(s) /\ s[q + j].kind = "b" /\ s[q + j].req = s[q].req
    <3>1. q + j \in n + 2 .. n + 1 + m /\ q + j \in 1 .. Len(s)
      BY <1>2, <2>1
    <3>2. s[q + j] = b
      BY <1>11, <3>1
    <3> QED BY <1>5, <1>14, <3>1, <3>2
  <2>3. ~ \E k : k \in q + m + 1 .. Len(s)
    BY <1>2, <2>1
  <2> QED BY <2>2, <2>3
<1> QED BY <1>11, <1>12, <1>14, <1>15 DEF Whole, P, s

\* The functions by which Stream joins the pieces of the first n requests.
Joined(rs, n, f) ==
  f = [i \in 0 .. n |-> IF i = 0 THEN <<>> ELSE f[i - 1] \o Pieces(i, rs[i])]

LEMMA CanJoin ==
  ASSUME NEW rs, NEW N \in Nat
  PROVE  \E f : Joined(rs, N, f)
<1> DEFINE G == {n \in Nat : ~ \E f : Joined(rs, n, f)}
<1>1. SUFFICES ASSUME G # {} PROVE FALSE
  OBVIOUS
<1>2. G \in SUBSET Nat
  OBVIOUS
<1> DEFINE m == Min(G)
<1>3. m \in G /\ \A y \in G : m <= y
  BY <1>1, <1>2, MinIsLeast
<1> HIDE DEF m
<1>4. m \in Nat /\ ~ \E f : Joined(rs, m, f)
  BY <1>3
<1>5. m # 0
  <2>1. Joined(rs, 0, [i \in 0 .. 0 |-> <<>>])
    BY DEF Joined
  <2> QED BY <1>4, <2>1
<1>6. m - 1 \in Nat /\ ~(m <= m - 1)
  BY <1>4, <1>5
<1>7. PICK f : Joined(rs, m - 1, f)
  BY <1>3, <1>6
<1> DEFINE J(x, i) == x \o Pieces(i, rs[i])
           h == [i \in 0 .. m |-> IF i = 0 THEN <<>> ELSE J(f[i - 1], i)]
<1>8. f = [i \in 0 .. m - 1 |-> IF i = 0 THEN <<>> ELSE J(f[i - 1], i)]
  BY <1>7, Zenon DEF Joined
<1> HIDE DEF J
<1>9. \A i \in 0 .. m - 1 : h[i] = f[i]
  <2> SUFFICES ASSUME NEW i \in 0 .. m - 1 PROVE h[i] = f[i]
    BY Zenon
  <2>1. i \in 0 .. m
    BY <1>4
  <2> QED BY <1>8, <2>1
<1>10. \A i \in 0 .. m : i # 0 => h[i - 1] = f[i - 1]
  <2>1. \A i \in 0 .. m : i # 0 => i - 1 \in 0 .. m - 1
    BY <1>4
  <2> HIDE DEF h
  <2> QED BY <1>9, <2>1
<1>11. h = [i \in 0 .. m |-> IF i = 0 THEN <<>> ELSE J(h[i - 1], i)]
  BY <1>10
<1>12. Joined(rs, m, h)
  BY <1>11 DEF Joined, J
<1> QED BY <1>4, <1>12

\* The stream of a sequence of requests is made of whole requests.
LEMMA StreamWhole ==
  ASSUME NEW rs \in Seq(RequestRec)
  PROVE  Whole(rs, Stream(rs)) /\ Lengths(rs, Stream(rs))
<1> DEFINE n == Len(rs)
           upto == CHOOSE f : Joined(rs, n, f)
           P(i) == Pieces(i, rs[i])
<1>1. n \in Nat /\ DOMAIN rs = 1 .. n
  OBVIOUS
<1>2. \A i \in 1 .. n : /\ Whole(rs, P(i)) /\ Lengths(rs, P(i))
                        /\ \A q \in 1 .. Len(P(i)) : P(i)[q].req = i
  BY <1>1, PiecesWhole
<1>3. Stream(rs) = upto[n]
  BY DEF Stream, Joined
<1>4. Joined(rs, n, upto)
  BY <1>1, CanJoin, Zenon
<1> HIDE DEF upto
<1>5. upto = [i \in 0 .. n |-> IF i = 0 THEN <<>> ELSE upto[i - 1] \o P(i)]
  BY <1>4 DEF Joined
<1> HIDE DEF P
<1> DEFINE W(i) == Whole(rs, upto[i]) /\ Lengths(rs, upto[i]) /\ UpTo(upto[i], i)
           G == {i \in 0 .. n : ~W(i)}
           m == Min(G)
<1>6. G = {}
  <2> SUFFICES ASSUME G # {} PROVE FALSE
    OBVIOUS
  <2>1. G \in SUBSET Nat
    OBVIOUS
  <2>2. m \in G /\ \A y \in G : m <= y
    BY <2>1, MinIsLeast
  <2> HIDE DEF m
  <2>3. m \in 0 .. n /\ ~W(m)
    BY <2>2
  <2>4. upto[m] = IF m = 0 THEN <<>> ELSE upto[m - 1] \o P(m)
    BY <1>5, <2>3
  <2>5. m # 0
    <3> SUFFICES ASSUME m = 0 PROVE FALSE
      OBVIOUS
    <3>1. upto[0] = <<>> /\ ~W(0)
      BY <2>3, <2>4
    <3>2. Len(<<>>) = 0 /\ 1 .. 0 = {} /\ <<>> \in Seq(PieceOf(rs))
      OBVIOUS
    <3>3. Whole(rs, <<>>) /\ Lengths(rs, <<>>) /\ UpTo(<<>>, 0)
      BY <3>2, Zenon DEF Whole, Lengths, UpTo
    <3> QED BY <3>1, <3>3
  <2>6. m - 1 \in 0 .. n /\ m - 1 \in Nat /\ m \in 1 .. n /\ (m - 1) + 1 = m /\ ~(m <= m - 1)
    BY <1>1, <2>3, <2>5
  <2> DEFINE f == upto[m - 1]
             g == P(m)
  <2>7. /\ Whole(rs, f) /\ Whole(rs, g) /\ Lengths(rs, f) /\ Lengths(rs, g)
        /\ UpTo(f, m - 1) /\ \A q \in 1 .. Len(g) : g[q].req = (m - 1) + 1
    BY <1>2, <2>2, <2>6
  <2>8. upto[m] = f \o g
    BY <2>4, <2>5
  <2> HIDE DEF f, g
  <2>9. Whole(rs, f \o g)
    BY <2>7, WholeConcat
  <2>10. Lengths(rs, f \o g) /\ UpTo(f \o g, (m - 1) + 1)
    BY <2>6, <2>7, LengthsConcat
  <2> QED BY <2>3, <2>6, <2>8, <2>9, <2>10
<1>7. n \in 0 .. n
  BY <1>1
<1> QED BY <1>3, <1>6, <1>7

-----------------------------------------------------------------------------
(* The parser *)

StreamOK ==
  /\ reqs \in Seq(RequestRec) /\ LengthLast(reqs)
  /\ Whole(reqs, stream) /\ Lengths(reqs, stream)

\* The next c.left pieces are those of a body with a Content-Length, and they are
\* the last of the stream; body_remaining may be behind, since the header stage
\* does not take from it what it parses of the body.
Counting(c) ==
  /\ ~c.te_chunked /\ c.left \in Nat \ {0}
  /\ \A j \in 0 .. c.left - 1 : c.at + j \in 1 .. Len(stream) =>
       stream[c.at + j].kind = "b" /\ reqs[stream[c.at + j].req].framing = "length"
Remains(c) ==
  c.body_remaining \in Nat /\ c.left <= c.body_remaining /\ c.at + c.left = Len(stream) + 1

\* The parser of a request that is not refused is within it: a message that is
\* done is paused at its end, or is that of a method which is answered with 405,
\* and once the headers are done the next piece is one of the body.
Within(c) ==
  /\ c.paused => c.message_done
  /\ ~c.paused /\ c.message_done => c.headers_done /\ c.method_not_allowed
  /\ ~c.paused /\ c.headers_done =>
       \/ c.te_chunked /\ (c.at \in 1 .. Len(stream) => InBody(reqs, stream[c.at]))
       \/ Counting(c) /\ (c.message_done \/ Remains(c))

\* A body with a Content-Length is being read, and it is read to its end.
LastBody(c) == ~c.paused /\ c.headers_done /\ ~c.message_done /\ Counting(c) /\ Remains(c)
ReadsLast(c, y) ==
  LastBody(c) => \/ LastBody(y) /\ y.body_remaining = c.body_remaining
                 \/ y.at = Len(stream) + 1

\* What the headers of request r leave behind them.
LEMMA BodyAhead ==
  ASSUME StreamOK, NEW q \in 1 .. Len(stream), NEW r, r = reqs[stream[q].req],
         stream[q].kind = "e", NEW y, y.at = q + 1, ~y.paused, y.headers_done,
         y.te_chunked = (r.framing = "chunked"), y.left = r.body, BodyBegins(r, y)
  PROVE  Within(y)
<1> DEFINE p == stream[q]
<1>1. stream \in Seq(PieceOf(reqs)) /\ reqs \in Seq(RequestRec) /\ Len(stream) \in Nat
  BY DEF StreamOK, Whole
<1>2. q \in Nat /\ p \in PieceOf(reqs)
  BY <1>1
<1>3. p.req \in DOMAIN reqs
  BY <1>2 DEF PieceOf
<1>4. r.body \in Nat
  <2>1. r \in RequestRec
    BY <1>1, <1>3
  <2> QED BY <2>1 DEF RequestRec
<1>5. CASE r.framing = "chunked"
  <2>1. MoreBody(reqs, p)
    BY <1>5 DEF MoreBody
  <2>2. InBody(reqs, stream[q + 1])
    BY <2>1 DEF StreamOK, Whole
  <2>3. y.message_done => y.method_not_allowed
    BY <1>5 DEF BodyBegins, LengthRead
  <2> QED BY <1>5, <2>2, <2>3, Zenon DEF Within
<1>6. CASE r.framing # "chunked"
  <2>1. r.framing = "length" /\ r.body # 0
    BY <1>6 DEF BodyBegins, LengthRead
  <2>2. LengthHead(reqs, p)
    BY <2>1 DEF LengthHead
  <2>3. /\ \A j \in 1 .. r.body : /\ q + j \in 1 .. Len(stream) /\ stream[q + j].kind = "b"
                                  /\ stream[q + j].req = p.req
        /\ \A k \in q + r.body + 1 .. Len(stream) : stream[k].req > p.req
    BY <2>2 DEF StreamOK, Lengths
  <2>4. ASSUME NEW j \in 0 .. y.left - 1
        PROVE  stream[y.at + j].kind = "b" /\ reqs[stream[y.at + j].req].framing = "length"
    <3>1. j + 1 \in 1 .. r.body /\ q + (j + 1) = y.at + j
      BY <1>2, <1>4
    <3> QED BY <2>1, <2>3, <3>1
  <2>5. Counting(y)
    BY <1>4, <2>1, <2>4, Zenon DEF Counting
  <2>6. CASE y.message_done /\ y.method_not_allowed
    BY <2>5, <2>6 DEF Within
  <2>7. CASE LengthRead(r) /\ ~y.message_done /\ y.body_remaining = r.body
    <3>1. p.req = Len(reqs)
      BY <1>3, <2>7 DEF StreamOK, LengthLast
    <3>2. r.body \in 1 .. r.body
      BY <1>4, <2>1
    <3>3. q + r.body \in 1 .. Len(stream)
      BY <2>3, <3>2, Zenon
    <3>4. q + r.body = Len(stream)
      <4> SUFFICES ASSUME q + r.body # Len(stream) PROVE FALSE
        OBVIOUS
      <4> DEFINE k == q + r.body + 1
      <4> DEFINE b == r.body
      <4>0. b \in Nat /\ q + b \in 1 .. Len(stream) /\ q + b # Len(stream)
        BY <1>4, <3>3
      <4> HIDE DEF b
      <4>1. k \in q + r.body + 1 .. Len(stream) /\ k \in 1 .. Len(stream)
        <5>1. q + b + 1 \in q + b + 1 .. Len(stream) /\ q + b + 1 \in 1 .. Len(stream)
          BY <1>1, <1>2, <4>0
        <5> QED BY <5>1 DEF b
      <4>2. stream[k].req > Len(reqs)
        BY <2>3, <3>1, <4>1
      <4>3. stream[k] \in PieceOf(reqs)
        BY <1>1, <4>1
      <4>4. stream[k].req \in 1 .. Len(reqs)
        <5>1. \A e \in PieceOf(reqs) : e.req \in DOMAIN reqs
          BY DEF PieceOf
        <5>2. DOMAIN reqs = 1 .. Len(reqs)
          BY <1>1
        <5> QED BY <4>3, <5>1, <5>2, Zenon
      <4>5. ASSUME NEW n \in Nat, NEW z \in 1 .. n, z > n PROVE FALSE
        BY <4>5
      <4>6. Len(reqs) \in Nat
        BY <1>1
      <4> QED BY Zenon, <4>2, <4>4, <4>5, <4>6
    <3>5. Remains(y)
      BY <1>2, <1>4, <2>7, <3>4 DEF Remains
    <3> QED BY <2>5, <2>7, <3>5 DEF Within
  <2> QED BY <1>6, <2>6, <2>7 DEF BodyBegins
<1> QED BY <1>5, <1>6

\* A piece of a body that is not its last.
LEMMA BodyGoesOn ==
  ASSUME NEW c, Counting(c), c.at \in Nat, ~c.paused, c.headers_done, Within(c),
         NEW y, y.at = c.at + 1, y.left = c.left - 1, y.left # 0, SamePlace(c, y)
  PROVE  Within(y) /\ (LastBody(c) => LastBody(y) /\ y.body_remaining = c.body_remaining)
<1>1. c.left \in Nat /\ c.left # 0
  BY DEF Counting
<1>2. Counting(y)
  <2>1. y.left \in Nat \ {0}
    BY <1>1
  <2>2. ASSUME NEW j \in 0 .. y.left - 1
        PROVE  j + 1 \in 0 .. c.left - 1 /\ y.at + j = c.at + (j + 1)
    BY <1>1
  <2>3. ~y.te_chunked
    BY DEF Counting, SamePlace
  <2>4. ASSUME NEW j \in 0 .. y.left - 1, y.at + j \in 1 .. Len(stream)
        PROVE  stream[y.at + j].kind = "b" /\ reqs[stream[y.at + j].req].framing = "length"
    <3> DEFINE k == j + 1
    <3>1. k \in 0 .. c.left - 1 /\ y.at + j = c.at + k
      BY <2>2
    <3> HIDE DEF k
    <3> QED BY <2>4, <3>1 DEF Counting
  <2> QED BY <2>1, <2>3, <2>4 DEF Counting
<1>3. c.message_done \/ Remains(c)
  BY DEF Within, Counting
<1>4. Remains(c) => Remains(y)
  <2> SUFFICES ASSUME Remains(c) PROVE Remains(y)
    OBVIOUS
  <2>1. c.body_remaining \in Nat /\ c.left <= c.body_remaining /\ c.at + c.left = Len(stream) + 1
    BY DEF Remains
  <2>2. y.body_remaining = c.body_remaining
    BY DEF SamePlace
  <2>3. y.left <= y.body_remaining /\ y.at + y.left = c.at + c.left
    BY <1>1, <2>1, <2>2
  <2> QED BY <2>1, <2>2, <2>3 DEF Remains
<1>5. /\ ~y.paused /\ y.headers_done /\ (y.message_done <=> c.message_done)
      /\ (y.method_not_allowed <=> c.method_not_allowed) /\ y.body_remaining = c.body_remaining
  BY DEF SamePlace
<1>6. Within(y)
  BY <1>2, <1>3, <1>4, <1>5 DEF Within
<1> QED BY <1>2, <1>4, <1>5, <1>6 DEF LastBody

LEMMA PieceStep ==
  ASSUME StreamOK, NEW c, Shaped(c), c.at \in Nat, ~c.paused, ~c.failed,
         Refused(c) \/ Within(c), NEW q \in 1 .. Len(stream)
  PROVE  LET y == Piece(c, stream[q], q)
         IN  /\ Shaped(y) /\ y.at \in Nat /\ (Refused(c) => Refused(y))
             /\ y.paused => y.message_done
             /\ \/ Refused(y) \/ y.failed
                \/ q = c.at /\ y.at = q + 1 /\ Within(y) /\ ReadsLast(c, y)
<1> DEFINE p == stream[q]
           r == reqs[p.req]
           n == q + 1
           d == [c EXCEPT !.at = n]
           y == Piece(c, p, q)
<1>1. stream \in Seq(PieceOf(reqs)) /\ reqs \in Seq(RequestRec)
  BY DEF StreamOK, Whole
<1>2. p \in PieceOf(reqs) /\ q \in Nat /\ n \in Nat
  BY <1>1
<1>3. p.kind \in {"h", "e", "b", "z"} /\ p.req \in DOMAIN reqs
  BY <1>2 DEF PieceOf
<1>4. r \in RequestRec /\ Framed(r)
  BY <1>1, <1>3 DEF StreamOK, LengthLast
<1>5. y = IF q # c.at \/ (p.kind \in {"b", "z"} /\ ~c.headers_done)
            THEN [c EXCEPT !.failed = TRUE]
          ELSE IF p.kind = "h" THEN OnHeaderField(d)
          ELSE IF p.kind = "e" THEN HeadersEnd(d, r)
          ELSE IF p.kind = "b" THEN BodyPiece(d, r)
          ELSE OnMessageComplete(d)
  BY DEF Piece
<1>6a. q = c.at => (LastBody(c) => p.kind = "b")
  <2>1. Counting(c) => 0 \in 0 .. c.left - 1 /\ c.at + 0 = c.at
    BY DEF Counting
  <2> QED BY <2>1 DEF LastBody, Counting
<1>6. MoreBody(reqs, p) => (n \in 1 .. Len(stream) => InBody(reqs, stream[n]))
  BY DEF StreamOK, Whole
<1>7. d = [c EXCEPT !.at = n]
  OBVIOUS
<1> HIDE DEF p, r, n, d, y
<1>8. /\ Shaped(d) /\ d.at = n /\ SamePlace(c, d) /\ d.left = c.left
      /\ d.unsupported_te = c.unsupported_te /\ d.body_too_big = c.body_too_big
      /\ d.parse_error = c.parse_error /\ d.header_too_big = c.header_too_big
  BY <1>7 DEF Shaped, SamePlace
<1>9. Refused(c) <=> Refused(d)
  BY <1>8 DEF Refused
<1>10. CASE q # c.at \/ (p.kind \in {"b", "z"} /\ ~c.headers_done)
  <2>1. y = [c EXCEPT !.failed = TRUE]
    BY <1>5, <1>10
  <2>2. /\ Shaped(y) /\ y.failed = TRUE /\ y.at = c.at /\ y.paused = c.paused
        /\ y.unsupported_te = c.unsupported_te /\ y.body_too_big = c.body_too_big
        /\ y.parse_error = c.parse_error /\ y.header_too_big = c.header_too_big
    BY <2>1, Zenon DEF Shaped
  <2>3. Refused(c) <=> Refused(y)
    BY <2>2 DEF Refused
  <2> QED BY <2>2, <2>3 DEF y, p
<1>11. CASE ~(q # c.at \/ (p.kind \in {"b", "z"} /\ ~c.headers_done))
  <2>1. SUFFICES /\ Follows(d, y) /\ (y.paused => y.message_done \/ d.paused)
                 /\ Refused(y) \/ y.failed \/ (Within(y) /\ ReadsLast(c, y))
    <3>1. Shaped(y) /\ y.at = n /\ (Refused(c) => Refused(y)) /\ (y.paused => y.message_done)
      BY <1>8, <1>9, <2>1 DEF Follows, SamePlace
    <3> QED BY <1>2, <1>11, <2>1, <3>1 DEF y, p, n
  <2>2. q = c.at /\ (p.kind # "b" => ReadsLast(c, y))
    BY <1>11, <1>6a DEF ReadsLast
  <2>3. CASE p.kind = "h"
    <3>1. y = OnHeaderField(d)
      BY <1>5, <1>11, <2>3
    <3>2. Follows(d, y) /\ SamePlace(d, y)
      BY <1>8, <3>1, HeaderField
    <3>3. CASE Refused(c)
      BY <1>9, <3>2, <3>3 DEF Follows, SamePlace
    <3>4. CASE Within(c)
      <4>1. ~c.headers_done
        <5>1. Counting(c) => p.kind = "b"
          <6>1. Counting(c) => 0 \in 0 .. c.left - 1 /\ c.at + 0 = c.at
            BY DEF Counting
          <6> QED BY <2>2, <6>1 DEF Counting, p
        <5> QED BY <2>2, <2>3, <3>4, <5>1 DEF Within, InBody, p
      <4>2. ~c.message_done
        BY <3>4, <4>1 DEF Within
      <4>3. ~y.headers_done /\ ~y.message_done /\ ~y.paused
        BY <1>8, <3>2, <4>1, <4>2 DEF SamePlace
      <4> QED BY <2>2, <2>3, <3>2, <4>3 DEF Within
    <3> QED BY <3>3, <3>4
  <2>4. CASE p.kind = "e"
    <3>1. y = HeadersEnd(d, r)
      BY <1>5, <1>11, <2>4, Zenon
    <3>2. /\ Follows(d, y) /\ (y.paused => y.message_done \/ d.paused)
          /\ \/ Refused(y) \/ y.failed
             \/ y.paused /\ y.message_done
             \/ /\ y.paused = d.paused /\ y.headers_done
                /\ y.te_chunked = (r.framing = "chunked")
                /\ y.left = r.body /\ BodyBegins(r, y)
      BY <1>4, <1>8, <3>1, HeadersEnding
    <3>3. ~d.paused
      BY <1>8 DEF SamePlace
    <3>4. y.at = q + 1
      BY <1>8, <3>2 DEF Follows, n
    <3>5. CASE Refused(y) \/ y.failed
      BY <3>2, <3>5, Zenon
    <3>6. CASE y.paused /\ y.message_done
      BY <2>2, <2>4, <3>2, <3>6 DEF Within
    <3>7. CASE /\ y.paused = d.paused /\ y.headers_done
               /\ y.te_chunked = (r.framing = "chunked")
               /\ y.left = r.body /\ BodyBegins(r, y)
      <4>1. Within(y)
        BY <2>4, <3>3, <3>4, <3>7, BodyAhead DEF p, r
      <4> QED BY <2>2, <2>4, <3>2, <4>1
    <3> QED BY <3>2, <3>5, <3>6, <3>7
  <2>5. CASE p.kind = "b"
    <3>1. y = BodyPiece(d, r)
      BY <1>5, <1>11, <2>5
    <3>2. ~d.failed
      BY <1>8 DEF SamePlace
    <3>3. /\ Follows(d, y) /\ (y.paused => y.message_done \/ d.paused)
          /\ Refused(y) \/ y.left = d.left - 1
          /\ \/ Refused(y) \/ (SamePlace(d, y) /\ (r.framing = "length" => y.left # 0))
             \/ r.framing = "length" /\ y.left = 0 /\ y.paused /\ y.message_done
      BY <1>8, <3>1, <3>2, Body
    <3>4. CASE Refused(y)
      BY <3>3, <3>4
    <3>5. CASE ~Refused(y)
      <4>1. ~Refused(c) /\ Within(c)
        BY <1>9, <3>3, <3>5 DEF Follows
      <4>2. c.headers_done
        BY <1>11, <2>5
      <4>3. y.at = c.at + 1 /\ y.left = c.left - 1
        BY <1>8, <2>2, <3>3, <3>5 DEF Follows, n
      <4>4. SamePlace(d, y) => SamePlace(c, y)
        BY <1>8 DEF SamePlace
      <4>5. CASE Counting(c)
        <5>1. c.left \in Nat /\ 0 \in 0 .. c.left - 1 /\ c.at + 0 = c.at
          BY <4>5 DEF Counting
        <5>2. r.framing = "length"
          BY <2>2, <4>5, <5>1 DEF Counting, p, r
        <5>3. CASE y.left # 0
          <6>1. SamePlace(c, y)
            BY <3>3, <3>5, <4>4, <5>3
          <6>2. Within(y) /\ ReadsLast(c, y)
            BY <4>1, <4>2, <4>3, <4>5, <5>3, <6>1, BodyGoesOn, Zenon DEF ReadsLast
          <6> QED BY <3>3, <6>2
        <5>4. CASE y.left = 0
          <6>1. y.paused /\ y.message_done
            BY <3>3, <3>5, <5>2, <5>4
          <6>2. c.left = 1
            BY <4>3, <5>1, <5>4
          <6>3. Remains(c) => y.at = Len(stream) + 1
            BY <4>3, <6>2 DEF Remains
          <6> QED BY <3>3, <6>1, <6>3 DEF Within, ReadsLast, LastBody
        <5> QED BY <5>3, <5>4
      <4>6. CASE ~Counting(c)
        <5>1. c.te_chunked /\ InBody(reqs, p)
          BY <2>2, <4>1, <4>2, <4>6 DEF Within, p
        <5>2. r.framing = "chunked"
          BY <5>1 DEF InBody, r
        <5>3. SamePlace(c, y)
          BY <3>3, <3>5, <4>4, <5>2, Zenon
        <5>4. y.at \in 1 .. Len(stream) => InBody(reqs, stream[y.at])
          BY <1>6, <2>2, <2>5, <4>3, <5>2 DEF MoreBody, r, n
        <5>5. Within(y)
          BY <4>1, <4>2, <5>1, <5>3, <5>4 DEF Within, SamePlace
        <5>6. ReadsLast(c, y)
          BY <4>6 DEF ReadsLast, LastBody
        <5> QED BY <3>3, <5>5, <5>6
      <4> QED BY <4>5, <4>6
    <3> QED BY <3>4, <3>5
  <2>6. CASE p.kind = "z"
    <3>1. y = OnMessageComplete(d)
      BY <1>5, <1>11, <2>6
    <3>2. Follows(d, y) /\ y.paused /\ y.message_done
      BY <1>8, <3>1, MessageComplete
    <3> QED BY <2>2, <2>6, <3>2 DEF Within
  <2> QED BY <1>3, <2>3, <2>4, <2>5, <2>6, Zenon
<1> QED BY <1>10, <1>11

\* buf holds the pieces of the stream from place a on.
Buffer(buf, a) ==
  /\ buf \in Seq(1 .. Len(stream)) /\ Len(stream) \in Nat /\ a \in Nat
  /\ \A i \in 1 .. Len(buf) : buf[i] = a + i - 1

\* What one call of llhttp may make of c in i pieces.
Ran(c, i, d) ==
  /\ Shaped(d) /\ d.at \in Nat /\ (d.paused => d.message_done)
  /\ \/ Refused(d) \/ d.failed
     \/ /\ Within(d) /\ c.at <= d.at /\ d.at <= c.at + i /\ ReadsLast(c, d)
        /\ ~d.paused => d.at = c.at + i

\* The functions by which Execute visits the first n pieces.
Runs(c, buf, n, f) ==
  f = [i \in 0 .. n |->
         IF i = 0 THEN c
         ELSE LET d == f[i - 1]
              IN  IF d.paused \/ d.failed THEN d ELSE Piece(d, stream[buf[i]], buf[i])]

LEMMA CanRun ==
  ASSUME NEW c, NEW buf, NEW N \in Nat
  PROVE  \E f : Runs(c, buf, N, f)
<1> DEFINE G == {n \in Nat : ~ \E f : Runs(c, buf, n, f)}
<1>1. SUFFICES ASSUME G # {} PROVE FALSE
  OBVIOUS
<1>2. G \in SUBSET Nat
  OBVIOUS
<1> DEFINE m == Min(G)
<1>3. m \in G /\ \A y \in G : m <= y
  BY <1>1, <1>2, MinIsLeast
<1> HIDE DEF m
<1>4. m \in Nat /\ ~ \E f : Runs(c, buf, m, f)
  BY <1>3
<1>5. m # 0
  <2>1. Runs(c, buf, 0, [i \in 0 .. 0 |-> c])
    BY DEF Runs
  <2> QED BY <1>4, <2>1
<1>6. m - 1 \in Nat /\ ~(m <= m - 1)
  BY <1>4, <1>5
<1>7. PICK f : Runs(c, buf, m - 1, f)
  BY <1>3, <1>6
<1> DEFINE S(d, i) == IF d.paused \/ d.failed THEN d ELSE Piece(d, stream[buf[i]], buf[i])
           h == [i \in 0 .. m |-> IF i = 0 THEN c ELSE S(f[i - 1], i)]
<1>8. f = [i \in 0 .. m - 1 |-> IF i = 0 THEN c ELSE S(f[i - 1], i)]
  BY <1>7, Zenon DEF Runs
<1> HIDE DEF S
<1>9. \A i \in 0 .. m - 1 : h[i] = f[i]
  <2> SUFFICES ASSUME NEW i \in 0 .. m - 1 PROVE h[i] = f[i]
    BY Zenon
  <2>1. i \in 0 .. m
    BY <1>4
  <2> QED BY <1>8, <2>1, Zenon
<1>10. \A i \in 0 .. m : i # 0 => h[i - 1] = f[i - 1]
  <2>1. \A i \in 0 .. m : i # 0 => i - 1 \in 0 .. m - 1
    BY <1>4
  <2> HIDE DEF h
  <2> QED BY <1>9, <2>1
<1>11. h = [i \in 0 .. m |-> IF i = 0 THEN c ELSE S(h[i - 1], i)]
  BY <1>10, Zenon
<1>12. Runs(c, buf, m, h)
  BY <1>11 DEF Runs, S
<1> QED BY <1>4, <1>12

LEMMA Executed ==
  ASSUME StreamOK, NEW c, Shaped(c), c.at \in Nat, ~c.paused, ~c.failed, Within(c),
         NEW buf, Buffer(buf, c.at)
  PROVE  Ran(c, Len(buf), Execute(c, buf))
<1> DEFINE n == Len(buf)
           after == CHOOSE f : Runs(c, buf, n, f)
           S(d, i) == IF d.paused \/ d.failed THEN d ELSE Piece(d, stream[buf[i]], buf[i])
<1>1. n \in Nat /\ \A i \in 1 .. n : buf[i] \in 1 .. Len(stream) /\ buf[i] = c.at + i - 1
  BY DEF Buffer
<1>2. Execute(c, buf) = after[n]
  BY DEF Execute, Runs
<1>3. Runs(c, buf, n, after)
  BY <1>1, CanRun, Zenon
<1> HIDE DEF after
<1>4. after = [i \in 0 .. n |-> IF i = 0 THEN c ELSE S(after[i - 1], i)]
  BY <1>3 DEF Runs
<1> HIDE DEF S, n
<1> DEFINE G == {i \in 0 .. n : ~Ran(c, i, after[i])}
           m == Min(G)
<1>5. G = {}
  <2> SUFFICES ASSUME G # {} PROVE FALSE
    OBVIOUS
  <2>1. G \in SUBSET Nat
    OBVIOUS
  <2>2. m \in G /\ \A y \in G : m <= y
    BY <2>1, MinIsLeast
  <2> HIDE DEF m
  <2>3. m \in 0 .. n /\ ~Ran(c, m, after[m])
    BY <2>2
  <2>4. after[m] = IF m = 0 THEN c ELSE S(after[m - 1], m)
    BY <1>4, <2>3
  <2>5. m # 0
    <3>1. Ran(c, 0, c)
      <4>1. c.at <= c.at /\ c.at <= c.at + 0 /\ c.at = c.at + 0
        OBVIOUS
      <4>2. ReadsLast(c, c) /\ (c.paused => c.message_done)
        BY Zenon DEF ReadsLast
      <4> QED BY <4>1, <4>2, Zenon DEF Ran
    <3> QED BY <2>3, <2>4, <3>1, Zenon
  <2>6. m - 1 \in 0 .. n /\ ~(m <= m - 1) /\ m \in 1 .. n /\ m \in Nat
    BY <1>1, <2>3, <2>5
  <2> DEFINE d == after[m - 1]
             y == after[m]
             q == buf[m]
  <2>7. Ran(c, m - 1, d)
    BY <2>2, <2>6
  <2>8. y = S(d, m)
    BY <2>4, <2>5
  <2>9. q \in 1 .. Len(stream) /\ q = c.at + m - 1
    BY <1>1, <2>6
  <2> HIDE DEF d, y, q
  <2>10. CASE d.paused \/ d.failed
    <3>1. y = d
      BY <2>8, <2>10 DEF S
    <3>2. Ran(c, m, d)
      <4>1. CASE Refused(d) \/ d.failed
        BY <2>7, <4>1, Zenon DEF Ran
      <4>2. CASE ~(Refused(d) \/ d.failed)
        <5>1. /\ Within(d) /\ c.at <= d.at /\ d.at <= c.at + (m - 1) /\ d.paused
              /\ ReadsLast(c, d)
          BY <2>7, <2>10, <4>2 DEF Ran
        <5>2. d.at \in Nat
          BY <2>7 DEF Ran
        <5>3. d.at <= c.at + m
          BY <2>6, <5>1, <5>2
        <5> QED BY <2>7, <5>1, <5>3, Zenon DEF Ran
      <4> QED BY <4>1, <4>2, Zenon
    <3> QED BY <2>3, <3>1, <3>2 DEF y
  <2>11. CASE ~(d.paused \/ d.failed)
    <3>1. y = Piece(d, stream[q], q)
      BY <2>8, <2>11 DEF S, q
    <3>2. /\ Shaped(d) /\ d.at \in Nat
          /\ Refused(d) \/ (Within(d) /\ d.at = c.at + (m - 1) /\ ReadsLast(c, d))
      BY <2>7, <2>11 DEF Ran
    <3>3. /\ Shaped(y) /\ y.at \in Nat /\ (y.paused => y.message_done)
          /\ Refused(d) => Refused(y)
          /\ \/ Refused(y) \/ y.failed
             \/ q = d.at /\ y.at = q + 1 /\ Within(y) /\ ReadsLast(d, y)
      BY <2>9, <2>11, <3>1, <3>2, PieceStep
    <3>4. y.at = q + 1 => y.at = c.at + m /\ c.at <= y.at /\ y.at <= c.at + m
      BY <2>6, <2>9
    <3>5. ReadsLast(c, d) /\ q = d.at /\ ReadsLast(d, y) => ReadsLast(c, y)
      <4>1. q # Len(stream) + 1
        BY <2>9 DEF Buffer
      <4> QED BY <4>1 DEF ReadsLast
    <3>6. Refused(y) \/ y.failed \/ (y.at = q + 1 /\ Within(y) /\ ReadsLast(c, y))
      BY <3>2, <3>3, <3>5, Zenon
    <3>7. Ran(c, m, y)
      BY <3>3, <3>4, <3>6 DEF Ran
    <3> QED BY <2>3, <3>7 DEF y
  <2> QED BY <2>10, <2>11
<1>6. n \in 0 .. n
  BY <1>1
<1> QED BY <1>2, <1>5, <1>6 DEF n

\* A parser between two buffers, with more of its request to come.
Reading(c) ==
  /\ Shaped(c) /\ c.at \in Nat /\ ~c.paused /\ ~c.failed /\ ~c.message_done
  /\ ~Refused(c) /\ Within(c)

\* What a buffer of n pieces may make of c: a refusal, or a parser that has used
\* k of them, and all of them unless a message is complete.
Fed(c, n, k, y) ==
  /\ Shaped(y) /\ (y.paused => y.message_done)
  /\ \/ Refused(y)
     \/ /\ ~y.failed /\ Within(y) /\ k \in 0 .. n /\ y.at = c.at + k
        /\ ~y.paused => k = n

LEMMA Feeds ==
  ASSUME StreamOK, NEW c, Reading(c), NEW buf, Buffer(buf, c.at), buf # <<>>
  PROVE  LET y == HttpPipelineFeed(c, buf)
         IN  Fed(c, Len(buf), Used(y, buf), y) /\ (Refused(y) \/ ReadsLast(c, y))
<1> DEFINE n == Len(buf)
           d == CountHeader(c, n)
           x == Execute(d, buf)
           y == HttpPipelineFeed(c, buf)
           b == x.failed /\ ~x.body_too_big
           e == x.parse_error \/ b
<1>1. ~Terminal(c) /\ ~c.message_done
  BY DEF Reading, Refused, Terminal
<1>2. y = IF d.header_too_big THEN d ELSE [x EXCEPT !.parse_error = e]
  BY <1>1 DEF HttpPipelineFeed
<1>3. Shaped(d) /\ d.at = c.at /\ SamePlace(c, d) /\ d.left = c.left
  <2>1. CASE c.headers_done
    BY <2>1, Zenon DEF CountHeader, Reading, SamePlace
  <2>2. CASE ~c.headers_done
    <3> DEFINE u == c.parser_bytes + n
               v == c.header_too_big \/ c.parser_bytes + n > MaxHeader
    <3>1. d = [c EXCEPT !.parser_bytes = u, !.header_too_big = v]
      BY <2>2 DEF CountHeader
    <3> HIDE DEF d, u, v
    <3> QED BY <3>1, Zenon DEF Shaped, Reading, SamePlace
  <2> QED BY <2>1, <2>2
<1> HIDE DEF d
<1>4. ~d.paused /\ ~d.failed /\ d.at \in Nat
  BY <1>3 DEF Reading, SamePlace
<1>4a. (Counting(c) <=> Counting(d)) /\ (Remains(c) <=> Remains(d))
  <2>1. d.at = c.at /\ d.left = c.left
    BY <1>3
  <2>2. d.te_chunked = c.te_chunked /\ d.body_remaining = c.body_remaining
    BY <1>3 DEF SamePlace
  <2>3. Counting(c) <=> Counting(d)
    BY <2>1, <2>2 DEF Counting
  <2>4. Remains(c) <=> Remains(d)
    BY <2>1, <2>2 DEF Remains
  <2> QED BY <2>3, <2>4
<1>4b. Within(d) /\ (LastBody(c) => LastBody(d)) /\ d.body_remaining = c.body_remaining
  BY <1>3, <1>4a DEF Reading, SamePlace, Within, LastBody
<1>5. Ran(d, n, x)
  BY <1>3, <1>4, <1>4b, Executed
<1>6. n \in Nat /\ n # 0 /\ buf[1] = c.at
  BY SMTT(30) DEF Buffer, Reading
<1> HIDE DEF x, n, b
<1>7. CASE d.header_too_big
  <2>1. y = d
    BY <1>2, <1>7
  <2> QED BY <1>3, <1>4, <1>7, <2>1 DEF Fed, Refused, y, n
<1>8. CASE ~d.header_too_big
  <2>1. y = [x EXCEPT !.parse_error = e]
    BY <1>2, <1>8
  <2>2. Shaped(x)
    BY <1>5 DEF Ran
  <2> HIDE DEF y, e
  <2>3. /\ Shaped(y) /\ y.at = x.at /\ SamePlace(x, y) /\ y.parse_error = e /\ y.left = x.left
        /\ y.body_too_big = x.body_too_big
        /\ y.unsupported_te = x.unsupported_te /\ y.header_too_big = x.header_too_big
    BY <2>1, <2>2 DEF Shaped, SamePlace
  <2>4. Refused(x) => Refused(y)
    BY <2>3, Zenon DEF Refused, e
  <2>5. x.failed => Refused(y)
    BY <2>3, Zenon DEF Refused, e, b
  <2>6. y.paused => y.message_done
    BY <1>5, <2>3, Zenon DEF Ran, SamePlace
  <2>7. CASE Refused(y)
    BY <2>3, <2>6, <2>7 DEF Fed, y, n
  <2>8. CASE ~Refused(y)
    <3>1a. (Counting(x) <=> Counting(y)) /\ (Remains(x) <=> Remains(y))
      <4>1. y.at = x.at /\ y.left = x.left
        BY <2>3
      <4>2. y.te_chunked = x.te_chunked /\ y.body_remaining = x.body_remaining
        BY <2>3 DEF SamePlace
      <4>3. Counting(x) <=> Counting(y)
        BY <4>1, <4>2 DEF Counting
      <4>4. Remains(x) <=> Remains(y)
        BY <4>1, <4>2 DEF Remains
      <4> QED BY <4>3, <4>4
    <3>1b. (Within(x) => Within(y)) /\ (LastBody(x) => LastBody(y))
      BY <2>3, <3>1a DEF Within, LastBody, SamePlace
    <3>1c. /\ ~x.failed /\ Within(x) /\ d.at <= x.at /\ x.at <= d.at + n /\ x.at \in Nat
           /\ ReadsLast(d, x) /\ (~x.paused => x.at = d.at + n)
      BY <1>5, <2>4, <2>5, <2>8, Zenon DEF Ran
    <3>1. /\ ~y.failed /\ Within(y) /\ c.at <= y.at /\ y.at <= c.at + n /\ y.at \in Nat
          /\ ~y.paused => y.at = c.at + n
      BY <1>3, <2>3, <3>1b, <3>1c DEF SamePlace
    <3>1d. ReadsLast(c, y)
      BY <1>4b, <2>3, <3>1b, <3>1c DEF ReadsLast, SamePlace
    <3> DEFINE k == Used(y, buf)
    <3>2. k \in 0 .. n /\ y.at = c.at + k /\ (~y.paused => k = n)
      <4>1. c.at \in Nat
        BY DEF Reading
      <4>2. CASE y.paused
        BY <1>6, <3>1, <4>1, <4>2 DEF Used
      <4>3. CASE ~y.paused
        BY <1>6, <3>1, <4>1, <4>3, SMTT(30) DEF Used, n
      <4> QED BY <4>2, <4>3
    <3> HIDE DEF k
    <3>3. Fed(c, n, k, y)
      BY <2>3, <2>6, <3>1, <3>2 DEF Fed
    <3> QED BY <3>3, <3>1d DEF k, y, n
  <2> QED BY <2>7, <2>8
<1> QED BY <1>7, <1>8

\* A body with a Content-Length is fed all of the buffer.
LEMMA LengthParses ==
  ASSUME StreamOK, NEW c, Reading(c), LastBody(c), NEW buf, Buffer(buf, c.at), buf # <<>>
  PROVE  LET s == LengthBody(c, buf)
         IN  Fed(c, Len(buf), s.consumed, s.h1)
<1> DEFINE n == Len(buf)
           x == HttpPipelineFeed(c, buf)
           k == Used(x, buf)
           m == Min({c.body_remaining, Len(buf)})
           b == x.body_remaining - n
           y == [x EXCEPT !.body_remaining = b]
           s == LengthBody(c, buf)
<1>1. Fed(c, n, k, x) /\ (Refused(x) \/ ReadsLast(c, x))
  BY Feeds
<1>2. n \in Nat /\ n # 0 /\ buf \in Seq(1 .. Len(stream)) /\ Len(stream) \in Nat
  BY DEF Buffer
<1>3. buf[n] \in 1 .. Len(stream) /\ buf[n] = c.at + n - 1
  BY <1>2 DEF Buffer
<1>4. /\ c.at \in Nat /\ c.left \in Nat /\ c.body_remaining \in Nat
      /\ c.left <= c.body_remaining /\ c.at + c.left = Len(stream) + 1
  BY DEF LastBody, Counting, Remains, Reading
<1>5. n <= c.left
  BY <1>2, <1>3, <1>4
<1>6. m = n
  <2> DEFINE S == {c.body_remaining, Len(buf)}
  <2>1. S \in SUBSET Nat /\ S # {}
    BY <1>2, <1>4
  <2>2. Min(S) \in S /\ \A z \in S : Min(S) <= z
    BY <2>1, MinIsLeast
  <2> QED BY <1>2, <1>4, <1>5, <2>2
<1>7. SubSeq(buf, 1, n) = buf
  BY <1>2
<1>8. s.h1 = y /\ s.consumed = n
  BY <1>2, <1>6, <1>7, Zenon DEF LengthBody
<1>9. y = [x EXCEPT !.body_remaining = b]
  OBVIOUS
<1> HIDE DEF n, x, k, m, b, y, s
<1>10. Shaped(x)
  BY <1>1 DEF Fed
<1>11. /\ Shaped(y) /\ y.at = x.at /\ y.left = x.left /\ y.body_remaining = b
       /\ y.paused = x.paused /\ y.failed = x.failed /\ y.headers_done = x.headers_done
       /\ y.message_done = x.message_done /\ y.method_not_allowed = x.method_not_allowed
       /\ y.te_chunked = x.te_chunked
       /\ y.unsupported_te = x.unsupported_te /\ y.body_too_big = x.body_too_big
       /\ y.parse_error = x.parse_error /\ y.header_too_big = x.header_too_big
  BY <1>9, <1>10 DEF Shaped
<1>12. (Refused(x) <=> Refused(y)) /\ (Counting(x) <=> Counting(y))
  <2>1. Refused(x) <=> Refused(y)
    BY <1>11 DEF Refused
  <2>2. y.at = x.at /\ y.left = x.left /\ y.te_chunked = x.te_chunked
    BY <1>11
  <2>3. Counting(x) <=> Counting(y)
    BY <2>2 DEF Counting
  <2> QED BY <2>1, <2>3
<1>13. y.paused => y.message_done
  BY <1>1, <1>11, Zenon DEF Fed
<1>14. CASE Refused(x)
  BY <1>8, <1>11, <1>12, <1>13, <1>14 DEF Fed, n, s
<1>15. CASE ~Refused(x)
  <2>1. /\ ~x.failed /\ Within(x) /\ k \in 0 .. n /\ x.at = c.at + k
        /\ ~x.paused => k = n
    BY <1>1, <1>15 DEF Fed
  <2>2. (LastBody(x) /\ x.body_remaining = c.body_remaining) \/ x.at = Len(stream) + 1
    BY <1>1, <1>15 DEF ReadsLast
  <2>3. k = n
    <3>1. CASE LastBody(x)
      BY <2>1, <3>1 DEF LastBody
    <3>2. CASE x.at = Len(stream) + 1
      BY <1>2, <1>4, <1>5, <2>1, <3>2
    <3> QED BY <2>2, <3>1, <3>2
  <2>4. LastBody(x) /\ x.body_remaining = c.body_remaining => Remains(y)
    <3> SUFFICES ASSUME LastBody(x), x.body_remaining = c.body_remaining PROVE Remains(y)
      OBVIOUS
    <3>1. x.left \in Nat /\ x.at + x.left = Len(stream) + 1
      BY DEF LastBody, Counting, Remains
    <3>2. b \in Nat /\ x.left <= b
      <4>1. x.at = c.at + n /\ b = c.body_remaining - n
        BY <2>1, <2>3 DEF b
      <4>2. x.left = c.left - n
        <5> DEFINE a == c.at
                   l == c.left
                   d == x.left
                   L == Len(stream) + 1
        <5>1. a + l = L /\ (a + n) + d = L
          BY <1>4, <3>1, <4>1, Zenon
        <5>2. a \in Nat /\ l \in Nat /\ d \in Nat /\ L \in Nat /\ n \in Nat
          BY <1>2, <1>4, <3>1
        <5> HIDE DEF a, l, d, L
        <5>3. d = l - n
          BY <5>1, <5>2
        <5> QED BY <5>3 DEF d, l
      <4>3. c.left \in Nat /\ c.body_remaining \in Nat /\ n \in Nat /\ n <= c.left
            /\ c.left <= c.body_remaining
        BY <1>2, <1>4, <1>5, Zenon
      <4> QED BY <4>1, <4>2, <4>3
    <3> QED BY <1>11, <3>1, <3>2 DEF Remains
  <2>5. x.at = Len(stream) + 1 /\ Counting(x) => ~Remains(x)
    <3> SUFFICES ASSUME x.at = Len(stream) + 1, Counting(x), Remains(x) PROVE FALSE
      OBVIOUS
    <3>1. x.left \in Nat \ {0} /\ x.at + x.left = Len(stream) + 1
      BY DEF Counting, Remains
    <3> QED BY <1>2, <3>1
  <2>6. Within(y)
    <3>1. CASE x.paused
      BY <1>11, <1>13, <3>1 DEF Within
    <3>2. CASE ~x.paused
      <4>1. Counting(x) => x.message_done \/ Remains(y) \/ ~x.headers_done
        BY <2>1, <2>2, <2>4, <2>5, <3>2 DEF Within, Counting
      <4> QED BY <1>11, <1>12, <2>1, <3>2, <4>1, Zenon DEF Within
    <3> QED BY <3>1, <3>2
  <2>7. Fed(c, n, n, y)
    BY <1>2, <1>11, <1>13, <2>1, <2>3, <2>6 DEF Fed
  <2> QED BY <1>8, <2>7 DEF n, s
<1> QED BY <1>14, <1>15

\* Both stages together feed a buffer to the parser once.
LEMMA Parses ==
  ASSUME StreamOK, NEW c, Reading(c), NEW buf, Buffer(buf, c.at), buf # <<>>
  PROVE  LET p == Parse(c, buf)
         IN  Fed(c, Len(buf), p.consumed, p.h1)
<1> DEFINE n == Len(buf)
           x == HttpPipelineFeed(c, buf)
           k == Used(x, buf)
           p == Parse(c, buf)
           s1 == HeaderStage(c, buf)
           rest == SubSeq(buf, s1.consumed + 1, Len(buf))
           s2 == BodyStage(s1.h1, rest)
<1>1. Fed(c, n, k, x)
  BY Feeds
<1>2. n \in Nat /\ buf \in Seq(1 .. Len(stream))
  BY DEF Buffer
<1>3. p.h1 = s2.h1 /\ p.consumed = s1.consumed + s2.consumed
  BY Zenon DEF Parse
<1>4. SUFFICES \E z, i : Fed(c, n, i, z) /\ p.h1 = z /\ (Refused(z) \/ p.consumed = i)
  <2> HIDE DEF n, p
  <2> QED BY <1>4 DEF Fed, n, p
<1>5. ~Terminal(c) /\ ~c.message_done /\ ~c.paused
  BY DEF Reading, Refused, Terminal
<1>6. k = IF x.paused THEN x.at - buf[1] ELSE n
  BY DEF Used
<1>7. Refused(x) \/ k \in 0 .. n
  BY <1>1 DEF Fed
<1>8. CASE c.headers_done
  <2>1. s1.h1 = c /\ s1.consumed = 0
    BY <1>8 DEF HeaderStage
  <2>2. rest = buf
    BY <1>2, <2>1
  <2>3. s2 = IF c.te_chunked THEN ChunkedBody(c, buf) ELSE LengthBody(c, buf)
    BY <1>5, <1>8, <2>1, <2>2, Zenon DEF BodyStage
  <2>4. CASE c.te_chunked
    <3>1. s2.h1 = x /\ s2.consumed = k
      BY <2>3, <2>4 DEF ChunkedBody
    <3> HIDE DEF p, s1, s2, x, k
    <3>2. Refused(x) \/ p.consumed = k
      BY <1>2, <1>3, <1>7, <2>1, <3>1
    <3> QED BY <1>1, <1>3, <3>1, <3>2
  <2>5. CASE ~c.te_chunked
    <3>1. LastBody(c)
      BY <1>5, <1>8, <2>5 DEF Reading, Within, LastBody
    <3>2. Fed(c, n, s2.consumed, s2.h1)
      BY <2>3, <2>5, <3>1, LengthParses
    <3> HIDE DEF p, s1, s2
    <3>3. Refused(s2.h1) \/ p.consumed = s2.consumed
      BY <1>2, <1>3, <2>1, <3>2, SMTT(30) DEF Fed
    <3> QED BY <1>3, <3>2, <3>3
  <2> QED BY <2>4, <2>5
<1>9. CASE ~c.headers_done
  <2>1. s1.h1 = x /\ s1.consumed = k
    BY <1>5, <1>9 DEF HeaderStage
  <2>2. x.message_done \/ rest = <<>>
    <3>1. CASE x.paused
      BY <1>1, <3>1 DEF Fed
    <3>2. CASE ~x.paused
      <4>1. s1.consumed = n
        BY <1>6, <2>1, <3>2
      <4> HIDE DEF s1
      <4> QED BY <1>2, <4>1
    <3> QED BY <3>1, <3>2
  <2> HIDE DEF rest, x, k, s1
  <2>3. s2.h1 = x /\ s2.consumed = 0
    BY <2>1, <2>2 DEF BodyStage
  <2> HIDE DEF p, s2
  <2>4. Refused(x) \/ p.consumed = k
    BY <1>2, <1>3, <1>7, <2>1, <2>3
  <2> QED BY <1>1, <1>3, <2>3, <2>4
<1> QED BY <1>8, <1>9

-----------------------------------------------------------------------------
(* The connection *)

\* The n places from a on, and those of the pieces that were received and not
\* parsed.
Places(a, n) == [i \in 1 .. n |-> a + i - 1]
Waiting == Places(h1.at, received + 1 - h1.at)

\* The parser of an open connection stands where the bytes it has not parsed
\* begin: in the stash while a response is sent, and at the next byte to receive
\* when there is none.
FramingInv ==
  /\ StreamOK /\ received \in Nat /\ received <= Len(stream)
  /\ Shaped(h1) /\ resp = Status(h1)
  /\ Refused(h1) \/ (h1.at \in Nat /\ h1.at # 0 /\ ~h1.failed /\ Within(h1))
  /\ open /\ Status(h1) \in {"none", "200"} => stash = Waiting /\ h1.at <= received + 1
  /\ open /\ Status(h1) = "none" => h1.at = received + 1

\* What the status says of the parser.
LEMMA StatusIs ==
  ASSUME NEW c
  PROVE  /\ Status(c) = "none" <=> ~Refused(c) /\ ~c.message_done
         /\ Status(c) = "200" => ~Refused(c)
BY DEF Status, Refused

LEMMA FreshReads ==
  ASSUME NEW a \in Nat
  PROVE  Reading(H1Init(a)) /\ H1Init(a).at = a /\ Status(H1Init(a)) = "none"
<1> DEFINE c == H1Init(a)
<1>1. /\ Shaped(c) /\ c.at = a /\ c.paused = FALSE /\ c.failed = FALSE
      /\ c.message_done = FALSE /\ c.headers_done = FALSE /\ c.unsupported_te = FALSE
      /\ c.body_too_big = FALSE /\ c.parse_error = FALSE /\ c.header_too_big = FALSE
  BY DEF H1Init, Shaped
<1> HIDE DEF c
<1>2. ~Refused(c)
  BY <1>1 DEF Refused
<1>3. Status(c) = "none"
  BY <1>1, <1>2, StatusIs
<1> QED BY <1>1, <1>2, <1>3, Zenon DEF Reading, Within, c

LEMMA PlacesAre ==
  ASSUME NEW a \in Nat, NEW n \in Nat
  PROVE  /\ Places(a, n) \in Seq(Int) /\ Len(Places(a, n)) = n
         /\ \A i \in 1 .. n : Places(a, n)[i] = a + i - 1
         /\ n = 0 <=> Places(a, n) = <<>>
BY DEF Places

\* The last n - k places of n places from a on.
LEMMA RestOf ==
  ASSUME NEW a \in Nat, NEW n \in Nat, NEW k \in 0 .. n
  PROVE  SubSeq(Places(a, n), k + 1, n) = Places(a + k, n - k)
<1> DEFINE s == Places(a, n)
           u == SubSeq(s, k + 1, n)
<1>1. s \in Seq(Int) /\ Len(s) = n
  BY PlacesAre
<1>2. u = [i \in 1 .. n - k |-> s[i + k]]
  BY <1>1
<1>3. \A i \in 1 .. n - k : s[i + k] = (a + k) + i - 1
  <2>1. \A i \in 1 .. n - k : i + k \in 1 .. n /\ a + (i + k) - 1 = (a + k) + i - 1
    OBVIOUS
  <2> QED BY <2>1, PlacesAre
<1> HIDE DEF s
<1> QED BY <1>2, <1>3 DEF Places, s

\* What a buffer that ends at place end leaves of the connection: rest waits.
After(y, end, rest) ==
  /\ Shaped(y) /\ (Refused(y) \/ (y.at \in Nat /\ y.at # 0 /\ ~y.failed /\ Within(y)))
  /\ ~Refused(y) => rest = Places(y.at, end + 1 - y.at) /\ y.at <= end + 1
  /\ Status(y) = "none" => y.at = end + 1

LEMMA AfterParse ==
  ASSUME StreamOK, NEW c, Reading(c), c.at # 0, NEW n \in Nat \ {0}, NEW end \in Nat,
         c.at + n = end + 1, end <= Len(stream), NEW buf, buf = Places(c.at, n)
  PROVE  LET p == Parse(c, buf)
         IN  After(p.h1, end, SubSeq(buf, p.consumed + 1, n))
<1> DEFINE p == Parse(c, buf)
           y == p.h1
           k == p.consumed
           rest == SubSeq(buf, k + 1, n)
<1>1. c.at \in Nat /\ Len(stream) \in Nat
  BY DEF Reading, StreamOK, Whole
<1>2. \A i \in 1 .. n : c.at + i - 1 \in 1 .. Len(stream)
  BY <1>1
<1>3. /\ buf \in Seq(Int) /\ Len(buf) = n /\ buf # <<>>
      /\ \A i \in 1 .. n : buf[i] = c.at + i - 1
  BY <1>1, PlacesAre, Zenon
<1>4. buf \in Seq(1 .. Len(stream))
  BY <1>2, <1>3
<1>5. Buffer(buf, c.at)
  BY <1>1, <1>3, <1>4 DEF Buffer
<1>6. Fed(c, n, k, y)
  BY <1>3, <1>5, Parses
<1>7. SUFFICES After(y, end, rest)
  OBVIOUS
<1> HIDE DEF p, y, k
<1>8. CASE Refused(y)
  BY <1>6, <1>8, StatusIs DEF Fed, After
<1>9. CASE ~Refused(y)
  <2>1. /\ Shaped(y) /\ ~y.failed /\ Within(y) /\ k \in 0 .. n /\ y.at = c.at + k
        /\ ~y.paused => k = n
    BY <1>6, <1>9 DEF Fed
  <2>2. c.at \in Nat \ {0} /\ k \in Nat /\ k <= n
    BY <1>1, <2>1
  <2>3. c.at + k \in Nat /\ c.at + k # 0 /\ c.at + k <= end + 1 /\ n - k = end + 1 - (c.at + k)
    <3> DEFINE a == c.at
    <3>1. a \in Nat /\ a # 0 /\ a + n = end + 1
      BY <2>2
    <3> HIDE DEF a
    <3>2. a + k \in Nat /\ a + k # 0 /\ a + k <= end + 1 /\ n - k = end + 1 - (a + k)
      BY <2>2, <3>1
    <3> QED BY <3>2, Zenon DEF a
  <2>4. Status(y) = "none" => y.at = end + 1
    <3>1. Status(y) = "none" => ~y.paused
      BY <2>1, <1>9, StatusIs DEF Within
    <3> QED BY <2>1, <3>1
  <2>5. rest = Places(c.at + k, n - k)
    BY <1>1, <2>1, RestOf, Zenon
  <2> HIDE DEF rest
  <2> QED BY <1>9, <2>1, <2>3, <2>4, <2>5 DEF After
<1> QED BY <1>8, <1>9

LEMMA FramingInit ==
  ASSUME Init, \A rs \in Streams : LengthLast(rs)
  PROVE  FramingInv
<1>1. StreamOK
  <2>1. reqs \in Seq(RequestRec) /\ LengthLast(reqs)
    BY StreamsAssumption DEF Init
  <2> QED BY <2>1, StreamWhole DEF StreamOK, Init
<1>2. Len(stream) \in Nat
  BY <1>1 DEF StreamOK, Whole
<1>3. received = 0 /\ stash = <<>> /\ h1 = H1Init(1) /\ resp = "none"
  BY DEF Init
<1>4. Reading(h1) /\ h1.at = 1 /\ Status(h1) = "none"
  BY <1>3, FreshReads
<1>5. Waiting = <<>>
  <2>1. received + 1 - h1.at = 0
    BY <1>3, <1>4
  <2> QED BY <1>4, <2>1, PlacesAre DEF Waiting
<1> QED BY <1>1, <1>2, <1>3, <1>4, <1>5 DEF FramingInv, Reading

\* A step that leaves a parser, a stash and a status as After says.
LEMMA FramingKept ==
  ASSUME FramingInv, NEW y, NEW end \in Nat, NEW rest, After(y, end, rest),
         h1' = y, resp' = Status(y), received' = end, end <= Len(stream),
         UNCHANGED <<reqs, stream>>, open' /\ ~Refused(y) => stash' = rest
  PROVE  FramingInv'
<1>1. StreamOK'
  BY Zenon DEF FramingInv, StreamOK, Whole, Lengths, PieceOf, LengthLast
<1>2. (Within(h1))' <=> Within(y)
  BY DEF Within, Counting, Remains, InBody
<1>3. (Refused(h1))' <=> Refused(y)
  BY DEF Refused
<1>4. (Status(h1))' = Status(y)
  BY DEF Status
<1>5. Waiting' = Places(y.at, end + 1 - y.at)
  BY DEF Waiting, Places
<1>6. (Shaped(h1))' <=> Shaped(y)
  BY DEF Shaped
<1>7. Status(y) \in {"none", "200"} => ~Refused(y)
  BY StatusIs
<1>8. Shaped(y) /\ (Refused(y) \/ (y.at \in Nat /\ y.at # 0 /\ ~y.failed /\ Within(y)))
  BY DEF After
<1>9. open' /\ Status(y) \in {"none", "200"} =>
        stash' = Places(y.at, end + 1 - y.at) /\ y.at <= end + 1
  BY <1>7 DEF After
<1>10. Status(y) = "none" => y.at = end + 1
  BY DEF After
<1> QED BY <1>1, <1>2, <1>3, <1>4, <1>5, <1>6, <1>8, <1>9, <1>10 DEF FramingInv

LEMMA FramingRead ==
  ASSUME FramingInv, NEW n \in 1 .. BufCap, Read(n)
  PROVE  FramingInv'
<1> DEFINE buf == [i \in 1 .. n |-> received + i]
           m == received + n
           p == Parse(h1, buf)
           y == p.h1
           rest == SubSeq(buf, p.consumed + 1, n)
<1>1. /\ open /\ resp = "none" /\ m <= Len(stream) /\ received' = m
      /\ h1' = y /\ resp' = Status(y) /\ UNCHANGED <<reqs, stream>>
      /\ IF Len(stash) + Len(rest) <= BufCap
         THEN stash' = stash \o rest /\ open' = open
         ELSE stash' = stash /\ open' = FALSE
  BY Zenon DEF Read, Apply
<1>2. /\ StreamOK /\ received \in Nat /\ n \in Nat \ {0} /\ m \in Nat
      /\ Status(h1) = "none" /\ Shaped(h1)
  BY <1>1, LimitAssumption DEF FramingInv
<1>3. /\ ~Refused(h1) /\ ~h1.message_done /\ h1.at \in Nat /\ h1.at # 0 /\ ~h1.failed /\ Within(h1)
      /\ stash = Waiting /\ h1.at = received + 1
  BY <1>1, <1>2, StatusIs DEF FramingInv
<1>4. Reading(h1)
  BY <1>2, <1>3 DEF Reading, Within
<1>5. stash = <<>>
  <2>1. received + 1 - h1.at = 0
    BY <1>2, <1>3
  <2> QED BY <1>3, <2>1, PlacesAre DEF Waiting
<1>6. buf = Places(h1.at, n)
  <2>1. \A i \in 1 .. n : received + i = h1.at + i - 1
    BY <1>2, <1>3
  <2> QED BY <2>1 DEF Places
<1>7. h1.at + n = m + 1
  BY <1>2, <1>3
<1> HIDE DEF m, buf
<1>8. After(y, m, rest)
  BY <1>1, <1>2, <1>3, <1>4, <1>6, <1>7, AfterParse, Zenon
<1> HIDE DEF p, y, rest
<1>9. ASSUME open', ~Refused(y) PROVE stash' = rest
  <2>1. rest = Places(y.at, m + 1 - y.at) /\ y.at \in Nat /\ y.at <= m + 1
    BY <1>8, <1>9 DEF After
  <2>2. rest \in Seq(Int)
    <3>1. m + 1 - y.at \in Nat
      BY <1>2, <2>1
    <3> QED BY <2>1, <3>1, PlacesAre, Zenon
  <2>3. stash' = <<>> \o rest
    BY <1>1, <1>5, <1>9
  <2> QED BY <2>2, <2>3
<1> QED BY <1>1, <1>2, <1>8, <1>9, FramingKept

LEMMA FramingNextRequest ==
  ASSUME FramingInv, NextRequest
  PROVE  FramingInv'
<1> DEFINE c == H1Init(h1.at)
           p == Parse(c, stash)
           y == p.h1
           n == Len(stash)
           rest == SubSeq(stash, p.consumed + 1, n)
<1>1. /\ open /\ resp = "200" /\ UNCHANGED <<reqs, stream, received, open>>
      /\ \/ /\ stash # <<>> /\ h1' = y /\ stash' = rest /\ resp' = Status(y)
         \/ /\ stash = <<>> /\ h1' = c /\ resp' = "none" /\ stash' = stash
  BY DEF NextRequest, KeepsAlive, Apply, StashReady
<1>2. StreamOK /\ received \in Nat /\ received <= Len(stream) /\ Status(h1) = "200"
  BY <1>1 DEF FramingInv
<1>3. ~Refused(h1)
  BY <1>2, StatusIs
<1>4. h1.at \in Nat /\ h1.at # 0 /\ stash = Waiting /\ h1.at <= received + 1
  BY <1>1, <1>2, <1>3 DEF FramingInv
<1>5. Reading(c) /\ c.at = h1.at /\ Status(c) = "none"
  BY <1>4, FreshReads
<1>6. received + 1 - h1.at \in Nat
  BY <1>2, <1>4
<1>7. /\ stash = Places(c.at, n) /\ n = received + 1 - h1.at /\ n \in Nat
      /\ n = 0 <=> stash = <<>>
  BY <1>4, <1>5, <1>6, PlacesAre DEF Waiting
<1>8. c.at + n = received + 1
  BY <1>2, <1>4, <1>5, <1>7
<1> HIDE DEF c, n
<1>9. CASE stash # <<>> /\ h1' = y /\ stash' = rest /\ resp' = Status(y)
  <2>1. n \in Nat \ {0}
    BY <1>7, <1>9
  <2>2. After(y, received, rest)
    BY <1>2, <1>4, <1>5, <1>7, <1>8, <2>1, AfterParse
  <2> HIDE DEF p, y, rest
  <2> QED BY <1>1, <1>2, <1>9, <2>2, FramingKept
<1>10. CASE stash = <<>> /\ h1' = c /\ resp' = "none" /\ stash' = stash
  <2>1. c.at = received + 1 /\ received + 1 - c.at = 0
    <3>1. n = 0 /\ c.at \in Nat
      BY <1>4, <1>5, <1>7, <1>10
    <3> QED BY <1>2, <1>8, <3>1
  <2>2. stash = Places(c.at, received + 1 - c.at)
    BY <1>7, <1>10, <2>1
  <2>3. After(c, received, stash)
    BY <1>2, <1>4, <1>5, <2>1, <2>2 DEF After, Reading
  <2> QED BY <1>1, <1>2, <1>5, <1>10, <2>3, FramingKept
<1> QED BY <1>1, <1>9, <1>10

LEMMA FramingClose ==
  ASSUME FramingInv, UNCHANGED <<reqs, stream, received, stash, h1, resp>>, open' => open
  PROVE  FramingInv'
<1>1. StreamOK'
  BY DEF FramingInv, StreamOK, Whole, Lengths, PieceOf, LengthLast
<1>2. (Within(h1))' <=> Within(h1)
  BY DEF Within, Counting, Remains, InBody
<1>3. (Refused(h1))' <=> Refused(h1)
  BY DEF Refused
<1>4. (Status(h1))' = Status(h1)
  BY DEF Status
<1>5. Waiting' = Waiting
  BY DEF Waiting, Places
<1>6. (Shaped(h1))' <=> Shaped(h1)
  BY DEF Shaped
<1> QED BY <1>1, <1>2, <1>3, <1>4, <1>5, <1>6, Zenon DEF FramingInv

LEMMA FramingAlways ==
  ASSUME \A rs \in Streams : LengthLast(rs)
  PROVE  Spec => []FramingInv
<1>1. Init => FramingInv
  BY FramingInit
<1>2. FramingInv /\ [Next]_vars => FramingInv'
  <2> SUFFICES ASSUME FramingInv, [Next]_vars PROVE FramingInv'
    OBVIOUS
  <2>1. ASSUME NEW n \in 1 .. BufCap, Read(n) PROVE FramingInv'
    BY <2>1, FramingRead
  <2>2. CASE CloseAfterResponse
    BY <2>2, FramingClose DEF CloseAfterResponse
  <2>3. CASE NextRequest
    BY <2>3, FramingNextRequest
  <2>4. CASE UNCHANGED vars
    BY <2>4, FramingClose DEF vars
  <2> QED BY <2>1, <2>2, <2>3, <2>4 DEF Next
<1> QED BY <1>1, <1>2, PTL DEF Spec

\* Every byte that a connection receives is parsed, or waits in the stash exactly
\* where the parser stopped, wherever the receive buffers were cut, for every
\* stream of pipelined requests in which a body with a Content-Length that the
\* server reads is the last thing the peer sends (worker_loop_read_handle_cqe,
\* conn_try_process_stash).
THEOREM BytesKept ==
  ASSUME \A rs \in Streams : LengthLast(rs)
  PROVE  Spec => []NoByteLost
<1>1. FramingInv => NoByteLost
  BY DEF FramingInv, NoByteLost, Waiting, Places
<1> QED BY <1>1, FramingAlways, PTL

\* The worker receives only when the stash is empty, so the bytes it parses from
\* a receive buffer are the oldest that it has not parsed.
THEOREM ReceivesInOrder ==
  ASSUME \A rs \in Streams : LengthLast(rs)
  PROVE  Spec => []ReadsInOrder
<1>1. FramingInv => ReadsInOrder
  <2> SUFFICES ASSUME FramingInv, open, resp = "none" PROVE stash = <<>>
    BY DEF ReadsInOrder
  <2>1. stash = Waiting /\ h1.at = received + 1 /\ received \in Nat
    BY DEF FramingInv
  <2>2. received + 1 - h1.at = 0 /\ h1.at \in Nat
    BY <2>1
  <2> QED BY <2>1, <2>2, PlacesAre DEF Waiting
<1> QED BY <1>1, FramingAlways, PTL
=============================================================================
