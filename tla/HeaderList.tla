----------------------------- MODULE HeaderList -----------------------------
(***************************************************************************)
(* What the callbacks of http_parser.c keep of a request: its target and   *)
(* the headers that the server looks at.                                   *)
(*                                                                         *)
(* llhttp hands over a target, a header name or a header value in pieces   *)
(* cut wherever a receive buffer ended; the callbacks put them together in *)
(* buffers of a fixed size and finish a header when the next one begins.   *)
(* A name or a value is a sequence of characters.                          *)
(***************************************************************************)
EXTENDS Integers, SequencesExt

CONSTANTS
  Requests,      \* requests a peer may send: a target and a sequence of headers
  Stored,        \* names in req_hdr_store_mask, in lower case
  NameCap,       \* characters of hdr_name: sizeof less its terminator
  LowCap,        \* characters of hdr_val
  RawCap,        \* characters of hdr_val_raw (REQ_HDR_VALUE_MAX - 1)
  TargetMax,     \* REQ_TARGET_MAX
  TargetFirst,   \* the first capacity of a target, 64
  HdrsMax,       \* REQ_HDRS_MAX
  HdrsFirst,     \* the first capacity of req_hdrs, 8
  FieldsMax,     \* hdr_fields_max, 0 for no limit
  MaxNumber,     \* UINT64_MAX
  AllocOutcomes  \* what req_arena_alloc may say: {TRUE} or BOOLEAN

\* A name that was cut to NameCap characters is not taken for one that is stored.
ConstantsOK ==
  /\ \A n \in Stored : Len(n) < NameCap
  /\ AllocOutcomes \subseteq BOOLEAN /\ TRUE \in AllocOutcomes
  /\ TargetFirst > 0 /\ HdrsFirst > 0 /\ HdrsMax >= Cardinality(Stored)

VARIABLES
  request,   \* what the peer sends
  at,        \* the span that comes next and how much of it has come
  h1,        \* the request members of struct http1_state
  complete   \* on_headers_complete has run

vars == <<request, at, h1, complete>>

-----------------------------------------------------------------------------
\* Characters and the texts the callbacks know, with letters for words.

Lower(s) == [i \in DOMAIN s |-> IF s[i] = "H" THEN "h" ELSE s[i]]
ContentLength == <<"c", "l">>
TransferEncoding == <<"t", "e">>
Expect == <<"e", "x">>
Chunked == <<"c", "h">>
Continue == <<"1", "0">>
Digits == <<"0", "1", "2", "3", "4", "5", "6", "7", "8", "9">>
Separators == {" ", ","}

\* The tokens of a list: what stands between separators.
IsToken(v, i, j) ==
  /\ i <= j /\ \A k \in i .. j : v[k] \notin Separators
  /\ i > 1 => v[i - 1] \in Separators
  /\ j < Len(v) => v[j + 1] \in Separators
Tokens(v) ==
  {SubSeq(v, p[1], p[2]) : p \in {q \in (DOMAIN v) \X (DOMAIN v) : IsToken(v, q[1], q[2])}}

\* h1_parse_u64_ows_decimal: the number between the blanks, -1 when there is none
\* or it does not fit.
Blank(v, k) == v[k] = " "
Trimmed(v) ==
  LET ink == {k \in DOMAIN v : ~Blank(v, k)}
  IN  IF ink = {} THEN <<>> ELSE SubSeq(v, Min(ink), Max(ink))
ParseDecimal(v) ==
  LET t == Trimmed(v)
      n == FoldLeft(LAMBDA a, d : 10 * a + SelectInSeq(Digits, LAMBDA e : e = d) - 1, 0, t)
  IN  IF t = <<>> \/ ~ToSet(t) \subseteq ToSet(Digits) THEN -1
      ELSE IF n > MaxNumber THEN -1 ELSE n

-----------------------------------------------------------------------------
\* The buffers.

\* conn_reset_request, and the state after conn_init.
Fresh ==
  [target |-> <<>>, target_cap |-> 0, target_too_long |-> FALSE, internal_error |-> FALSE,
   header_too_big |-> FALSE, hdr_fields_count |-> 0,
   hdr_state |-> 0, hdr_interest |-> 0, hdr_name |-> <<>>, hdr_val |-> <<>>,
   hdr_val_raw |-> <<>>, hdr_val_raw_truncated |-> FALSE,
   req_hdrs |-> <<>>, req_hdr_cap |-> 0, req_hdr_seen_mask |-> {},
   cl_count |-> 0, cl_invalid |-> FALSE, cl_value |-> 0,
   te_chunked |-> FALSE, te_other |-> FALSE,
   expect_100_continue |-> FALSE, expect_unsupported |-> FALSE]

\* http_parser_reset_header_state
ResetHeader(c) ==
  [c EXCEPT !.hdr_state = 0, !.hdr_interest = 0, !.hdr_name = <<>>, !.hdr_val = <<>>,
            !.hdr_val_raw = <<>>, !.hdr_val_raw_truncated = FALSE]

\* h1_hdr_append_raw and h1_hdr_append_lower: what fits is kept.
Cut(s, cap) == SubSeq(s, 1, Min({Len(s), cap}))
AppendRaw(dst, s, cap) == Cut(dst \o s, cap)
AppendLower(dst, s, cap) == Cut(dst \o Lower(s), cap)

\* The capacity that on_url and h1_hdrs_ensure_cap grow a buffer to.
Doubled(from, need) == from * 2^Min({k \in 0 .. need : from * 2^k >= need})
TargetCap(c, need) ==
  Max({need, Min({Doubled(IF c.target_cap = 0 THEN TargetFirst ELSE c.target_cap, need), TargetMax})})
HdrsCap(c, need) ==
  Min({Max({need, IF c.req_hdr_cap = 0 THEN HdrsFirst ELSE 2 * c.req_hdr_cap}), HdrsMax})

\* on_url; ok is the answer of req_arena_alloc when the buffer must grow.
OnUrl(c, s, ok) ==
  LET need == Len(c.target) + Len(s)
      grow == need > c.target_cap
  IN  IF c.target_too_long \/ c.internal_error THEN c
      ELSE IF need > TargetMax THEN [c EXCEPT !.target_too_long = TRUE]
      ELSE IF grow /\ ~ok THEN [c EXCEPT !.internal_error = TRUE]
      ELSE [c EXCEPT !.target = @ \o s,
                     !.target_cap = IF grow THEN TargetCap(c, need) ELSE @]

-----------------------------------------------------------------------------
\* A header that is finished.

\* http1_header_field_seen
HeaderFieldSeen(c) ==
  IF c.header_too_big \/ c.hdr_name = <<>> THEN c
  ELSE LET n == c.hdr_fields_count + 1
       IN  [c EXCEPT !.hdr_fields_count = n,
                     !.header_too_big = FieldsMax # 0 /\ n > FieldsMax]

\* The part of h1_finalize_interested_header that keeps a header: the first of
\* its name.  The list is grown, then the name and the value are copied.
Capture(c, grown, copied) ==
  LET need == Len(c.req_hdrs) + 1
      grow == need > c.req_hdr_cap
      s == [c EXCEPT !.req_hdr_seen_mask = @ \union {c.hdr_name}]
      g == [s EXCEPT !.req_hdr_cap = IF grow THEN HdrsCap(c, need) ELSE @]
  IN  IF c.hdr_name \notin Stored \/ c.hdr_name \in c.req_hdr_seen_mask THEN c
      ELSE IF need > HdrsMax THEN s
      ELSE IF grow /\ ~grown THEN [s EXCEPT !.internal_error = TRUE]
      ELSE IF ~copied THEN [g EXCEPT !.internal_error = TRUE]
      ELSE [g EXCEPT !.req_hdrs = Append(@, [name |-> c.hdr_name, value |-> c.hdr_val_raw,
                                             truncated |-> c.hdr_val_raw_truncated])]

\* The rest of h1_finalize_interested_header, by hdr_interest.
OnContentLength(c) ==
  LET v == ParseDecimal(c.hdr_val)
      n == c.cl_count + 1
  IN  [c EXCEPT !.cl_count = n,
                !.cl_invalid = @ \/ n > 1 \/ v = -1 \/ (n > 1 /\ v # c.cl_value),
                !.cl_value = IF v # -1 /\ n = 1 THEN v ELSE @]
OnTransferEncoding(c) ==
  [c EXCEPT !.te_chunked = @ \/ Chunked \in Tokens(c.hdr_val),
            !.te_other = @ \/ Tokens(c.hdr_val) \ {Chunked} # {}]
ExpectSupported(v) == Tokens(v) = {Continue}
OnExpect(c) ==
  IF ExpectSupported(c.hdr_val) THEN [c EXCEPT !.expect_100_continue = TRUE]
  ELSE [c EXCEPT !.expect_unsupported = TRUE]

Interested(c) ==
  CASE c.hdr_interest = 1 -> OnContentLength(c)
    [] c.hdr_interest = 2 -> OnTransferEncoding(c)
    [] c.hdr_interest = 3 -> OnExpect(c)
    [] OTHER -> c

\* h1_finalize_interested_header
Finalize(c, grown, copied) ==
  LET s == HeaderFieldSeen(c)
      k == Capture(s, grown, copied)
  IN  IF c.internal_error THEN c
      ELSE IF s.header_too_big THEN s
      ELSE IF k.internal_error THEN k
      ELSE Interested(k)

\* on_header_field
OnHeaderField(c, s, grown, copied) ==
  LET d == IF c.hdr_state = 2 THEN ResetHeader(Finalize(c, grown, copied)) ELSE c
  IN  IF c.header_too_big THEN c
      ELSE [d EXCEPT !.hdr_state = 1, !.hdr_name = AppendLower(@, s, NameCap)]

\* on_header_value; a piece of length 0 leaves everything as it is.
Interest(name) ==
  CASE name = ContentLength -> 1 [] name = TransferEncoding -> 2 [] name = Expect -> 3
    [] OTHER -> 0
BeginValueAgain(c) ==
  [c EXCEPT !.hdr_state = 2, !.hdr_interest = Interest(c.hdr_name), !.hdr_val = <<>>,
            !.hdr_val_raw = <<>>, !.hdr_val_raw_truncated = FALSE]
BeginValue(c) ==
  IF c.hdr_state = 2 THEN c
  ELSE [c EXCEPT !.hdr_state = 2, !.hdr_interest = Interest(c.hdr_name), !.hdr_val = <<>>,
                 !.hdr_val_raw = <<>>, !.hdr_val_raw_truncated = FALSE]
OnHeaderValue(c, s) ==
  LET d == BeginValue(c)
  IN  IF c.header_too_big \/ s = <<>> THEN c
      ELSE [d EXCEPT !.hdr_val_raw = AppendRaw(@, s, RawCap),
                     !.hdr_val_raw_truncated = @ \/ Len(d.hdr_val_raw) + Len(s) > RawCap,
                     !.hdr_val = IF d.hdr_interest = 0 THEN @ ELSE AppendLower(@, s, LowCap)]

-----------------------------------------------------------------------------
\* The spans of a request in the order llhttp meets them: the target, then a
\* name and a value for each header.
Spans(r) ==
  <<r.target>> \o FlattenSeq([i \in DOMAIN r.headers |-> <<r.headers[i].name, r.headers[i].value>>])
Kind(k) == IF k = 1 THEN "url" ELSE IF k % 2 = 0 THEN "name" ELSE "value"

Begin == at = [span |-> 1, done |-> 0]

Init == request \in Requests /\ Begin /\ h1 = Fresh /\ complete = FALSE

\* A piece of the span at hand, and where that leaves the parser.
Span == Spans(request)[at.span]
More == at.span <= Len(Spans(request))
Pieces == IF Span = <<>> THEN {0} ELSE 1 .. Len(Span) - at.done
Piece(n) == SubSeq(Span, at.done + 1, at.done + n)
Move(n) ==
  at' = IF at.done + n = Len(Span) THEN [span |-> at.span + 1, done |-> 0]
        ELSE [at EXCEPT !.done = @ + n]

Url ==
  /\ More /\ Kind(at.span) = "url"
  /\ \E n \in Pieces, ok \in AllocOutcomes : h1' = OnUrl(h1, Piece(n), ok) /\ Move(n)
  /\ UNCHANGED <<request, complete>>

HeaderName ==
  /\ More /\ Kind(at.span) = "name"
  /\ \E n \in Pieces, grown, copied \in AllocOutcomes :
       h1' = OnHeaderField(h1, Piece(n), grown, copied) /\ Move(n)
  /\ UNCHANGED <<request, complete>>

HeaderValue ==
  /\ More /\ Kind(at.span) = "value"
  /\ \E n \in Pieces : h1' = OnHeaderValue(h1, Piece(n)) /\ Move(n)
  /\ UNCHANGED <<request, complete>>

\* on_headers_complete, as far as the headers go.
HeadersComplete ==
  /\ ~More /\ ~complete
  /\ \E grown, copied \in AllocOutcomes :
       h1' = IF h1.hdr_state = 2 THEN Finalize(h1, grown, copied) ELSE h1
  /\ complete' = TRUE
  /\ UNCHANGED <<request, at>>

\* The next request of a connection that is kept.
NextRequest ==
  /\ complete
  /\ ~h1.internal_error /\ ~h1.header_too_big /\ ~h1.target_too_long /\ ~h1.cl_invalid
  /\ request' \in Requests /\ at' = [span |-> 1, done |-> 0]
  /\ h1' = Fresh
  /\ complete' = FALSE

Next == Url \/ HeaderName \/ HeaderValue \/ HeadersComplete \/ NextRequest
Spec == Init /\ [][Next]_vars

-----------------------------------------------------------------------------
TypeOK ==
  /\ request \in Requests /\ complete \in BOOLEAN
  /\ Len(h1.target) <= h1.target_cap /\ h1.target_cap <= TargetMax
  /\ Len(h1.req_hdrs) <= h1.req_hdr_cap /\ h1.req_hdr_cap <= HdrsMax
  /\ Len(h1.hdr_name) <= NameCap /\ Len(h1.hdr_val) <= LowCap /\ Len(h1.hdr_val_raw) <= RawCap

\* What a request says, without regard to how it was cut.
Sent(name) == {i \in DOMAIN request.headers : Lower(request.headers[i].name) = name}
Value(i) == Cut(Lower(request.headers[i].value), LowCap)
FirstOfName(i) ==
  LET n == Lower(request.headers[i].name) IN n \in Stored /\ i = Min(Sent(n))
Wanted ==
  LET kept == SetToSortSeq({i \in DOMAIN request.headers : FirstOfName(i)}, <)
  IN  [k \in DOMAIN kept |-> LET h == request.headers[kept[k]] IN
         [name |-> Lower(h.name), value |-> Cut(h.value, RawCap),
          truncated |-> Len(h.value) > RawCap]]

\* Wherever the receive buffers were cut, and whatever came before on the
\* connection, the server sees the request that was sent: its whole target or
\* a target that is too long; all its header fields counted against the limit;
\* the first header of each stored name, under that name, with its value as it
\* was written or marked as cut; and the framing headers read as written
\* (on_url, on_header_field, on_header_value, h1_finalize_interested_header,
\* conn_reset_request; "Count ALL parsed header fields", http1_limits.h:5).
SeenAsSent ==
  complete /\ ~h1.internal_error =>
    /\ h1.target_too_long = (Len(request.target) > TargetMax)
    /\ ~h1.target_too_long => h1.target = request.target
    /\ h1.header_too_big = (FieldsMax # 0 /\ Len(request.headers) > FieldsMax)
    /\ ~h1.header_too_big =>
         /\ h1.req_hdrs = Wanted
         /\ h1.cl_count = Cardinality(Sent(ContentLength))
         /\ h1.cl_invalid = (\/ h1.cl_count > 1
                             \/ \E i \in Sent(ContentLength) : ParseDecimal(Value(i)) = -1)
         /\ ~h1.cl_invalid => \A i \in Sent(ContentLength) : h1.cl_value = ParseDecimal(Value(i))
         /\ h1.te_chunked = \E i \in Sent(TransferEncoding) : Chunked \in Tokens(Value(i))
         /\ h1.te_other = \E i \in Sent(TransferEncoding) : Tokens(Value(i)) \ {Chunked} # {}
         /\ h1.expect_unsupported = \E i \in Sent(Expect) : Tokens(Value(i)) # {Continue}
=============================================================================
