------------------------------- MODULE UrlPath -------------------------------
(***************************************************************************)
(* From the target of a request to the path that is looked up: url.c, and  *)
(* the end of on_headers_complete which calls it.  Text is a sequence of   *)
(* character codes.                                                        *)
(***************************************************************************)
EXTENDS Integers, SequencesExt

CONSTANTS
  Targets,    \* targets of a request, origin-form or not
  PathMax,    \* REQ_PATH_MAX
  SegCap      \* entries of seg_starts

ConstantsOK == PathMax \in Nat /\ SegCap \in Nat

Slash == 47
Backslash == 92
Dot == 46
Percent == 37
Question == 63

VARIABLES
  target,   \* the target as it was sent
  path      \* what on_headers_complete made of it, or "none" before

vars == <<target, path>>

-----------------------------------------------------------------------------
\* url_split_path_query: the path ends at the first question mark.
Split(t) ==
  LET q == SelectInSeq(t, LAMBDA c : c = Question)
  IN  IF q = 0 THEN t ELSE SubSeq(t, 1, q - 1)

\* hexval, -1 for no hexadecimal digit
HexVal(c) ==
  IF c \in 48 .. 57 THEN c - 48
  ELSE IF c \in 97 .. 102 THEN c - 87
  ELSE IF c \in 65 .. 70 THEN c - 55
  ELSE -1

\* url_percent_decode_strict with reject_decoded_slashes, one character at a
\* time: skip counts the characters of an escape that are still to be passed.
Escaped(in, i) == 16 * HexVal(in[i + 1]) + HexVal(in[i + 2])
BadEscape(in, i) ==
  \/ i + 2 > Len(in)
  \/ HexVal(in[i + 1]) < 0 \/ HexVal(in[i + 2]) < 0
  \/ Escaped(in, i) \in {0, Slash, Backslash}
DecodeStep(in, cap, s, i) ==
  IF s.rc # 0 THEN s
  ELSE IF s.skip > 0 THEN [s EXCEPT !.skip = @ - 1]
  ELSE IF in[i] = Percent /\ BadEscape(in, i) THEN [s EXCEPT !.rc = -1]
  ELSE IF Len(s.out) + 1 > cap THEN [s EXCEPT !.rc = -2]
  ELSE IF in[i] = Percent THEN [s EXCEPT !.out = Append(@, Escaped(in, i)), !.skip = 2]
  ELSE [s EXCEPT !.out = Append(@, in[i])]
PercentDecode(in, cap) ==
  FoldLeft(LAMBDA s, i : DecodeStep(in, cap, s, i), [rc |-> 0, out |-> <<>>, skip |-> 0],
           [i \in DOMAIN in |-> i])

\* url_path_normalize_absolute, one segment at a time.  starts is the stack
\* seg_starts of offsets in out.
Segments(p) ==
  LET ends == {i \in DOMAIN p : p[i] # Slash /\ (i = Len(p) \/ p[i + 1] = Slash)}
      start(e) == Max({0} \union {i \in 1 .. e : p[i] = Slash}) + 1
      order == SetToSortSeq(ends, <)
  IN  [k \in DOMAIN order |-> SubSeq(p, start(order[k]), order[k])]

Pop(s) ==
  LET o == Last(s.starts)
      back == IF o > 1 /\ s.out[o] = Slash THEN o - 1 ELSE o
  IN  [s EXCEPT !.out = SubSeq(@, 1, back), !.starts = Front(@)]

Push(s, seg, cap) ==
  LET out == IF Len(s.out) > 1 THEN Append(s.out, Slash) ELSE s.out
  IN  IF Len(out) > cap THEN [s EXCEPT !.rc = -2]
      ELSE IF Len(s.starts) >= SegCap THEN [s EXCEPT !.rc = -1]
      ELSE IF Len(out) + Len(seg) > cap THEN [s EXCEPT !.rc = -2]
      ELSE [s EXCEPT !.out = out \o seg, !.starts = Append(@, Len(out))]

NormalizeStep(s, seg, cap) ==
  IF s.rc # 0 \/ seg = <<Dot>> THEN s
  ELSE IF seg = <<Dot, Dot>> THEN IF s.starts = <<>> THEN s ELSE Pop(s)
  ELSE Push(s, seg, cap)

Normalize(p, cap) ==
  IF p = <<>> \/ cap = 0 THEN [rc |-> -1, out |-> <<>>, starts |-> <<>>]
  ELSE IF p[1] # Slash THEN [rc |-> -1, out |-> <<>>, starts |-> <<>>]
  ELSE FoldLeft(LAMBDA s, seg : NormalizeStep(s, seg, cap),
                [rc |-> 0, out |-> <<Slash>>, starts |-> <<>>], Segments(p))

\* on_headers_complete: split, decode, normalise, with buffers of the size of the path.
Refused == [ok |-> FALSE, dec |-> <<>>, norm |-> <<>>, rc |-> -1]
PathOfEncoded(t) ==
  LET raw == Split(t)
      norm == Normalize(raw, Len(raw))
      dec == PercentDecode(norm.out, Len(raw))
  IN  IF raw = <<>> \/ norm.rc # 0 \/ dec.rc # 0 THEN Refused
      ELSE [ok |-> TRUE, dec |-> raw, norm |-> dec.out, rc |-> 0]
PathOf(t) ==
  LET raw == Split(t)
      dec == PercentDecode(raw, Len(raw))
      norm == Normalize(dec.out, Len(raw))
  IN  IF raw = <<>> \/ Len(raw) > PathMax THEN Refused
      ELSE IF raw[1] # Slash THEN Refused
      ELSE IF dec.rc # 0 THEN [Refused EXCEPT !.rc = dec.rc]
      ELSE IF norm.rc # 0 THEN [Refused EXCEPT !.rc = norm.rc, !.dec = dec.out]
      ELSE [ok |-> TRUE, dec |-> dec.out, norm |-> norm.out, rc |-> 0]

NotYet == [Refused EXCEPT !.rc = 1]

Init == target \in Targets /\ path = NotYet

HeadersComplete == path = NotYet /\ path' = PathOf(target) /\ UNCHANGED target

Next == HeadersComplete
Spec == Init /\ [][Next]_vars

-----------------------------------------------------------------------------
TypeOK == target \in Targets /\ path.rc \in {-2, -1, 0, 1}

\* What a path means: the names that are left when "." is dropped and ".."
\* takes away the name before it.
Resolve(names, seg) ==
  IF seg = <<Dot>> THEN names
  ELSE IF seg = <<Dot, Dot>> THEN IF names = <<>> THEN <<>> ELSE Front(names)
  ELSE Append(names, seg)
Meaning(p) == FoldLeft(Resolve, <<>>, Segments(p))
Deepest(p) == Max({Len(FoldLeft(Resolve, <<>>, SubSeq(Segments(p), 1, k))) : k \in 0 .. Len(Segments(p))})
Written(names) ==
  IF names = <<>> THEN <<Slash>> ELSE FlattenSeq([k \in DOMAIN names |-> <<Slash>> \o names[k]])
Slashes(p) == Cardinality({i \in DOMAIN p : p[i] = Slash})

\* The path that is looked up names what the target means, however dots and
\* escapes were written: no ".", ".." or empty name is left in it, escapes add
\* no separator, and the buffers, which have the size of the path as sent,
\* always hold it; a path is refused for its form, never for want of room
\* (url.c, on_headers_complete; path_norm is opened below docroot_fd and
\* compared with the prefixes of route rules).
PathAsMeant ==
  path.rc # 1 =>
    LET raw == Split(target) IN
    /\ path.rc # -2
    /\ path.ok =>
         /\ path.norm = Written(Meaning(path.dec))
         /\ Len(path.norm) <= Len(raw)
         /\ Slashes(path.dec) = Slashes(raw)
         /\ \A k \in DOMAIN Segments(path.norm) :
              Segments(path.norm)[k] \notin {<<Dot>>, <<Dot, Dot>>}
    /\ path.dec # <<>> => path.ok = (Deepest(path.dec) <= SegCap)
=============================================================================
