------------------------------ MODULE HttpRange ------------------------------
(***************************************************************************)
(* The Range header: http_range_parse reads the value, http_range_resolve  *)
(* applies it to the size of the file.                                     *)
(*                                                                         *)
(* The value after the unit "bytes=" is a sequence of characters: a digit  *)
(* is its value, and Dash, Comma, Space and Other stand for the rest.      *)
(* UINT64_MAX is a parameter, so that the overflow test is reached.        *)
(***************************************************************************)
EXTENDS Integers, Sequences

CONSTANT UINT64_MAX

ASSUME MaxAssumption == UINT64_MAX \in Nat

Dash == 10
Comma == 11
Space == 12
Other == 13
IsDigit(ch) == ch \in 0 .. 9

\* val * 10 + digit, or -1 when that exceeds UINT64_MAX.
push_digit_loose(val, digit) ==
  IF val = -1 \/ val > UINT64_MAX \div 10 THEN -1 ELSE val * 10 + digit
push_digit(val, digit) ==
  IF \/ val = -1
     \/ val > UINT64_MAX \div 10
     \/ val = UINT64_MAX \div 10 /\ digit > UINT64_MAX % 10
  THEN -1 ELSE val * 10 + digit

\* The run of digits of s that starts at pos: its value, -1 if it is empty or
\* overflows, and the position after it.
parse_u64(s, pos) ==
  LET end == CHOOSE e \in pos .. Len(s) + 1 :
               /\ \A i \in pos .. e - 1 : IsDigit(s[i])
               /\ e <= Len(s) => ~IsDigit(s[e])
      read[e \in pos - 1 .. end - 1] == IF e < pos THEN 0 ELSE push_digit(read[e - 1], s[e])
  IN [pos |-> end, val |-> IF end = pos THEN -1 ELSE read[end - 1]]

NoRange == [valid |-> FALSE, suffix |-> FALSE, first |-> 0, last |-> 0]
Valid(suffix, first, last) ==
  [valid |-> TRUE, suffix |-> suffix, first |-> first, last |-> last]

\* bytes=N- and bytes=N-M, from the position of N.
parse_from(s, pos) ==
  LET n == parse_u64(s, pos)
      m == parse_u64(s, n.pos + 1)
  IN IF n.val = -1 \/ n.pos > Len(s) \/ s[n.pos] # Dash THEN NoRange
     ELSE IF n.pos = Len(s) THEN Valid(FALSE, n.val, UINT64_MAX)
     ELSE IF m.val = -1 \/ m.pos # Len(s) + 1 \/ n.val > m.val THEN NoRange
     ELSE Valid(FALSE, n.val, m.val)

\* bytes=-N, from the position of N.
parse_suffix(s, pos) ==
  LET n == parse_u64(s, pos)
  IN IF n.val \in {-1, 0} \/ n.pos # Len(s) + 1 THEN NoRange
     ELSE Valid(TRUE, n.val, 0)

http_range_parse(s) ==
  LET pos == CHOOSE p \in 1 .. Len(s) + 1 :
               /\ \A i \in 1 .. p - 1 : s[i] = Space
               /\ p <= Len(s) => s[p] # Space
  IN IF pos > Len(s) \/ \E i \in pos .. Len(s) : s[i] = Comma THEN NoRange
     ELSE IF s[pos] = Dash THEN parse_suffix(s, pos + 1)
     ELSE parse_from(s, pos)

Unsatisfiable == [satisfiable |-> FALSE, start |-> 0, end |-> 0, length |-> 0]
Resolved(start, end) ==
  [satisfiable |-> TRUE, start |-> start, end |-> end, length |-> end - start + 1]

http_range_resolve(br, size) ==
  IF ~br.valid \/ size = 0 THEN Unsatisfiable
  ELSE IF br.suffix
       THEN Resolved(IF br.first >= size THEN 0 ELSE size - br.first, size - 1)
  ELSE IF br.first >= size THEN Unsatisfiable
  ELSE Resolved(br.first,
                IF br.last = UINT64_MAX \/ br.last >= size THEN size - 1 ELSE br.last)

-----------------------------------------------------------------------------
(* What a range asks for, stated without the code's cases.                 *)

\* The bytes of a file of the given size that a parsed range names.
Asked(br, size) ==
  {i \in 0 .. size - 1 : IF br.suffix THEN size - i <= br.first
                         ELSE br.first <= i /\ i <= br.last}

\* The number a nonempty sequence of digits writes, without a limit.
Decimal(ds) ==
  LET value[n \in 0 .. Len(ds)] == IF n = 0 THEN 0 ELSE value[n - 1] * 10 + ds[n]
  IN value[Len(ds)]

Number(ds) == ds # <<>> /\ (\A i \in DOMAIN ds : IsDigit(ds[i])) /\ Decimal(ds) <= UINT64_MAX

\* spec = pre "-" post, where Grammar(pre, post) says which pairs are ranges.
Grammar(pre, post) ==
  \/ pre = <<>> /\ Number(post) /\ Decimal(post) > 0
  \/ Number(pre) /\ post = <<>>
  \/ Number(pre) /\ Number(post) /\ Decimal(pre) <= Decimal(post)

Meaning(pre, post) ==
  IF pre = <<>> THEN Valid(TRUE, Decimal(post), 0)
  ELSE Valid(FALSE, Decimal(pre), IF post = <<>> THEN UINT64_MAX ELSE Decimal(post))
=============================================================================
