-------------------------- MODULE MCRequestFraming --------------------------
EXTENDS RequestFraming

Get(fields, ka) ==
  [method |-> "GET", framing |-> "none", valid |-> TRUE, fields |-> fields,
   body |-> 0, ka |-> ka]
Body(framing, fields, body) ==
  [method |-> "GET", framing |-> framing, valid |-> TRUE, fields |-> fields,
   body |-> body, ka |-> TRUE]
Bad == [Get(1, TRUE) EXCEPT !.valid = FALSE]
Post == [Body("length", 1, 2) EXCEPT !.method = "POST"]

\* Pipelined requests without a body or with a chunked one; one with a
\* Content-Length comes last or follows in a later buffer only.
Pipelined ==
  {<<a, b, c>> : a, b \in {Get(0, TRUE), Get(2, TRUE), Body("chunked", 1, 2)},
                 c \in {Get(1, FALSE), Body("length", 1, 3), Body("chunked", 0, 3)}}
  \cup {<<Get(1, TRUE), Get(1, TRUE), r, Get(1, TRUE)>> :
          r \in {Bad, Post, Body("other", 1, 1), Body("chunked", 1, 4), Get(3, TRUE), Get(4, TRUE),
                 Body("length", 1, 4), Get(6, TRUE), [Post EXCEPT !.body = 4]}}

\* A request with a Content-Length and one behind it.
LengthThenGet == {<<Body("length", 1, 3), Get(1, TRUE)>>}

\* A request with a header of four pieces and one behind it.
WithinCap == {<<Get(3, TRUE), Get(1, TRUE)>>}
=============================================================================
