------------------------------ MODULE RxBuffers ------------------------------
(***************************************************************************)
(* The receive buffers of a worker: the ring of provided buffers that      *)
(* buffer_pool fills, from which the kernel takes a buffer for each        *)
(* receive that has data, and to which the handler of OP_READ returns it.  *)
(***************************************************************************)
EXTENDS Naturals, FiniteSets

CONSTANTS
  Conns,           \* connections, each with at most one receive in flight
  Entries,         \* BUF_RING_ENTRIES, a power of two
  AllocMayFail     \* malloc may fail in buffer_pool_init

ConstantsOK == Entries \in Nat \ {0} /\ AllocMayFail \in BOOLEAN

Bids == 0 .. Entries - 1

\* The ring's head and tail are 16-bit counters and Entries divides 2^16; any
\* multiple of Entries above Entries itself wraps in the same way.
Wrap == 2 * Entries

VARIABLES
  bp_pool,    \* the buffers that could be allocated
  ring,       \* [Bids -> Bids]: the entries of the ring; one never written names buffer 0
  head,       \* the kernel's place in the ring
  tail,       \* the place up to which entries are published
  recv        \* [Conns -> what became of the connection's receive]

vars == <<bp_pool, ring, head, tail, recv>>

NoRecv == [at |-> "none", bid |-> 0, closing |-> FALSE]

\* Before buffer_pool_init.
Init ==
  /\ bp_pool = {}
  /\ ring = [i \in Bids |-> 0]
  /\ head = 0
  /\ tail = 0
  /\ recv = [c \in Conns |-> NoRecv]

\* Buffer i goes to entry i, and as many entries are published as there are
\* buffers.  Without any buffer the worker does not start.
buffer_pool_init ==
  /\ bp_pool = {}
  /\ bp_pool' \in IF AllocMayFail THEN SUBSET Bids \ {{}} ELSE {Bids}
  /\ ring' = [i \in Bids |-> IF i \in bp_pool' THEN i ELSE 0]
  /\ tail' = Cardinality(bp_pool')
  /\ UNCHANGED <<head, recv>>

Published == (tail + Wrap - head) % Wrap

\* post_recv_ptr: a receive that selects its buffer.
PostRecv(c) ==
  /\ bp_pool # {} /\ recv[c] = NoRecv
  /\ recv' = [recv EXCEPT ![c].at = "posted"]
  /\ UNCHANGED <<bp_pool, ring, head, tail>>

\* The connection begins to close while the receive is in flight.
BeginClose(c) ==
  /\ recv[c].at # "none" /\ ~recv[c].closing
  /\ recv' = [recv EXCEPT ![c].closing = TRUE]
  /\ UNCHANGED <<bp_pool, ring, head, tail>>

\* The kernel takes the next entry of the ring.
KernelSelects(c) ==
  /\ recv[c].at = "posted" /\ Published > 0
  /\ recv' = [recv EXCEPT ![c].at = "selected", ![c].bid = ring[head % Entries]]
  /\ head' = (head + 1) % Wrap
  /\ UNCHANGED <<bp_pool, ring, tail>>

\* The receive ends without a buffer: the ring is empty, the receive was
\* canceled or it failed.
EndsWithoutBuffer(c) ==
  /\ recv[c].at = "posted"
  /\ recv' = [recv EXCEPT ![c] = NoRecv]
  /\ UNCHANGED <<bp_pool, ring, head, tail>>

\* buffer_pool_return
buffer_pool_return(bid) ==
  IF bid \in bp_pool
  THEN /\ ring' = [ring EXCEPT ![tail % Entries] = bid]
       /\ tail' = (tail + 1) % Wrap
  ELSE UNCHANGED <<ring, tail>>

\* OP_READ with a buffer: worker_loop_read_handle_cqe returns it on every path.
HandleRead(c) ==
  /\ recv[c].at = "selected" /\ ~recv[c].closing
  /\ buffer_pool_return(recv[c].bid)
  /\ recv' = [recv EXCEPT ![c] = NoRecv]
  /\ UNCHANGED <<bp_pool, head>>

\* The caller read_handle_cqe ends at once when the connection is closing, and
\* the buffer stays out of the ring.
HandleReadClosingTwice(c) ==
  /\ recv[c].at = "selected" /\ recv[c].closing
  /\ buffer_pool_return(recv[c].bid)
  /\ recv' = [recv EXCEPT ![c].closing = FALSE]
  /\ UNCHANGED <<bp_pool, head>>
HandleReadClosing(c) ==
  /\ recv[c].at = "selected" /\ recv[c].closing
  /\ recv' = [recv EXCEPT ![c] = NoRecv]
  /\ UNCHANGED <<bp_pool, ring, head, tail>>

Next ==
  \/ buffer_pool_init
  \/ \E c \in Conns :
       \/ PostRecv(c) \/ BeginClose(c) \/ KernelSelects(c) \/ EndsWithoutBuffer(c)
       \/ HandleRead(c) \/ HandleReadClosing(c)
Spec == Init /\ [][Next]_vars

-----------------------------------------------------------------------------
TypeOK ==
  /\ bp_pool \subseteq Bids
  /\ ring \in [Bids -> Bids]
  /\ head \in 0 .. Wrap - 1 /\ tail \in 0 .. Wrap - 1
  /\ recv \in [Conns -> [at : {"none", "posted", "selected"}, bid : Bids, closing : BOOLEAN]]

Offered == {k \in Bids : k < Published}
Entry(k) == ring[(head + k) % Entries]
Held == {c \in Conns : recv[c].at = "selected"}

\* No buffer is offered to the kernel or used by a handler twice at a time, so
\* no two receives write to the same memory (buffer_pool_return against the
\* kernel's selection), and only buffers that exist are offered, no more than
\* the ring has entries ("Continue with a partial pool when one allocation fails").
BufferOnce ==
  /\ Published <= Entries /\ \A k \in Offered : Entry(k) \in bp_pool
  /\ \A j, k \in Offered : j # k => Entry(j) # Entry(k)
  /\ \A c, d \in Held : c # d => recv[c].bid # recv[d].bid
  /\ \A k \in Offered, c \in Held : Entry(k) # recv[c].bid

=============================================================================
