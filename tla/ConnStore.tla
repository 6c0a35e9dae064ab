------------------------------ MODULE ConnStore ------------------------------
(***************************************************************************)
(* conn_store: the map of a worker from descriptors to connections, a hash *)
(* table with open addressing, linear probing and tombstones.              *)
(*                                                                         *)
(* A descriptor is its own hash value.  Capacities are powers of two, so   *)
(* that masking with fd_cap - 1 is the remainder.                          *)
(***************************************************************************)
EXTENDS Naturals, Integers, FiniteSets, FiniteSetsExt

CONSTANTS
  Fds,         \* descriptors
  Conns,       \* connections
  NoConn,      \* NULL
  InitCap,     \* the capacity after conn_store_init
  MaxCap       \* the capacity up to which memory suffices

ConstantsOK ==
  /\ Fds \subseteq Nat /\ NoConn \notin Conns
  /\ InitCap \in Nat /\ InitCap > 1 /\ MaxCap \in Nat
ASSUME StoreAssumption == ConstantsOK

EMPTY == -1    \* FM_EMPTY
TOMB == -2     \* FM_TOMB

VARIABLES fd_keys, fd_vals, fd_cap, fd_size, fd_tombs
vars == <<fd_keys, fd_vals, fd_cap, fd_size, fd_tombs>>

SlotsOf(cap) == 0 .. cap - 1
Blank(cap) == [keys |-> [i \in SlotsOf(cap) |-> EMPTY],
               vals |-> [i \in SlotsOf(cap) |-> NoConn], size |-> 0]

\* conn_store_init
Init ==
  /\ fd_keys = Blank(InitCap).keys
  /\ fd_vals = Blank(InitCap).vals
  /\ fd_cap = InitCap
  /\ fd_size = 0
  /\ fd_tombs = 0

\* The slot that the probe for fd looks at after n steps.
Probe(fd, n, cap) == (fd + n) % cap

\* The steps after which a probe for fd meets a slot whose key satisfies P,
\* and the slot where it does so first.
Meets(fd, keys, cap, P(_)) == {n \in SlotsOf(cap) : P(keys[Probe(fd, n, cap)])}
First(fd, keys, cap, P(_)) == Probe(fd, Min(Meets(fd, keys, cap, P)), cap)

\* Where the search for fd ends: at its key or at an empty slot.
Ends(fd, k) == k = fd \/ k = EMPTY
SearchEnd(fd) == First(fd, fd_keys, fd_cap, LAMBDA k : Ends(fd, k))
SearchEnds(fd) == Meets(fd, fd_keys, fd_cap, LAMBDA k : Ends(fd, k)) # {}

\* conn_store_get, which gives up after one round.
conn_store_get(fd) ==
  LET end == SearchEnd(fd)
  IN  IF SearchEnds(fd) /\ fd_keys[end] = fd THEN fd_vals[end] ELSE NoConn

-----------------------------------------------------------------------------
\* fm_resize: the live keys go to a table of twice the size, in slot order.
Rehash(t, i, cap) ==
  IF fd_keys[i] < 0 THEN t
  ELSE LET j == First(fd_keys[i], t.keys, cap, LAMBDA k : k < 0)
       IN  [t EXCEPT !.keys[j] = fd_keys[i], !.vals[j] = fd_vals[i], !.size = @ + 1]
Resized(cap) ==
  LET after[i \in 0 .. fd_cap] ==
        IF i = 0 THEN Blank(cap) ELSE Rehash(after[i - 1], i - 1, cap)
  IN  after[fd_cap]

\* The table as the probing part of conn_store_put finds it.
Table == [keys |-> fd_keys, vals |-> fd_vals, cap |-> fd_cap, size |-> fd_size,
          tombs |-> fd_tombs]
Grown ==
  LET r == Resized(2 * fd_cap)
  IN  [keys |-> r.keys, vals |-> r.vals, cap |-> 2 * fd_cap, size |-> r.size, tombs |-> 0]

NeedsResizeByLoad ==
  (fd_size + 1) * 10 > fd_cap * 7 \/ fd_tombs * 2 > fd_cap
NeedsResize ==
  \/ (fd_size + 1) * 10 > fd_cap * 7
  \/ fd_tombs * 2 > fd_cap
  \/ fd_size + fd_tombs + 1 >= fd_cap

\* A new key goes to the first tombstone on its way, or to the empty slot that
\* ended it.
Insert(t, fd, c, end) ==
  LET tombs == {n \in Meets(fd, t.keys, t.cap, LAMBDA k : k = TOMB) :
                  n < Min(Meets(fd, t.keys, t.cap, LAMBDA k : k = EMPTY))}
      ins == IF tombs = {} THEN end ELSE Probe(fd, Min(tombs), t.cap)
  IN  [t EXCEPT !.keys[ins] = fd, !.vals[ins] = c, !.size = @ + 1,
                !.tombs = IF tombs = {} THEN @ ELSE @ - 1]

\* The probing part of conn_store_put.
Stored(t, fd, c) ==
  LET end == First(fd, t.keys, t.cap, LAMBDA k : Ends(fd, k))
  IN  IF t.keys[end] = fd THEN [t EXCEPT !.vals[end] = c] ELSE Insert(t, fd, c, end)

Becomes(t) ==
  /\ fd_keys' = t.keys /\ fd_vals' = t.vals /\ fd_cap' = t.cap
  /\ fd_size' = t.size /\ fd_tombs' = t.tombs

conn_store_put(fd, c) ==
  /\ NeedsResize => 2 * fd_cap <= MaxCap
  /\ NeedsResize \/ SearchEnds(fd)
  /\ Becomes(Stored(IF NeedsResize THEN Grown ELSE Table, fd, c))

\* There is no memory for a larger table.
PutFails == NeedsResize /\ UNCHANGED vars

conn_store_del_empties(fd) ==
  LET end == SearchEnd(fd)
  IN  /\ SearchEnds(fd)
      /\ fd_keys[end] = fd
      /\ fd_keys' = [fd_keys EXCEPT ![end] = EMPTY]
      /\ fd_vals' = [fd_vals EXCEPT ![end] = NoConn]
      /\ fd_size' = fd_size - 1
      /\ UNCHANGED <<fd_cap, fd_tombs>>
conn_store_del(fd) ==
  LET end == SearchEnd(fd)
  IN  /\ SearchEnds(fd)
      /\ fd_keys[end] = fd
      /\ fd_keys' = [fd_keys EXCEPT ![end] = TOMB]
      /\ fd_vals' = [fd_vals EXCEPT ![end] = NoConn]
      /\ fd_size' = fd_size - 1
      /\ fd_tombs' = fd_tombs + 1
      /\ UNCHANGED fd_cap

\* The key is not there.
DelAbsent(fd) ==
  /\ SearchEnds(fd) /\ fd_keys[SearchEnd(fd)] = EMPTY
  /\ UNCHANGED vars

Next ==
  \/ PutFails
  \/ \E fd \in Fds : \/ \E c \in Conns : conn_store_put(fd, c)
                     \/ conn_store_del(fd)
                     \/ DelAbsent(fd)

Spec == Init /\ [][Next]_vars

-----------------------------------------------------------------------------
TypeOK ==
  /\ fd_cap \in Nat /\ fd_size \in Nat /\ fd_tombs \in Nat
  /\ fd_keys \in [SlotsOf(fd_cap) -> Fds \cup {EMPTY, TOMB}]
  /\ fd_vals \in [SlotsOf(fd_cap) -> Conns \cup {NoConn}]

With(P(_)) == {i \in SlotsOf(fd_cap) : P(fd_keys[i])}

\* The counters that decide about growth count the live keys and the
\* tombstones, through reuse, replacement, deletion and growth.
CountersExact ==
  /\ fd_size = Cardinality(With(LAMBDA k : k \in Fds))
  /\ fd_tombs = Cardinality(With(LAMBDA k : k = TOMB))

\* Every search ends: some slot is empty.  The loops of conn_store_put and
\* conn_store_del have no other bound than an empty slot.
ProbesEnd == With(LAMBDA k : k = EMPTY) # {}

\* conn_store_get, over a table that has been through any puts, deletions,
\* reused tombstones and growth, is a map.
Map == INSTANCE FdMap WITH map <- [fd \in Fds |-> conn_store_get(fd)]
ImplementsMap == Map!Spec
=============================================================================
