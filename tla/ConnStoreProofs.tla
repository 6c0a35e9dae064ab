-------------------------- MODULE ConnStoreProofs --------------------------
(***************************************************************************)
(* conn_store implements a map, for every set of descriptors and every     *)
(* capacity: searches end, the counters that decide about growth are       *)
(* exact, and neither a reused tombstone nor growth loses or doubles a     *)
(* key.                                                                    *)
(***************************************************************************)
EXTENDS ConnStore, FiniteSetTheorems, TLAPS

\* Linear probing: from where fd hashes to up to where it is stored no slot is
\* empty, and none holds fd too.
Sound(keys, cap) ==
  \A fd \in Fds, m, n \in SlotsOf(cap) :
    keys[Probe(fd, n, cap)] = fd /\ m < n => keys[Probe(fd, m, cap)] \notin {EMPTY, fd}

Live(t) == {i \in SlotsOf(t.cap) : t.keys[i] \in Fds}
Tombs(t) == {i \in SlotsOf(t.cap) : t.keys[i] = TOMB}

IsTable(t) ==
  /\ t = [keys |-> t.keys, vals |-> t.vals, cap |-> t.cap, size |-> t.size, tombs |-> t.tombs]
  /\ t.cap \in Nat /\ t.cap > 1
  /\ t.keys \in [SlotsOf(t.cap) -> Fds \cup {EMPTY, TOMB}]
  /\ t.vals \in [SlotsOf(t.cap) -> Conns \cup {NoConn}]

Sane(t) ==
  /\ IsTable(t)
  /\ \A i \in SlotsOf(t.cap) : t.keys[i] \in Fds => t.vals[i] \in Conns
  /\ Sound(t.keys, t.cap)
  /\ t.size = Cardinality(Live(t))
  /\ t.tombs = Cardinality(Tombs(t))
  /\ t.size + t.tombs < t.cap

\* fd is stored in t with the value c.
Maps(t, fd, c) == \E i \in SlotsOf(t.cap) : t.keys[i] = fd /\ t.vals[i] = c
Has(t, fd) == \E i \in SlotsOf(t.cap) : t.keys[i] = fd

-----------------------------------------------------------------------------
(* Remainders and minima *)

LEMMA Remainder ==
  ASSUME NEW cap \in Nat, cap > 0, NEW q \in Int, NEW r \in 0 .. cap - 1
  PROVE  (cap * q + r) % cap = r
  OBVIOUS

\* The probe goes round the table.
LEMMA ProbeIs ==
  ASSUME NEW cap \in Nat, cap > 0, NEW fd \in Nat, NEW n \in SlotsOf(cap)
  PROVE  LET r == fd % cap
         IN  /\ r \in SlotsOf(cap)
             /\ Probe(fd, n, cap) = IF r + n < cap THEN r + n ELSE r + n - cap
<1> DEFINE q == fd \div cap
           r == fd % cap
<1>1. q \in Int /\ r \in 0 .. cap - 1 /\ fd = cap * q + r
  OBVIOUS
<1>2. n \in 0 .. cap - 1
  BY DEF SlotsOf
<1> HIDE DEF q, r
<1>3. CASE r + n < cap
  <2>1. fd + n = cap * q + (r + n) /\ r + n \in 0 .. cap - 1
    BY <1>1, <1>2, <1>3
  <2>2. (fd + n) % cap = r + n
    BY <1>1, <2>1, Remainder
  <2> QED BY <1>1, <1>3, <2>2 DEF r, Probe, SlotsOf
<1>4. CASE ~(r + n < cap)
  <2>1. fd + n = cap * (q + 1) + (r + n - cap) /\ r + n - cap \in 0 .. cap - 1 /\ q + 1 \in Int
    BY <1>1, <1>2, <1>4
  <2>2. (fd + n) % cap = r + n - cap
    BY <2>1, Remainder, Zenon
  <2> QED BY <1>1, <1>4, <2>2 DEF r, Probe, SlotsOf
<1> QED BY <1>3, <1>4

\* A probe meets every slot once.
LEMMA ProbeOnto ==
  ASSUME NEW cap \in Nat, cap > 0, NEW fd \in Nat
  PROVE  /\ \A n \in SlotsOf(cap) : Probe(fd, n, cap) \in SlotsOf(cap)
         /\ \A i \in SlotsOf(cap) : \E n \in SlotsOf(cap) : Probe(fd, n, cap) = i
         /\ \A m, n \in SlotsOf(cap) : Probe(fd, m, cap) = Probe(fd, n, cap) => m = n
<1> DEFINE r == fd % cap
<1>1. r \in 0 .. cap - 1
  OBVIOUS
<1>2. \A n \in 0 .. cap - 1 : Probe(fd, n, cap) = IF r + n < cap THEN r + n ELSE r + n - cap
  BY ProbeIs DEF SlotsOf
<1> HIDE DEF r
<1>3. ASSUME NEW i \in 0 .. cap - 1 PROVE \E n \in 0 .. cap - 1 : Probe(fd, n, cap) = i
  <2>1. CASE i >= r
    <3>1. i - r \in 0 .. cap - 1
      BY <1>1, <2>1
    <3> QED BY <1>1, <1>2, <3>1
  <2>2. CASE i < r
    <3>1. i - r + cap \in 0 .. cap - 1
      BY <1>1, <2>2
    <3>2. Probe(fd, i - r + cap, cap) = i
      BY <1>1, <1>2, <2>2, <3>1
    <3> QED BY <3>1, <3>2
  <2> QED BY <1>1, <2>1, <2>2
<1>4. \A n \in 0 .. cap - 1 : Probe(fd, n, cap) \in 0 .. cap - 1
  BY <1>1, <1>2
<1>5. \A m, n \in 0 .. cap - 1 : Probe(fd, m, cap) = Probe(fd, n, cap) => m = n
  BY <1>1, <1>2
<1> QED BY <1>3, <1>4, <1>5 DEF SlotsOf

LEMMA MinIsLeast ==
  ASSUME NEW S \in SUBSET Nat, S # {}
  PROVE  Min(S) \in S /\ \A y \in S : Min(S) <= y
<1> DEFINE R == {p \in Nat \X Nat : p[1] < p[2]}
<1>1. R = OpToRel(<, Nat)
  BY DEF OpToRel
<1>2. IsWellFoundedOn(R, Nat)
  BY <1>1, NatLessThanWellFounded
<1> HIDE DEF R
<1>3. PICK x \in S : \A y \in S : ~(<<y, x>> \in R)
  BY <1>2, WFMin
<1>4. \A a, b \in Nat : a < b => <<a, b>> \in R
  BY DEF R
<1>5. ASSUME NEW y \in S PROVE x <= y
  <2>1. x \in Nat /\ y \in Nat
    OBVIOUS
  <2>2. ~(y < x)
    <3>1. ~(<<y, x>> \in R)
      BY <1>3
    <3> QED BY <3>1, <2>1, <1>4, Zenon
  <2> QED BY <2>1, <2>2
<1> QED BY <1>5, Zenon DEF Min

\* The first slot on the way of fd whose number of steps is in S.
LEMMA FirstOf ==
  ASSUME NEW cap \in Nat, cap > 0, NEW S \in SUBSET SlotsOf(cap), S # {}
  PROVE  /\ Min(S) \in S /\ Min(S) \in SlotsOf(cap)
         /\ \A m \in SlotsOf(cap) : m < Min(S) => m \notin S
<1>1. S \in SUBSET Nat /\ \A m \in SlotsOf(cap) : m \in Nat
  BY DEF SlotsOf
<1>2. Min(S) \in S /\ \A y \in S : Min(S) <= y
  BY <1>1, MinIsLeast
<1> DEFINE l == Min(S)
<1> HIDE DEF l
<1>3. l \in S /\ \A y \in S : l <= y
  BY <1>2 DEF l
<1>4. \A m \in SlotsOf(cap) : m < l => m \notin S
  BY <1>1, <1>3
<1> QED BY <1>3, <1>4 DEF l

-----------------------------------------------------------------------------
(* Searching *)

\* The steps after which a search for fd in t ends.
EndsOf(t, fd) == {n \in SlotsOf(t.cap) : Ends(fd, t.keys[Probe(fd, n, t.cap)])}
EndOf(t, fd) == Probe(fd, Min(EndsOf(t, fd)), t.cap)
Got(t, fd) ==
  IF EndsOf(t, fd) # {} /\ t.keys[EndOf(t, fd)] = fd THEN t.vals[EndOf(t, fd)] ELSE NoConn

LEMMA SlotsOfTable ==
  ASSUME ConstantsOK, NEW t, IsTable(t), NEW fd \in Fds
  PROVE  /\ fd \in Nat /\ fd # EMPTY /\ fd # TOMB /\ EMPTY # TOMB
         /\ EMPTY \notin Fds /\ TOMB \notin Fds
         /\ \A n \in SlotsOf(t.cap) : Probe(fd, n, t.cap) \in SlotsOf(t.cap)
         /\ \A i \in SlotsOf(t.cap) : \E n \in SlotsOf(t.cap) : Probe(fd, n, t.cap) = i
         /\ \A m, n \in SlotsOf(t.cap) : Probe(fd, m, t.cap) = Probe(fd, n, t.cap) => m = n
<1>1. fd \in Nat /\ t.cap \in Nat /\ t.cap > 0
  BY DEF ConstantsOK, IsTable
<1>2. fd # EMPTY /\ fd # TOMB /\ EMPTY # TOMB /\ EMPTY \notin Fds /\ TOMB \notin Fds
  BY <1>1 DEF ConstantsOK, EMPTY, TOMB
<1> QED BY <1>1, <1>2, ProbeOnto

\* A search for a key that is stored ends at the only slot that holds it.
LEMMA SearchFinds ==
  ASSUME ConstantsOK, NEW t, IsTable(t), Sound(t.keys, t.cap), NEW fd \in Fds,
         NEW i \in SlotsOf(t.cap), t.keys[i] = fd
  PROVE  EndsOf(t, fd) # {} /\ EndOf(t, fd) = i
<1>1. PICK n \in SlotsOf(t.cap) : Probe(fd, n, t.cap) = i
  BY SlotsOfTable
<1>2. n \in EndsOf(t, fd)
  BY <1>1 DEF EndsOf, Ends
<1>3. t.cap \in Nat /\ t.cap > 0 /\ EndsOf(t, fd) \in SUBSET SlotsOf(t.cap)
  BY DEF IsTable, EndsOf
<1> DEFINE e == Min(EndsOf(t, fd))
<1>4. e \in EndsOf(t, fd) /\ e \in SlotsOf(t.cap)
  BY <1>2, <1>3, FirstOf
<1>5. ~(n < e)
  BY <1>2, <1>3, FirstOf
<1>6. Ends(fd, t.keys[Probe(fd, e, t.cap)])
  BY <1>4 DEF EndsOf
<1> HIDE DEF e
<1>7. ~(e < n)
  BY <1>1, <1>4, <1>6 DEF Sound, Ends
<1>8. e = n
  BY <1>4, <1>5, <1>7 DEF SlotsOf
<1> QED BY <1>1, <1>2, <1>8 DEF EndOf, e

\* So a key is in one slot at most, and what conn_store_get returns is exactly
\* what is stored.
LEMMA GotIsStored ==
  ASSUME ConstantsOK, NEW t, IsTable(t), Sound(t.keys, t.cap), NEW fd \in Fds
  PROVE  /\ \A i, j \in SlotsOf(t.cap) : t.keys[i] = fd /\ t.keys[j] = fd => i = j
         /\ \A c : Maps(t, fd, c) => Got(t, fd) = c
         /\ ~Has(t, fd) => Got(t, fd) = NoConn
<1>1. \A i, j \in SlotsOf(t.cap) : t.keys[i] = fd /\ t.keys[j] = fd => i = j
  BY SearchFinds
<1>2. ASSUME NEW c, Maps(t, fd, c) PROVE Got(t, fd) = c
  <2>1. PICK i \in SlotsOf(t.cap) : t.keys[i] = fd /\ t.vals[i] = c
    BY <1>2 DEF Maps
  <2> QED BY <2>1, SearchFinds DEF Got
<1>3. ASSUME ~Has(t, fd) PROVE Got(t, fd) = NoConn
  <2>1. SUFFICES ASSUME EndsOf(t, fd) # {} PROVE t.keys[EndOf(t, fd)] # fd
    BY DEF Got
  <2>2. t.cap \in Nat /\ t.cap > 0 /\ EndsOf(t, fd) \in SUBSET SlotsOf(t.cap)
    BY DEF IsTable, EndsOf
  <2>3. EndOf(t, fd) \in SlotsOf(t.cap)
    BY <2>1, <2>2, FirstOf, SlotsOfTable, Zenon DEF EndOf
  <2> QED BY <1>3, <2>3 DEF Has
<1> QED BY <1>1, <1>2, <1>3

-----------------------------------------------------------------------------
(* Storing and deleting *)

LEMMA Counting ==
  ASSUME NEW t, IsTable(t)
  PROVE  /\ IsFiniteSet(Live(t)) /\ IsFiniteSet(Tombs(t))
         /\ Cardinality(Live(t)) \in Nat /\ Cardinality(Tombs(t)) \in Nat
<1>1. IsFiniteSet(SlotsOf(t.cap))
  BY FS_Interval DEF SlotsOf, IsTable
<1>2. Live(t) \subseteq SlotsOf(t.cap) /\ Tombs(t) \subseteq SlotsOf(t.cap)
  BY DEF Live, Tombs
<1> QED BY <1>1, <1>2, FS_Subset, FS_CardinalityType

\* fd is stored with c in slot i.
Placed(t, i, fd, c) ==
  [t EXCEPT !.keys[i] = fd, !.vals[i] = c, !.size = @ + 1,
            !.tombs = IF t.keys[i] = TOMB THEN @ - 1 ELSE @]

LEMMA PlacedFields ==
  ASSUME NEW t, IsTable(t), NEW i, NEW fd, NEW c
  PROVE  LET u == Placed(t, i, fd, c)
         IN  /\ u = [keys |-> u.keys, vals |-> u.vals, cap |-> u.cap, size |-> u.size,
                     tombs |-> u.tombs]
             /\ u.keys = [t.keys EXCEPT ![i] = fd] /\ u.vals = [t.vals EXCEPT ![i] = c]
             /\ u.cap = t.cap /\ u.size = t.size + 1
             /\ u.tombs = IF t.keys[i] = TOMB THEN t.tombs - 1 ELSE t.tombs
<1> DEFINE ks == t.keys
           vs == t.vals
           cp == t.cap
           sz == t.size
           tb == t.tombs
<1>1. t = [keys |-> ks, vals |-> vs, cap |-> cp, size |-> sz, tombs |-> tb]
  BY DEF IsTable
<1> HIDE DEF ks, vs, cp, sz, tb
<1>2. /\ t.keys = ks /\ t.vals = vs /\ t.cap = cp /\ t.size = sz /\ t.tombs = tb
  BY <1>1
<1> DEFINE nk == [ks EXCEPT ![i] = fd]
           nv == [vs EXCEPT ![i] = c]
           nt == IF ks[i] = TOMB THEN tb - 1 ELSE tb
           u == Placed(t, i, fd, c)
<1>3. u = [[[[t EXCEPT !.keys = nk] EXCEPT !.vals = nv] EXCEPT !.size = sz + 1] EXCEPT !.tombs = nt]
  BY <1>1, <1>2 DEF Placed
<1> HIDE DEF nk, nv, nt, u
<1>4. u = [keys |-> nk, vals |-> nv, cap |-> cp, size |-> sz + 1, tombs |-> nt]
  BY <1>1, <1>3
<1>5. u.keys = nk /\ u.vals = nv /\ u.cap = cp /\ u.size = sz + 1 /\ u.tombs = nt
  BY <1>4
<1> QED BY <1>2, <1>4, <1>5 DEF u, nk, nv, nt

\* A new key goes to a slot without a key up to which no slot of its way is empty.
LEMMA PlacedSane ==
  ASSUME ConstantsOK, NEW t, Sane(t), NEW fd \in Fds, NEW c \in Conns,
         NEW n \in SlotsOf(t.cap), ~Has(t, fd),
         t.keys[Probe(fd, n, t.cap)] \notin Fds,
         \A m \in SlotsOf(t.cap) : m < n => t.keys[Probe(fd, m, t.cap)] # EMPTY,
         t.size + t.tombs + 1 < t.cap
  PROVE  LET u == Placed(t, Probe(fd, n, t.cap), fd, c)
         IN  /\ Sane(u) /\ Maps(u, fd, c)
             /\ \A g \in Fds : \A d : g # fd => (Maps(u, g, d) <=> Maps(t, g, d))
<1> DEFINE i == Probe(fd, n, t.cap)
           u == Placed(t, i, fd, c)
<1>1. IsTable(t)
  BY DEF Sane
<1>2. i \in SlotsOf(t.cap) /\ i \notin Live(t)
  BY <1>1, SlotsOfTable DEF Live
<1>3. /\ u = [keys |-> u.keys, vals |-> u.vals, cap |-> u.cap, size |-> u.size,
              tombs |-> u.tombs]
      /\ u.keys = [t.keys EXCEPT ![i] = fd] /\ u.vals = [t.vals EXCEPT ![i] = c]
      /\ u.cap = t.cap /\ u.size = t.size + 1
      /\ u.tombs = IF t.keys[i] = TOMB THEN t.tombs - 1 ELSE t.tombs
  BY <1>1, PlacedFields
<1> HIDE DEF u
<1>4. IsTable(u)
  <2>1. /\ [t.keys EXCEPT ![i] = fd] \in [SlotsOf(t.cap) -> Fds \cup {EMPTY, TOMB}]
        /\ [t.vals EXCEPT ![i] = c] \in [SlotsOf(t.cap) -> Conns \cup {NoConn}]
    BY <1>1 DEF IsTable
  <2> QED BY <1>1, <1>3, <2>1, Zenon DEF IsTable
<1>5. \A j \in SlotsOf(t.cap) : /\ u.keys[j] = IF j = i THEN fd ELSE t.keys[j]
                              /\ u.vals[j] = IF j = i THEN c ELSE t.vals[j]
  BY <1>1, <1>3 DEF IsTable
<1>6. \A j \in SlotsOf(t.cap) : u.keys[j] \in Fds => u.vals[j] \in Conns
  BY <1>5 DEF Sane
<1>7. Sound(u.keys, u.cap)
  <2> SUFFICES ASSUME NEW g \in Fds, NEW m \in SlotsOf(t.cap), NEW k \in SlotsOf(t.cap),
                      u.keys[Probe(g, k, t.cap)] = g, m < k
               PROVE  u.keys[Probe(g, m, t.cap)] \notin {EMPTY, g}
    BY <1>3 DEF Sound
  <2>1. Probe(g, k, t.cap) \in SlotsOf(t.cap) /\ Probe(g, m, t.cap) \in SlotsOf(t.cap)
    BY <1>1, SlotsOfTable
  <2>2. g # EMPTY /\ fd # EMPTY
    BY <1>1, SlotsOfTable
  <2>3. CASE g = fd
    <3>1. Probe(fd, k, t.cap) = i
      BY <1>5, <2>1, <2>3 DEF Has
    <3>2. k = n
      BY <1>1, <3>1, SlotsOfTable
    <3>3. Probe(fd, m, t.cap) # i
      <4>1. m # k
        BY DEF SlotsOf
      <4> QED BY <1>1, <3>1, <4>1, SlotsOfTable, Zenon
    <3> QED BY <1>5, <2>1, <2>3, <3>2, <3>3 DEF Has
  <2>4. CASE g # fd
    <3>1. t.keys[Probe(g, k, t.cap)] = g
      BY <1>5, <2>1, <2>4
    <3>2. t.keys[Probe(g, m, t.cap)] \notin {EMPTY, g}
      BY <3>1 DEF Sane, Sound
    <3> QED BY <1>5, <2>1, <2>2, <2>4, <3>2
  <2> QED BY <2>3, <2>4
<1>8. u.size = Cardinality(Live(u))
  <2>1. Live(u) = Live(t) \cup {i}
    BY <1>2, <1>3, <1>5 DEF Live
  <2>2. Cardinality(Live(t) \cup {i}) = Cardinality(Live(t)) + 1
    BY <1>1, <1>2, Counting, FS_AddElement, Zenon
  <2> QED BY <1>3, <2>1, <2>2 DEF Sane
<1>9. u.tombs = Cardinality(Tombs(u)) /\ u.tombs <= t.tombs
  <2>1. fd # TOMB
    BY <1>1, SlotsOfTable
  <2>2. Tombs(u) = Tombs(t) \ {i}
    BY <1>2, <1>3, <1>5, <2>1 DEF Tombs
  <2>3. t.tombs = Cardinality(Tombs(t)) /\ t.tombs \in Nat
    BY <1>1, Counting DEF Sane
  <2>4. CASE t.keys[i] = TOMB
    <3>1. i \in Tombs(t)
      BY <1>2, <2>4 DEF Tombs
    <3>2. Cardinality(Tombs(t) \ {i}) = Cardinality(Tombs(t)) - 1
      BY <1>1, <3>1, Counting, FS_RemoveElement, Zenon
    <3> QED BY <1>3, <2>2, <2>3, <2>4, <3>2
  <2>5. CASE t.keys[i] # TOMB
    <3>1. Tombs(t) \ {i} = Tombs(t)
      BY <2>5 DEF Tombs
    <3>2. u.tombs = t.tombs
      BY <1>3, <2>5
    <3> QED BY <2>2, <2>3, <3>1, <3>2
  <2> QED BY <2>4, <2>5
<1>10. t.size \in Nat /\ t.tombs \in Nat /\ u.tombs \in Nat /\ t.cap \in Nat
  BY <1>1, <1>4, <1>9, Counting DEF Sane, IsTable
<1>11. Sane(u)
  BY <1>3, <1>4, <1>6, <1>7, <1>8, <1>9, <1>10 DEF Sane
<1>12. Maps(u, fd, c)
  BY <1>2, <1>3, <1>5 DEF Maps
<1>13. ASSUME NEW g \in Fds, NEW d, g # fd PROVE Maps(u, g, d) <=> Maps(t, g, d)
  BY <1>2, <1>3, <1>5, <1>13 DEF Maps
<1> QED BY <1>11, <1>12, <1>13 DEF u

\* conn_store_put replaces the value of a key that is there.
LEMMA ReplacedSane ==
  ASSUME ConstantsOK, NEW t, Sane(t), NEW fd \in Fds, NEW c \in Conns,
         NEW i \in SlotsOf(t.cap), t.keys[i] = fd
  PROVE  LET u == [t EXCEPT !.vals[i] = c]
         IN  /\ Sane(u) /\ Maps(u, fd, c)
             /\ \A g \in Fds : \A d : g # fd => (Maps(u, g, d) <=> Maps(t, g, d))
<1> DEFINE u == [t EXCEPT !.vals[i] = c]
<1>1. IsTable(t)
  BY DEF Sane
<1>2. /\ u = [keys |-> u.keys, vals |-> u.vals, cap |-> u.cap, size |-> u.size,
              tombs |-> u.tombs]
      /\ u.keys = t.keys /\ u.vals = [t.vals EXCEPT ![i] = c]
      /\ u.cap = t.cap /\ u.size = t.size /\ u.tombs = t.tombs
  <2> DEFINE ks == t.keys
             vs == t.vals
             cp == t.cap
             sz == t.size
             tb == t.tombs
  <2>1. t = [keys |-> ks, vals |-> vs, cap |-> cp, size |-> sz, tombs |-> tb]
    BY <1>1 DEF IsTable
  <2> HIDE DEF ks, vs, cp, sz, tb
  <2>2. /\ t.keys = ks /\ t.vals = vs /\ t.cap = cp /\ t.size = sz /\ t.tombs = tb
    BY <2>1
  <2> QED BY <2>1, <2>2
<1> HIDE DEF u
<1>3. \A j \in SlotsOf(t.cap) : u.vals[j] = IF j = i THEN c ELSE t.vals[j]
  BY <1>1, <1>2 DEF IsTable
<1>4. IsTable(u)
  BY <1>1, <1>2 DEF IsTable
<1>5. Live(u) = Live(t) /\ Tombs(u) = Tombs(t)
  BY <1>2 DEF Live, Tombs
<1>6. Sane(u)
  BY <1>2, <1>3, <1>4, <1>5 DEF Sane
<1>7. Maps(u, fd, c)
  BY <1>2, <1>3 DEF Maps
<1>8. ASSUME NEW g \in Fds, NEW d, g # fd PROVE Maps(u, g, d) <=> Maps(t, g, d)
  BY <1>2, <1>3, <1>8 DEF Maps
<1> QED BY <1>6, <1>7, <1>8 DEF u

\* There is an empty slot, so every search ends.
LEMMA EmptySlot ==
  ASSUME ConstantsOK, NEW t, Sane(t)
  PROVE  /\ \E i \in SlotsOf(t.cap) : t.keys[i] = EMPTY
         /\ \A fd \in Fds : EndsOf(t, fd) # {}
<1>1. IsTable(t) /\ t.cap \in Nat /\ t.cap > 0
  BY DEF Sane, IsTable
<1>2. PICK i \in SlotsOf(t.cap) : t.keys[i] = EMPTY
  <2> SUFFICES ASSUME \A i \in SlotsOf(t.cap) : t.keys[i] # EMPTY PROVE FALSE
    OBVIOUS
  <2>1. SlotsOf(t.cap) = Live(t) \cup Tombs(t)
    BY <1>1 DEF Live, Tombs, IsTable
  <2>2. TOMB \notin Fds
    BY DEF ConstantsOK, TOMB
  <2>3. Live(t) \cap Tombs(t) = {}
    BY <2>2 DEF Live, Tombs
  <2>4. Cardinality(SlotsOf(t.cap)) = t.cap
    BY <1>1, FS_Interval DEF SlotsOf
  <2>5. Cardinality(Live(t) \cup Tombs(t)) = Cardinality(Live(t)) + Cardinality(Tombs(t))
    <3>1. Cardinality({}) = 0
      BY FS_EmptySet
    <3>2. Cardinality(Live(t) \cup Tombs(t))
            = Cardinality(Live(t)) + Cardinality(Tombs(t)) - Cardinality(Live(t) \cap Tombs(t))
      BY <1>1, Counting, FS_Union
    <3>3. Cardinality(Live(t)) \in Nat /\ Cardinality(Tombs(t)) \in Nat
      BY <1>1, Counting
    <3>4. Cardinality(Live(t) \cap Tombs(t)) = 0
      BY <2>3, <3>1
    <3> QED BY <3>2, <3>3, <3>4
  <2> QED BY <1>1, <2>1, <2>4, <2>5 DEF Sane
<1>3. ASSUME NEW fd \in Fds PROVE EndsOf(t, fd) # {}
  <2>1. PICK n \in SlotsOf(t.cap) : Probe(fd, n, t.cap) = i
    BY <1>1, SlotsOfTable
  <2> QED BY <1>2, <2>1 DEF EndsOf, Ends
<1> QED BY <1>2, <1>3

\* The probing part of conn_store_put keeps the table sound, stores the key and
\* leaves what is stored under the others.
LEMMA StoredSane ==
  ASSUME ConstantsOK, NEW t, Sane(t), NEW fd \in Fds, NEW c \in Conns,
         t.size + t.tombs + 1 < t.cap
  PROVE  LET u == Stored(t, fd, c)
         IN  /\ Sane(u) /\ Maps(u, fd, c)
             /\ \A g \in Fds : \A d : g # fd => (Maps(u, g, d) <=> Maps(t, g, d))
<1> DEFINE end == EndOf(t, fd)
           e == Min(EndsOf(t, fd))
<1>1. IsTable(t) /\ t.cap \in Nat /\ t.cap > 0
  BY DEF Sane, IsTable
<1>2. First(fd, t.keys, t.cap, LAMBDA k : Ends(fd, k)) = end
  BY DEF First, Meets, EndOf, EndsOf
<1>3. Stored(t, fd, c) = IF t.keys[end] = fd THEN [t EXCEPT !.vals[end] = c]
                         ELSE Insert(t, fd, c, end)
  BY <1>2, Zenon DEF Stored
<1>4. EndsOf(t, fd) \in SUBSET SlotsOf(t.cap) /\ EndsOf(t, fd) # {}
  BY EmptySlot DEF EndsOf
<1>5. /\ e \in EndsOf(t, fd) /\ e \in SlotsOf(t.cap)
      /\ \A m \in SlotsOf(t.cap) : m < e => m \notin EndsOf(t, fd)
  BY <1>1, <1>4, FirstOf
<1>6. end = Probe(fd, e, t.cap) /\ end \in SlotsOf(t.cap)
  BY <1>1, <1>5, SlotsOfTable DEF EndOf
<1>7. /\ t.keys[end] = fd \/ t.keys[end] = EMPTY
      /\ \A m \in SlotsOf(t.cap) : m < e => t.keys[Probe(fd, m, t.cap)] # EMPTY
  BY <1>5, <1>6 DEF EndsOf, Ends
<1>8. CASE t.keys[end] = fd
  <2>1. Stored(t, fd, c) = [t EXCEPT !.vals[end] = c]
    BY <1>3, <1>8
  <2> HIDE DEF end
  <2> QED BY <1>6, <1>8, <2>1, ReplacedSane
<1>9. CASE t.keys[end] # fd
  <2>1. ~Has(t, fd)
    BY <1>1, <1>9, SearchFinds DEF Has, Sane
  <2> DEFINE T == {n \in SlotsOf(t.cap) : t.keys[Probe(fd, n, t.cap)] = TOMB /\ n < e}
             p == IF T = {} THEN e ELSE Min(T)
             i == Probe(fd, p, t.cap)
  <2>2. T \in SUBSET SlotsOf(t.cap)
    OBVIOUS
  <2>3. Meets(fd, t.keys, t.cap, LAMBDA k : k = EMPTY) = EndsOf(t, fd)
    <3>1. \A n \in SlotsOf(t.cap) : t.keys[Probe(fd, n, t.cap)] # fd
      BY <1>1, <2>1, SlotsOfTable DEF Has
    <3> QED BY <3>1 DEF Meets, EndsOf, Ends
  <2>4. {n \in Meets(fd, t.keys, t.cap, LAMBDA k : k = TOMB) :
           n < Min(Meets(fd, t.keys, t.cap, LAMBDA k : k = EMPTY))} = T
    BY <2>3, Zenon DEF Meets
  <2>5. /\ p \in SlotsOf(t.cap) /\ (p = e \/ p < e)
        /\ t.keys[i] = IF T = {} THEN EMPTY ELSE TOMB
    <3>1. CASE T = {}
      BY <1>5, <1>6, <1>7, <1>9, <3>1
    <3>2. CASE T # {}
      <4>1. Min(T) \in T
        BY <1>1, <2>2, <3>2, FirstOf, Zenon
      <4> QED BY <3>2, <4>1
    <3> QED BY <3>1, <3>2
  <2> HIDE DEF T, p
  <2>6. EMPTY # TOMB /\ EMPTY \notin Fds /\ TOMB \notin Fds
    BY <1>1, SlotsOfTable
  <2>7. Insert(t, fd, c, end) = Placed(t, i, fd, c)
    <3>1. (IF T = {} THEN end ELSE Probe(fd, Min(T), t.cap)) = i
      BY <1>6 DEF p
    <3>2. T = {} <=> t.keys[i] # TOMB
      BY <2>5, <2>6
    <3> HIDE DEF end, i
    <3>3. Insert(t, fd, c, end) =
            [t EXCEPT !.keys[i] = fd, !.vals[i] = c, !.size = @ + 1,
                      !.tombs = IF T = {} THEN @ ELSE @ - 1]
      BY <2>4, <3>1, Zenon DEF Insert
    <3> QED BY <3>2, <3>3, Zenon DEF Placed
  <2>8. \A m \in SlotsOf(t.cap) : m < p => t.keys[Probe(fd, m, t.cap)] # EMPTY
    <3>1. p \in Nat /\ e \in Nat /\ \A m \in SlotsOf(t.cap) : m \in Nat
      BY <1>5, <2>5 DEF SlotsOf
    <3>2. \A m \in SlotsOf(t.cap) : m < p => m < e
      BY <2>5, <3>1
    <3> QED BY <1>7, <3>2
  <2>9. t.keys[i] \notin Fds
    BY <2>5, <2>6
  <2>10. Stored(t, fd, c) = Placed(t, i, fd, c)
    BY <1>3, <1>9, <2>7
  <2> QED BY <2>1, <2>5, <2>8, <2>9, <2>10, PlacedSane
<1> QED BY <1>8, <1>9

\* A deletion leaves a tombstone, over which the searches for other keys go.
LEMMA DeletedSane ==
  ASSUME ConstantsOK, NEW t, Sane(t), NEW fd \in Fds, NEW i \in SlotsOf(t.cap), t.keys[i] = fd,
         NEW u, u = [keys |-> [t.keys EXCEPT ![i] = TOMB], vals |-> [t.vals EXCEPT ![i] = NoConn],
                     cap |-> t.cap, size |-> t.size - 1, tombs |-> t.tombs + 1]
  PROVE  /\ Sane(u) /\ ~Has(u, fd)
         /\ \A g \in Fds : \A d : g # fd => (Maps(u, g, d) <=> Maps(t, g, d))
<1>1. IsTable(t)
  BY DEF Sane
<1>2. /\ u = [keys |-> u.keys, vals |-> u.vals, cap |-> u.cap, size |-> u.size,
              tombs |-> u.tombs]
      /\ u.keys = [t.keys EXCEPT ![i] = TOMB] /\ u.vals = [t.vals EXCEPT ![i] = NoConn]
      /\ u.cap = t.cap /\ u.size = t.size - 1 /\ u.tombs = t.tombs + 1
  OBVIOUS
<1>3. \A j \in SlotsOf(t.cap) : /\ u.keys[j] = IF j = i THEN TOMB ELSE t.keys[j]
                              /\ u.vals[j] = IF j = i THEN NoConn ELSE t.vals[j]
  BY <1>1, <1>2 DEF IsTable
<1>4. IsTable(u)
  BY <1>1, <1>2 DEF IsTable
<1>5. TOMB \notin Fds /\ TOMB # EMPTY
  BY <1>1, SlotsOfTable
<1>6. \A j \in SlotsOf(t.cap) : u.keys[j] \in Fds => u.vals[j] \in Conns
  BY <1>3, <1>5 DEF Sane
<1>7. Sound(u.keys, u.cap)
  <2> SUFFICES ASSUME NEW g \in Fds, NEW m \in SlotsOf(t.cap), NEW k \in SlotsOf(t.cap),
                      u.keys[Probe(g, k, t.cap)] = g, m < k
               PROVE  u.keys[Probe(g, m, t.cap)] \notin {EMPTY, g}
    BY <1>2 DEF Sound
  <2>1. Probe(g, k, t.cap) \in SlotsOf(t.cap) /\ Probe(g, m, t.cap) \in SlotsOf(t.cap)
    BY <1>1, SlotsOfTable
  <2>2. t.keys[Probe(g, k, t.cap)] = g
    <3>1. u.keys[Probe(g, k, t.cap)] = IF Probe(g, k, t.cap) = i THEN TOMB ELSE t.keys[Probe(g, k, t.cap)]
      BY <1>3, <2>1, Zenon
    <3>2. Probe(g, k, t.cap) # i
      BY <1>5, <3>1, Zenon
    <3> QED BY <3>1, <3>2, Zenon
  <2>3. t.keys[Probe(g, m, t.cap)] \notin {EMPTY, g}
    BY <2>2 DEF Sane, Sound
  <2> QED BY <1>3, <1>5, <2>1, <2>3
<1>8. i \in Live(t) /\ i \notin Tombs(t)
  BY <1>5 DEF Live, Tombs
<1>9. u.size = Cardinality(Live(u))
  <2>1. Live(u) = Live(t) \ {i}
    BY <1>2, <1>3, <1>5 DEF Live
  <2>2. Cardinality(Live(t) \ {i}) = Cardinality(Live(t)) - 1
    BY <1>1, <1>8, Counting, FS_RemoveElement, Zenon
  <2> QED BY <1>2, <2>1, <2>2, Zenon DEF Sane
<1>10. u.tombs = Cardinality(Tombs(u))
  <2>1. Tombs(u) = Tombs(t) \cup {i}
    BY <1>2, <1>3 DEF Tombs
  <2>2. Cardinality(Tombs(t) \cup {i}) = Cardinality(Tombs(t)) + 1
    BY <1>1, <1>8, Counting, FS_AddElement, Zenon
  <2> QED BY <1>2, <2>1, <2>2 DEF Sane
<1>11. t.size \in Nat /\ t.tombs \in Nat /\ t.cap \in Nat
  BY <1>1, Counting DEF Sane, IsTable
<1>12. u.size + u.tombs < u.cap
  BY <1>2, <1>11 DEF Sane
<1>13. Sane(u)
  BY <1>2, <1>4, <1>6, <1>7, <1>9, <1>10, <1>12 DEF Sane
<1>14. ~Has(u, fd)
  <2>1. \A j \in SlotsOf(t.cap) : t.keys[j] = fd => j = i
    BY <1>1, GotIsStored DEF Sane
  <2> QED BY <1>2, <1>3, <1>5, <2>1 DEF Has
<1>15. ASSUME NEW g \in Fds, NEW d, g # fd PROVE Maps(u, g, d) <=> Maps(t, g, d)
  BY <1>2, <1>3, <1>5, <1>15 DEF Maps
<1> QED BY <1>13, <1>14, <1>15

-----------------------------------------------------------------------------
(* Growth *)

\* What fm_resize has made after the first i slots: r, read as a table.
AsTable(r) ==
  [keys |-> r.keys, vals |-> r.vals, cap |-> 2 * fd_cap, size |-> r.size, tombs |-> 0]
Moved(i, r) ==
  /\ r = [keys |-> r.keys, vals |-> r.vals, size |-> r.size]
  /\ Sane(AsTable(r)) /\ r.size <= i
  /\ \A fd \in Fds : \A d :
       Maps(AsTable(r), fd, d) <=> \E j \in 0 .. i - 1 : fd_keys[j] = fd /\ fd_vals[j] = d

\* Only the marks of empty and deleted slots are negative.
LEMMA KeySign ==
  ASSUME ConstantsOK, NEW k \in Fds \cup {EMPTY, TOMB}
  PROVE  k < 0 <=> k \notin Fds
<1>1. CASE k \in Fds
  <2>1. k \in Nat
    BY <1>1 DEF ConstantsOK
  <2>2. ~(k < 0)
    BY <2>1
  <2> QED BY <1>1, <2>2
<1>2. CASE k \notin Fds
  <2>1. k = EMPTY \/ k = TOMB
    BY <1>2
  <2>2. k < 0
    BY <2>1 DEF EMPTY, TOMB
  <2> QED BY <1>2, <2>2
<1> QED BY <1>1, <1>2

LEMMA TableFields ==
  ASSUME ConstantsOK, Sane(Table)
  PROVE  /\ fd_cap \in Nat /\ fd_cap > 1
         /\ fd_keys \in [SlotsOf(fd_cap) -> Fds \cup {EMPTY, TOMB}]
         /\ fd_vals \in [SlotsOf(fd_cap) -> Conns \cup {NoConn}]
         /\ \A i \in SlotsOf(fd_cap) : fd_keys[i] \in Fds => fd_vals[i] \in Conns
         /\ \A i \in SlotsOf(fd_cap) : fd_keys[i] < 0 <=> fd_keys[i] \notin Fds
         /\ \A i, j \in SlotsOf(fd_cap) : fd_keys[i] \in Fds /\ fd_keys[j] = fd_keys[i] => i = j
         /\ \A fd, d : Maps(Table, fd, d) <=>
                         \E j \in 0 .. fd_cap - 1 : fd_keys[j] = fd /\ fd_vals[j] = d
<1>1. /\ Table.keys = fd_keys /\ Table.vals = fd_vals /\ Table.cap = fd_cap
  BY DEF Table
<1>2. IsTable(Table)
  BY DEF Sane
<1>3. /\ fd_cap \in Nat /\ fd_cap > 1
      /\ fd_keys \in [SlotsOf(fd_cap) -> Fds \cup {EMPTY, TOMB}]
      /\ fd_vals \in [SlotsOf(fd_cap) -> Conns \cup {NoConn}]
  BY <1>1, <1>2 DEF IsTable
<1>4. \A i \in SlotsOf(fd_cap) : fd_keys[i] \in Fds => fd_vals[i] \in Conns
  BY <1>1 DEF Sane
<1>5. ASSUME NEW i \in SlotsOf(fd_cap) PROVE fd_keys[i] < 0 <=> fd_keys[i] \notin Fds
  <2>1. fd_keys[i] \in Fds \cup {EMPTY, TOMB}
    BY <1>3
  <2> QED BY <2>1, KeySign
<1>6. \A i, j \in SlotsOf(fd_cap) : fd_keys[i] \in Fds /\ fd_keys[j] = fd_keys[i] => i = j
  BY <1>1, <1>2, GotIsStored DEF Sane
<1>7. \A fd, d : Maps(Table, fd, d) <=>
                   \E j \in 0 .. fd_cap - 1 : fd_keys[j] = fd /\ fd_vals[j] = d
  BY <1>1 DEF Maps, SlotsOf
<1> QED BY <1>3, <1>4, <1>5, <1>6, <1>7

LEMMA NothingMoved ==
  ASSUME ConstantsOK, Sane(Table)
  PROVE  Moved(0, Blank(2 * fd_cap))
<1> DEFINE r == Blank(2 * fd_cap)
           t == AsTable(r)
<1>1. fd_cap \in Nat /\ fd_cap > 1
  BY TableFields
<1>2. r = [keys |-> r.keys, vals |-> r.vals, size |-> r.size] /\ r.size = 0
  BY Zenon DEF Blank
<1>3. /\ t.cap = 2 * fd_cap /\ t.size = 0 /\ t.tombs = 0
      /\ t.keys = [i \in SlotsOf(2 * fd_cap) |-> EMPTY]
      /\ t.vals = [i \in SlotsOf(2 * fd_cap) |-> NoConn]
      /\ t = [keys |-> t.keys, vals |-> t.vals, cap |-> t.cap, size |-> t.size, tombs |-> t.tombs]
  BY DEF Blank, AsTable
<1> HIDE DEF t, r
<1>4. IsTable(t)
  BY <1>1, <1>3 DEF IsTable
<1>5. EMPTY \notin Fds /\ EMPTY # TOMB
  BY DEF ConstantsOK, EMPTY, TOMB
<1>6. \A i \in SlotsOf(t.cap) : t.keys[i] = EMPTY
  BY <1>3
<1>7. Live(t) = {} /\ Tombs(t) = {}
  BY <1>5, <1>6 DEF Live, Tombs
<1>8. Cardinality({}) = 0
  BY FS_EmptySet
<1>9. Sound(t.keys, t.cap)
  <2> SUFFICES ASSUME NEW fd \in Fds, NEW n \in SlotsOf(t.cap)
               PROVE  t.keys[Probe(fd, n, t.cap)] # fd
    BY DEF Sound
  <2> QED BY <1>4, <1>5, <1>6, SlotsOfTable
<1>10. Sane(t)
  BY <1>1, <1>3, <1>4, <1>5, <1>6, <1>7, <1>8, <1>9 DEF Sane
<1>11. \A fd \in Fds : \A d : ~Maps(t, fd, d)
  BY <1>5, <1>6 DEF Maps
<1>12. 0 .. 0 - 1 = {}
  OBVIOUS
<1> QED BY <1>2, <1>10, <1>11, <1>12 DEF Moved, r, t

LEMMA MovesOne ==
  ASSUME ConstantsOK, Sane(Table), NEW i \in 0 .. fd_cap - 1, NEW r, Moved(i, r)
  PROVE  Moved(i + 1, Rehash(r, i, 2 * fd_cap))
<1> DEFINE cap == 2 * fd_cap
           t == AsTable(r)
           fd == fd_keys[i]
           c == fd_vals[i]
<1>1. /\ fd_cap \in Nat /\ fd_cap > 1 /\ i \in SlotsOf(fd_cap)
      /\ fd < 0 <=> fd \notin Fds
      /\ fd \in Fds => c \in Conns
  BY TableFields DEF SlotsOf
<1>2. /\ t.keys = r.keys /\ t.vals = r.vals /\ t.cap = cap /\ t.size = r.size /\ t.tombs = 0
      /\ Sane(t) /\ r.size <= i
      /\ r = [keys |-> r.keys, vals |-> r.vals, size |-> r.size]
  BY DEF Moved, AsTable
<1>3. IsTable(t) /\ cap \in Nat /\ cap > 0
  BY <1>1, <1>2 DEF Sane
<1>4. r.size \in Nat /\ i \in Nat
  BY <1>2, <1>3, Counting DEF Sane
<1>5. 0 .. (i + 1) - 1 = (0 .. i - 1) \cup {i}
  BY <1>4
<1>6. \A g \in Fds : \A d : Maps(t, g, d) <=> \E j \in 0 .. i - 1 : fd_keys[j] = g /\ fd_vals[j] = d
  BY DEF Moved
<1>7. CASE fd \notin Fds
  <2>1. Rehash(r, i, cap) = r
    BY <1>1, <1>7 DEF Rehash
  <2>2. \A g \in Fds : \A d : Maps(t, g, d) <=>
          \E j \in 0 .. (i + 1) - 1 : fd_keys[j] = g /\ fd_vals[j] = d
    BY <1>5, <1>6, <1>7
  <2> QED BY <1>2, <1>4, <2>1, <2>2 DEF Moved
<1>8. CASE fd \in Fds
  <2> DEFINE S == {n \in SlotsOf(cap) : r.keys[Probe(fd, n, cap)] < 0}
             n == Min(S)
             j == Probe(fd, n, cap)
             s == Rehash(r, i, cap)
             u == Placed(t, j, fd, c)
  <2>1. s = [r EXCEPT !.keys[j] = fd, !.vals[j] = c, !.size = @ + 1]
    BY <1>1, <1>8 DEF Rehash, First, Meets
  <2>2. \A k \in SlotsOf(cap) : r.keys[k] < 0 <=> r.keys[k] \notin Fds
    <3> SUFFICES ASSUME NEW k \in SlotsOf(cap) PROVE r.keys[k] < 0 <=> r.keys[k] \notin Fds
      OBVIOUS
    <3>1. r.keys[k] \in Fds \cup {EMPTY, TOMB}
      BY <1>2, <1>3 DEF IsTable
    <3> QED BY <3>1, KeySign
  <2>3. EMPTY \notin Fds /\ \A k \in SlotsOf(cap) : Probe(fd, k, cap) \in SlotsOf(cap)
    BY <1>2, <1>3, <1>8, SlotsOfTable, Zenon
  <2>4. S # {}
    <3>1. PICK k \in SlotsOf(cap) : r.keys[k] = EMPTY
      BY <1>2, EmptySlot
    <3>2. PICK m \in SlotsOf(cap) : Probe(fd, m, cap) = k
      <4>1. \A l \in SlotsOf(t.cap) : \E m \in SlotsOf(t.cap) : Probe(fd, m, t.cap) = l
        BY <1>3, <1>8, SlotsOfTable, Zenon
      <4> QED BY <1>2, <4>1
    <3> QED BY <2>2, <2>3, <3>1, <3>2
  <2>5. /\ n \in S /\ n \in SlotsOf(cap)
        /\ \A m \in SlotsOf(cap) : m < n => m \notin S
    BY <1>3, <2>4, FirstOf, Zenon
  <2>6. /\ j \in SlotsOf(cap) /\ t.keys[j] \notin Fds
        /\ \A m \in SlotsOf(cap) : m < n => t.keys[Probe(fd, m, cap)] # EMPTY
    BY <1>2, <2>2, <2>3, <2>5
  <2> HIDE DEF n
  <2>7. ~Has(t, fd)
    <3> SUFFICES ASSUME Has(t, fd) PROVE FALSE
      OBVIOUS
    <3>1. PICK d : Maps(t, fd, d)
      BY DEF Has, Maps
    <3>2. PICK k \in 0 .. i - 1 : fd_keys[k] = fd
      BY <1>6, <1>8, <3>1
    <3>3. k \in SlotsOf(fd_cap) /\ k # i
      BY <1>1, <1>4 DEF SlotsOf
    <3> QED BY <1>1, <1>8, <3>2, <3>3, TableFields
  <2>8. t.size + t.tombs + 1 < t.cap
    BY <1>1, <1>2, <1>4
  <2>9. /\ Sane(u) /\ Maps(u, fd, c)
        /\ \A g \in Fds : \A d : g # fd => (Maps(u, g, d) <=> Maps(t, g, d))
    BY <1>1, <1>2, <1>8, <2>5, <2>6, <2>7, <2>8, PlacedSane, ZenonT(30)
  <2>10. t.keys[j] # TOMB
    <3>1. Tombs(t) = {}
      BY <1>2, <1>3, Counting, FS_EmptySet DEF Sane
    <3> QED BY <1>2, <2>6, <3>1 DEF Tombs
  <2> HIDE DEF j
  <2>11. /\ s = [keys |-> s.keys, vals |-> s.vals, size |-> s.size]
         /\ s.keys = [r.keys EXCEPT ![j] = fd] /\ s.vals = [r.vals EXCEPT ![j] = c]
         /\ s.size = r.size + 1
    <3> DEFINE ks == r.keys
               vs == r.vals
               sz == r.size
               nk == [ks EXCEPT ![j] = fd]
               nv == [vs EXCEPT ![j] = c]
    <3>1. r = [keys |-> ks, vals |-> vs, size |-> sz]
      BY <1>2
    <3> HIDE DEF ks, vs, sz
    <3>2. r.keys = ks /\ r.vals = vs /\ r.size = sz
      BY <3>1
    <3>3. s = [[[r EXCEPT !.keys = nk] EXCEPT !.vals = nv] EXCEPT !.size = sz + 1]
      BY <2>1, <3>1, <3>2
    <3> HIDE DEF nk, nv, s
    <3>4. s = [keys |-> nk, vals |-> nv, size |-> sz + 1]
      BY <3>1, <3>3
    <3>5. s.keys = nk /\ s.vals = nv /\ s.size = sz + 1
      BY <3>4
    <3> QED BY <3>2, <3>4, <3>5 DEF nk, nv
  <2> HIDE DEF s
  <2>12. AsTable(s) = u
    <3>1. /\ u = [keys |-> u.keys, vals |-> u.vals, cap |-> u.cap, size |-> u.size,
                  tombs |-> u.tombs]
          /\ u.keys = [t.keys EXCEPT ![j] = fd] /\ u.vals = [t.vals EXCEPT ![j] = c]
          /\ u.cap = t.cap /\ u.size = t.size + 1
          /\ u.tombs = IF t.keys[j] = TOMB THEN t.tombs - 1 ELSE t.tombs
      <4>1. j \in SlotsOf(t.cap)
        BY <1>2, <2>6
      <4> QED BY <1>3, <4>1, PlacedFields
    <3>2. u.tombs = 0
      BY <1>2, <2>10, <3>1
    <3> QED BY <1>2, <2>11, <3>1, <3>2, Zenon DEF AsTable
  <2>13. \A d : Maps(u, fd, d) <=> d = c
    <3>1. IsTable(u) /\ Sound(u.keys, u.cap)
      BY <2>9, Zenon DEF Sane
    <3>2. \A d : Maps(u, fd, d) => Got(u, fd) = d
      BY <1>8, <3>1, GotIsStored
    <3> QED BY <2>9, <3>2, Zenon
  <2>14. ASSUME NEW g \in Fds, NEW d
         PROVE  Maps(u, g, d) <=> \E k \in 0 .. (i + 1) - 1 : fd_keys[k] = g /\ fd_vals[k] = d
    <3>1. CASE g = fd
      <4>1. \A k \in 0 .. i - 1 : fd_keys[k] # fd
        <5>1. \A d_1 : ~Maps(t, fd, d_1)
          BY <2>7, Zenon DEF Has, Maps
        <5> QED BY <1>6, <1>8, <5>1, Zenon
      <4> QED BY <1>5, <2>13, <3>1, <4>1
    <3>2. CASE g # fd
      BY <1>5, <1>6, <2>9, <3>2
    <3> QED BY <3>1, <3>2
  <2>15. s.size <= i + 1
    BY <1>2, <1>4, <2>11
  <2> QED BY <2>9, <2>11, <2>12, <2>14, <2>15 DEF Moved, s
<1> QED BY <1>7, <1>8

\* The functions by which Resized visits the first n slots.
Visits(n, f) ==
  f = [i \in 0 .. n |-> IF i = 0 THEN Blank(2 * fd_cap)
                        ELSE Rehash(f[i - 1], i - 1, 2 * fd_cap)]

LEMMA CanVisit ==
  ASSUME NEW N \in Nat
  PROVE  \E f : Visits(N, f)
<1> DEFINE G == {n \in Nat : ~ \E f : Visits(n, f)}
<1>1. SUFFICES ASSUME G # {} PROVE FALSE
  OBVIOUS
<1>2. G \in SUBSET Nat
  OBVIOUS
<1> DEFINE m == Min(G)
<1>3. m \in G /\ \A y \in G : m <= y
  BY <1>1, <1>2, MinIsLeast
<1> HIDE DEF m
<1>4. m \in Nat /\ ~ \E f : Visits(m, f)
  BY <1>3
<1>5. m # 0
  <2>1. Visits(0, [i \in 0 .. 0 |-> Blank(2 * fd_cap)])
    BY DEF Visits
  <2> QED BY <1>4, <2>1
<1>6. m - 1 \in Nat /\ ~(m <= m - 1)
  BY <1>4, <1>5
<1>7. PICK f : Visits(m - 1, f)
  BY <1>3, <1>6
<1> DEFINE B == Blank(2 * fd_cap)
           R(r, i) == Rehash(r, i, 2 * fd_cap)
           h == [i \in 0 .. m |-> IF i = 0 THEN B ELSE R(f[i - 1], i - 1)]
<1>8. f = [i \in 0 .. m - 1 |-> IF i = 0 THEN B ELSE R(f[i - 1], i - 1)]
  BY <1>7, Zenon DEF Visits
<1> HIDE DEF B, R
<1>9. \A i \in 0 .. m - 1 : h[i] = f[i]
  <2> SUFFICES ASSUME NEW i \in 0 .. m - 1 PROVE h[i] = f[i]
    OBVIOUS
  <2>1. i \in 0 .. m
    BY <1>4
  <2> QED BY <1>8, <2>1, Zenon
<1>10. \A i \in 0 .. m : i # 0 => h[i - 1] = f[i - 1]
  <2>1. \A i \in 0 .. m : i # 0 => i - 1 \in 0 .. m - 1
    BY <1>4
  <2> HIDE DEF h
  <2> QED BY <1>9, <2>1
<1>11. h = [i \in 0 .. m |-> IF i = 0 THEN B ELSE R(h[i - 1], i - 1)]
  BY <1>10
<1>12. Visits(m, h)
  BY <1>11 DEF Visits, B, R
<1> QED BY <1>4, <1>12

\* Growth keeps what is stored, drops the tombstones and makes room.
LEMMA GrownSane ==
  ASSUME ConstantsOK, Sane(Table)
  PROVE  /\ Sane(Grown) /\ Grown.size + Grown.tombs + 1 < Grown.cap
         /\ \A fd \in Fds : \A d : Maps(Grown, fd, d) <=> Maps(Table, fd, d)
<1>1. fd_cap \in Nat /\ fd_cap > 1
  BY TableFields
<1> DEFINE after == CHOOSE f : Visits(fd_cap, f)
<1>2. Resized(2 * fd_cap) = after[fd_cap]
  BY DEF Resized, Visits
<1>3. Visits(fd_cap, after)
  BY <1>1, CanVisit
<1> HIDE DEF after
<1>4. after[0] = Blank(2 * fd_cap)
  BY <1>1, <1>3 DEF Visits
<1>5. \A i \in 0 .. fd_cap - 1 : after[i + 1] = Rehash(after[i], i, 2 * fd_cap)
  <2> SUFFICES ASSUME NEW i \in 0 .. fd_cap - 1
               PROVE  after[i + 1] = Rehash(after[i], i, 2 * fd_cap)
    OBVIOUS
  <2> DEFINE B == Blank(2 * fd_cap)
             R(r, k) == Rehash(r, k, 2 * fd_cap)
  <2>1. after = [k \in 0 .. fd_cap |-> IF k = 0 THEN B ELSE R(after[k - 1], k - 1)]
    BY <1>3, Zenon DEF Visits
  <2>2. i + 1 \in 0 .. fd_cap /\ i + 1 # 0 /\ (i + 1) - 1 = i
    BY <1>1
  <2> HIDE DEF B, R
  <2>3. after[i + 1] = R(after[(i + 1) - 1], (i + 1) - 1)
    BY <2>1, <2>2
  <2> QED BY <2>2, <2>3 DEF R
<1> DEFINE G == {i \in 0 .. fd_cap : ~Moved(i, after[i])}
           m == Min(G)
<1>6. G = {}
  <2> SUFFICES ASSUME G # {} PROVE FALSE
    OBVIOUS
  <2>1. G \in SUBSET Nat
    OBVIOUS
  <2>2. m \in G /\ \A y \in G : m <= y
    BY <2>1, MinIsLeast
  <2> HIDE DEF m
  <2>3. m \in 0 .. fd_cap /\ ~Moved(m, after[m])
    BY <2>2
  <2>4. m # 0
    BY <1>4, <2>3, NothingMoved
  <2>5. m - 1 \in 0 .. fd_cap - 1 /\ m - 1 \in 0 .. fd_cap /\ ~(m <= m - 1) /\ (m - 1) + 1 = m
    BY <1>1, <2>3, <2>4
  <2>6. Moved(m - 1, after[m - 1])
    BY <2>2, <2>5
  <2>7. Moved((m - 1) + 1, after[(m - 1) + 1])
    BY <1>5, <2>5, <2>6, MovesOne
  <2> QED BY <2>3, <2>5, <2>7
<1> DEFINE r == after[fd_cap]
<1>7. Moved(fd_cap, r)
  BY <1>1, <1>6
<1>8. Grown = AsTable(r)
  BY <1>2 DEF Grown, AsTable
<1> HIDE DEF r
<1>9. /\ Sane(Grown) /\ Grown.size <= fd_cap /\ Grown.tombs = 0 /\ Grown.cap = 2 * fd_cap
      /\ \A fd \in Fds : \A d :
           Maps(Grown, fd, d) <=> \E j \in 0 .. fd_cap - 1 : fd_keys[j] = fd /\ fd_vals[j] = d
  BY <1>7, <1>8, Zenon DEF Moved, AsTable
<1>10. Grown.size \in Nat
  BY <1>9, Counting DEF Sane
<1>11. Grown.size + Grown.tombs + 1 < Grown.cap
  BY <1>1, <1>9, <1>10
<1> QED BY <1>9, <1>11, TableFields

-----------------------------------------------------------------------------
(* The operations *)

LEMMA TableIs ==
  /\ Table.keys = fd_keys /\ Table.vals = fd_vals /\ Table.cap = fd_cap
  /\ Table.size = fd_size /\ Table.tombs = fd_tombs
BY DEF Table

\* conn_store_get is the look-up that the lemmas above are about, before and
\* after a step.
LEMMA GetIsGot ==
  ASSUME NEW fd
  PROVE  conn_store_get(fd) = Got(Table, fd) /\ conn_store_get(fd)' = Got(Table', fd)
<1>1. conn_store_get(fd) = Got(Table, fd)
  BY Zenon DEF conn_store_get, SearchEnds, SearchEnd, First, Meets, Got, EndsOf, EndOf, Table
<1>2. conn_store_get(fd)' = Got(Table', fd)
  BY DEF conn_store_get, SearchEnds, SearchEnd, First, Meets, Got, EndsOf, EndOf, Table
<1> QED BY <1>1, <1>2, Zenon

\* A step touches no other descriptor than fd.
OnlyTouches(fd) ==
  \A g \in Fds : \A d : g # fd => (Maps(Table', g, d) <=> Maps(Table, g, d))

LEMMA PutSane ==
  ASSUME ConstantsOK, Sane(Table), NEW fd \in Fds, NEW c \in Conns, conn_store_put(fd, c)
  PROVE  Sane(Table') /\ Maps(Table', fd, c) /\ OnlyTouches(fd)
<1> DEFINE t == IF NeedsResize THEN Grown ELSE Table
           u == Stored(t, fd, c)
<1>1. Sane(t) /\ \A g \in Fds : \A d : Maps(t, g, d) <=> Maps(Table, g, d)
  BY GrownSane
<1>2. t.size + t.tombs + 1 < t.cap
  <2>1. CASE NeedsResize
    BY <2>1, GrownSane
  <2>2. CASE ~NeedsResize
    <3>1. fd_size \in Nat /\ fd_tombs \in Nat /\ fd_cap \in Nat
      <4>1. /\ IsTable(Table) /\ Table.size = Cardinality(Live(Table))
            /\ Table.tombs = Cardinality(Tombs(Table))
        BY DEF Sane
      <4>2. Table.size \in Nat /\ Table.tombs \in Nat
        BY <4>1, Counting
      <4> QED BY <4>2, TableFields, TableIs
    <3>2. fd_size + fd_tombs + 1 < fd_cap
      BY <2>2, <3>1 DEF NeedsResize
    <3> QED BY <2>2, <3>2, TableIs
  <2> QED BY <2>1, <2>2
<1>3. Becomes(u)
  BY DEF conn_store_put
<1> HIDE DEF t
<1>4. /\ Sane(u) /\ Maps(u, fd, c)
      /\ \A g \in Fds : \A d : g # fd => (Maps(u, g, d) <=> Maps(t, g, d))
  BY <1>1, <1>2, StoredSane
<1> HIDE DEF u
<1>5. Table' = u
  <2>1. u = [keys |-> u.keys, vals |-> u.vals, cap |-> u.cap, size |-> u.size,
             tombs |-> u.tombs]
    BY <1>4 DEF Sane, IsTable
  <2>2. Table' = [keys |-> u.keys, vals |-> u.vals, cap |-> u.cap, size |-> u.size,
                  tombs |-> u.tombs]
    BY <1>3 DEF Becomes, Table
  <2> QED BY <2>1, <2>2
<1> QED BY <1>1, <1>4, <1>5 DEF OnlyTouches

LEMMA DelSane ==
  ASSUME ConstantsOK, Sane(Table), NEW fd \in Fds, conn_store_del(fd)
  PROVE  Sane(Table') /\ ~Has(Table', fd) /\ OnlyTouches(fd)
<1> DEFINE end == SearchEnd(fd)
           u == [keys |-> [Table.keys EXCEPT ![end] = TOMB],
                 vals |-> [Table.vals EXCEPT ![end] = NoConn],
                 cap |-> Table.cap, size |-> Table.size - 1, tombs |-> Table.tombs + 1]
<1>1. IsTable(Table) /\ fd_cap \in Nat /\ fd_cap > 0
  BY TableFields, SMTT(30) DEF Sane
<1>2. EndsOf(Table, fd) # {} /\ end = EndOf(Table, fd)
  BY TableIs DEF conn_store_del, SearchEnds, SearchEnd, First, Meets, EndsOf, EndOf
<1>3. EndsOf(Table, fd) \in SUBSET SlotsOf(fd_cap)
  BY TableIs DEF EndsOf
<1>4. Min(EndsOf(Table, fd)) \in SlotsOf(fd_cap)
  BY <1>1, <1>2, <1>3, FirstOf
<1>5. \A n \in SlotsOf(fd_cap) : Probe(fd, n, fd_cap) \in SlotsOf(fd_cap)
  BY <1>1, TableIs, SlotsOfTable
<1>6. end \in SlotsOf(fd_cap)
  BY <1>2, <1>4, <1>5, TableIs DEF EndOf
<1> HIDE DEF end
<1>7. /\ fd_keys[end] = fd
      /\ fd_keys' = [fd_keys EXCEPT ![end] = TOMB]
      /\ fd_vals' = [fd_vals EXCEPT ![end] = NoConn]
      /\ fd_size' = fd_size - 1 /\ fd_tombs' = fd_tombs + 1 /\ fd_cap' = fd_cap
  BY DEF conn_store_del, end
<1>8. Table' = u
  BY <1>7 DEF Table
<1>9. end \in SlotsOf(Table.cap) /\ Table.keys[end] = fd
  BY <1>6, <1>7, TableIs
<1> DEFINE w == Table
<1>10. Sane(w) /\ end \in SlotsOf(w.cap) /\ w.keys[end] = fd
  BY <1>9
<1>11. u = [keys |-> [w.keys EXCEPT ![end] = TOMB], vals |-> [w.vals EXCEPT ![end] = NoConn],
            cap |-> w.cap, size |-> w.size - 1, tombs |-> w.tombs + 1]
  BY Zenon
<1> HIDE DEF u, w
<1>12. /\ Sane(u) /\ ~Has(u, fd)
       /\ \A g \in Fds : \A d : g # fd => (Maps(u, g, d) <=> Maps(w, g, d))
  BY <1>10, <1>11, DeletedSane, SMTT(30)
<1> QED BY <1>8, <1>12, Zenon DEF OnlyTouches, w

LEMMA InitSane ==
  ASSUME ConstantsOK, Init
  PROVE  Sane(Table) /\ \A fd \in Fds : ~Has(Table, fd)
<1>1. /\ Table.keys = [i \in SlotsOf(InitCap) |-> EMPTY]
      /\ Table.vals = [i \in SlotsOf(InitCap) |-> NoConn]
      /\ Table.cap = InitCap /\ Table.size = 0 /\ Table.tombs = 0
  BY DEF Init, Blank, Table
<1>2. IsTable(Table)
  BY <1>1 DEF IsTable, Table, ConstantsOK
<1>3. EMPTY \notin Fds /\ EMPTY # TOMB
  BY DEF ConstantsOK, EMPTY, TOMB
<1>4. \A i \in SlotsOf(Table.cap) : Table.keys[i] = EMPTY
  BY <1>1
<1>5. Live(Table) = {} /\ Tombs(Table) = {} /\ \A fd \in Fds : ~Has(Table, fd)
  BY <1>3, <1>4 DEF Live, Tombs, Has
<1>6. Cardinality({}) = 0
  BY FS_EmptySet
<1>7. Sound(Table.keys, Table.cap)
  <2> SUFFICES ASSUME NEW fd \in Fds, NEW n \in SlotsOf(Table.cap)
               PROVE  Table.keys[Probe(fd, n, Table.cap)] # fd
    BY DEF Sound
  <2> QED BY <1>2, <1>3, <1>4, SlotsOfTable
<1>8. 0 + 0 < InitCap
  BY DEF ConstantsOK
<1> QED BY <1>1, <1>2, <1>3, <1>4, <1>5, <1>6, <1>7, <1>8 DEF Sane

LEMMA StepSane ==
  ASSUME ConstantsOK, Sane(Table), [Next]_vars
  PROVE  /\ Sane(Table')
         /\ \/ Table' = Table
            \/ \E fd \in Fds : /\ OnlyTouches(fd)
                               /\ ~Has(Table', fd) \/ \E c \in Conns : Maps(Table', fd, c)
<1>1. CASE UNCHANGED vars
  BY <1>1 DEF vars, Table
<1>2. CASE PutFails
  BY <1>2 DEF PutFails, vars, Table
<1>3. ASSUME NEW fd \in Fds, NEW c \in Conns, conn_store_put(fd, c)
      PROVE  Sane(Table') /\ Maps(Table', fd, c) /\ OnlyTouches(fd)
  BY <1>3, PutSane
<1>4. ASSUME NEW fd \in Fds, conn_store_del(fd)
      PROVE  Sane(Table') /\ ~Has(Table', fd) /\ OnlyTouches(fd)
  BY <1>4, DelSane
<1>5. ASSUME NEW fd \in Fds, DelAbsent(fd) PROVE Table' = Table
  BY <1>5 DEF DelAbsent, vars, Table
<1> QED BY <1>1, <1>2, <1>3, <1>4, <1>5 DEF Next

\* What get answers for a descriptor that a step has not touched.
LEMMA SameAnswer ==
  ASSUME ConstantsOK, NEW t, NEW u, Sane(t), Sane(u), NEW g \in Fds,
         \A d : Maps(u, g, d) <=> Maps(t, g, d)
  PROVE  Got(u, g) = Got(t, g)
<1>1. /\ IsTable(t) /\ Sound(t.keys, t.cap)
      /\ IsTable(u) /\ Sound(u.keys, u.cap)
  BY DEF Sane
<1>2. CASE \E d : Maps(t, g, d)
  <2>1. PICK d : Maps(t, g, d)
    BY <1>2
  <2> QED BY <1>1, <2>1, GotIsStored
<1>3. CASE ~ \E d : Maps(t, g, d)
  <2>1. ~Has(t, g) /\ ~Has(u, g)
    BY <1>3 DEF Has, Maps
  <2> QED BY <1>1, <2>1, GotIsStored
<1> QED BY <1>2, <1>3, Zenon

-----------------------------------------------------------------------------
(* Theorems *)

\* What each operation of conn_store did, as the next look-up sees it: put is
\* found with the connection that was put, also when the table grew for it;
\* what was deleted is gone.
AnswersFollow ==
  \A fd \in Fds :
    /\ \A c \in Conns : conn_store_put(fd, c) => conn_store_get(fd)' = c
    /\ conn_store_del(fd) => conn_store_get(fd)' = NoConn

\* The table stays sane: the search path of every stored key has no empty slot
\* and no second copy, the counters are exact, and some slot is free.
THEOREM StaysSane == Spec => []Sane(Table)
<1>1. Init => Sane(Table)
  BY StoreAssumption, InitSane
<1>2. Sane(Table) /\ [Next]_vars => Sane(Table)'
  <2> SUFFICES ASSUME Sane(Table), [Next]_vars PROVE Sane(Table)'
    OBVIOUS
  <2>1. Sane(Table')
    BY StoreAssumption, StepSane
  <2> QED BY <2>1, Zenon DEF Sane, IsTable, Sound, Live, Tombs, SlotsOf, Probe, Table
<1> QED BY <1>1, <1>2, PTL DEF Spec

\* The counters of conn_store count its live keys and its tombstones, through
\* reused tombstones, replacement, deletion and growth.
THEOREM CountsExactly == Spec => []CountersExact
<1>1. Sane(Table) => CountersExact
  <2> SUFFICES ASSUME Sane(Table) PROVE CountersExact
    OBVIOUS
  <2>1. fd_size = Cardinality(Live(Table)) /\ fd_tombs = Cardinality(Tombs(Table))
    BY TableIs DEF Sane
  <2>2. /\ Live(Table) = With(LAMBDA k : k \in Fds)
        /\ Tombs(Table) = With(LAMBDA k : k = TOMB)
    BY TableIs DEF Live, Tombs, With
  <2> QED BY <2>1, <2>2 DEF CountersExact
<1> QED BY <1>1, StaysSane, PTL

\* The loops of conn_store_put and conn_store_del, which only an empty slot
\* stops, always end.
THEOREM ProbesAlwaysEnd == Spec => []ProbesEnd
<1>1. Sane(Table) => ProbesEnd
  <2> SUFFICES ASSUME Sane(Table) PROVE ProbesEnd
    OBVIOUS
  <2>1. PICK i \in SlotsOf(Table.cap) : Table.keys[i] = EMPTY
    BY StoreAssumption, EmptySlot
  <2> QED BY <2>1, TableIs DEF ProbesEnd, With
<1> QED BY <1>1, StaysSane, PTL

\* A look-up after conn_store_put or conn_store_del answers what was done.
THEOREM AnswersAlwaysFollow == Spec => [][AnswersFollow]_vars
<1>1. Sane(Table) /\ [Next]_vars => [AnswersFollow]_vars
  <2> SUFFICES ASSUME Sane(Table) PROVE AnswersFollow
    OBVIOUS
  <2>1. ASSUME NEW fd \in Fds, NEW c \in Conns, conn_store_put(fd, c)
        PROVE  conn_store_get(fd)' = c
    <3>1. Sane(Table') /\ Maps(Table', fd, c)
      BY <2>1, StoreAssumption, PutSane
    <3>2. IsTable(Table') /\ Sound((Table').keys, (Table').cap)
      BY <3>1 DEF Sane
    <3>3. Got(Table', fd) = c
      BY <3>1, <3>2, StoreAssumption, GotIsStored
    <3> QED BY <3>3, GetIsGot
  <2>2. ASSUME NEW fd \in Fds, conn_store_del(fd) PROVE conn_store_get(fd)' = NoConn
    <3>1. Sane(Table') /\ ~Has(Table', fd)
      BY <2>2, StoreAssumption, DelSane
    <3>2. IsTable(Table') /\ Sound((Table').keys, (Table').cap)
      BY <3>1 DEF Sane
    <3>3. Got(Table', fd) = NoConn
      BY <3>1, <3>2, StoreAssumption, GotIsStored
    <3> QED BY <3>3, GetIsGot
  <2> QED BY <2>1, <2>2 DEF AnswersFollow
<1> QED BY <1>1, StaysSane, PTL DEF Spec

\* conn_store implements the map from descriptors to connections: every step
\* of the table changes what conn_store_get answers for one descriptor at most.
THEOREM StoreIsMap == Spec => ImplementsMap
<1> DEFINE map == [fd \in Fds |-> conn_store_get(fd)]
<1>1. Init => Map!Init
  <2> SUFFICES ASSUME Init PROVE map = [fd \in Fds |-> NoConn]
    BY DEF Map!Init
  <2>1. ASSUME NEW fd \in Fds PROVE conn_store_get(fd) = NoConn
    <3>1. Sane(Table) /\ ~Has(Table, fd)
      BY StoreAssumption, InitSane, Zenon
    <3>2. Got(Table, fd) = NoConn
      BY <3>1, StoreAssumption, GotIsStored DEF Sane
    <3> QED BY <3>2, GetIsGot
  <2> QED BY <2>1
<1>2. Sane(Table) /\ [Next]_vars => [Map!Next]_map
  <2> SUFFICES ASSUME Sane(Table), [Next]_vars PROVE Map!Next \/ map' = map
    OBVIOUS
  <2>1. Sane(Table')
    BY StoreAssumption, StepSane
  <2>2. /\ map' = [fd \in Fds |-> conn_store_get(fd)']
        /\ \A g \in Fds : map[g] = Got(Table, g) /\ map'[g] = Got(Table', g)
    BY GetIsGot
  <2>3. CASE Table' = Table
    <3>1. \A g \in Fds : conn_store_get(g)' = conn_store_get(g)
      BY <2>3, GetIsGot
    <3> QED BY <2>2, <3>1
  <2>4. ASSUME NEW fd \in Fds, OnlyTouches(fd),
               ~Has(Table', fd) \/ \E c \in Conns : Maps(Table', fd, c)
        PROVE  Map!Update(fd)
    <3>1. Got(Table', fd) \in Conns \cup {NoConn}
      <4>1. IsTable(Table') /\ Sound((Table').keys, (Table').cap)
        BY <2>1 DEF Sane
      <4> QED BY <2>4, <4>1, StoreAssumption, GotIsStored
    <3>2. \A g \in Fds : g # fd => Got(Table', g) = Got(Table, g)
      BY <2>1, <2>4, StoreAssumption, SameAnswer DEF OnlyTouches
    <3>3. map'[fd] \in Conns \cup {NoConn}
      BY <2>2, <3>1
    <3>4. \A g \in Fds : g # fd => map'[g] = map[g]
      BY <2>2, <3>2
    <3> DEFINE n == map'
               m == map
    <3>5. n = [g \in Fds |-> n[g]] /\ m = [g \in Fds |-> m[g]]
      BY <2>2
    <3>6. n[fd] \in Conns \cup {NoConn} /\ \A g \in Fds : g # fd => n[g] = m[g]
      BY <3>3, <3>4
    <3> HIDE DEF n, m
    <3>7. n = [m EXCEPT ![fd] = n[fd]]
      BY <3>5, <3>6
    <3> QED BY <3>6, <3>7 DEF Map!Update, n, m
  <2> QED BY <2>3, <2>4, StoreAssumption, StepSane DEF Map!Next
<1> QED BY <1>1, <1>2, StaysSane, PTL DEF Spec, ImplementsMap, Map!Spec
=============================================================================
