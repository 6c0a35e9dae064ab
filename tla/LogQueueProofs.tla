--------------------------- MODULE LogQueueProofs ---------------------------
(***************************************************************************)
(* The access log with a writer thread, for every number of workers and    *)
(* every size of the queues and the batches.                               *)
(*                                                                         *)
(* The lines that a worker has stored are those in the file, those counted *)
(* as dropped, those of the batch in the writer's hands and those in the   *)
(* ring between the place up to which the writer has read and the head.    *)
(* Account says that these are all the lines, each in one place, and that  *)
(* they ascend from the file over the batch to the ring.  The rest of the  *)
(* invariant keeps the places apart: the writer reads between its tail and *)
(* the head it has seen, which lies before the head; the worker fills the  *)
(* place of the head, which it found not to be the last free one, and the  *)
(* tail has only moved on since.                                           *)
(***************************************************************************)
EXTENDS AccessLog, Sequences, TLAPS

-----------------------------------------------------------------------------
(* Places of a ring *)

Shards == 1 .. QueueWorkers
Places == 0 .. ShardCap - 1

\* How far q is ahead of p.
Dist(p, q) == IF p <= q THEN q - p ELSE q + ShardCap - p

\* Place p is to be read by a reader at place r when the head is at place h.
Ready(r, h, p) == Dist(r, p) < Dist(r, h)

\* The lines of a sequence of lines.
In(q) == {q[i] : i \in 1 .. Len(q)}
Ascends(q) == \A j, k \in 1 .. Len(q) : j < k => q[j] < q[k]

\* The lines in the file, in the batch and in the ring.
Kept(e, h, r, b, w) ==
  In(w) \cup In(b) \cup {e[p] : p \in {q \in Places : Ready(r, h, q)}}

\* The file has w, a batch has b, and the ring has the entries e from place r to
\* the head h; d was dropped and m lines were stored or dropped.
Account(e, h, r, b, m, w, d) ==
  /\ Ascends(w) /\ Ascends(b)
  /\ \A x \in In(w), y \in In(b) : x < y
  /\ \A p \in Places : Ready(r, h, p) =>
       \A x \in In(w) \cup In(b) : x < e[p]
  /\ \A p, q \in Places :
       Ready(r, h, p) /\ Ready(r, h, q) /\ Dist(r, p) < Dist(r, q) => e[p] < e[q]
  /\ Kept(e, h, r, b, w) \cap d = {}
  /\ Kept(e, h, r, b, w) \cup d = 1 .. m

USE DEF Places

LEMMA CapOK == ShardCap \in Nat /\ ShardCap > 1 /\ QueueWorkers \in Nat
  BY LogAssumption DEF Queue!ConstantsOK

LEMMA NextIs ==
  ASSUME NEW p \in Places
  PROVE  Queue!NextPlace(p) = IF p = ShardCap - 1 THEN 0 ELSE p + 1
<1>1. p \in Nat /\ ShardCap \in Nat /\ ShardCap > 1 /\ p < ShardCap
  BY CapOK
<1>2. CASE p = ShardCap - 1
  <2>1. ShardCap % ShardCap = 0 /\ p + 1 = ShardCap
    BY <1>1, <1>2
  <2> QED BY <1>2, <2>1 DEF Queue!NextPlace
<1>3. CASE p # ShardCap - 1
  <2>1. p + 1 < ShardCap /\ p + 1 \in Nat
    BY <1>1, <1>3
  <2>2. (p + 1) % ShardCap = p + 1
    BY <1>1, <2>1
  <2> QED BY <1>3, <2>2 DEF Queue!NextPlace
<1> QED BY <1>2, <1>3

LEMMA DistIs ==
  ASSUME NEW p \in Places, NEW q \in Places
  PROVE  /\ Dist(p, q) \in Nat /\ Dist(p, q) < ShardCap
         /\ Dist(p, q) = 0 <=> p = q
  BY CapOK DEF Dist

\* The head moves on, in a ring that is not full.
LEMMA HeadMoves ==
  ASSUME NEW r \in Places, NEW h \in Places, Dist(r, h) < ShardCap - 1
  PROVE  LET n == Queue!NextPlace(h)
         IN  /\ n \in Places /\ Dist(r, n) = Dist(r, h) + 1
             /\ \A p \in Places : Ready(r, n, p) <=> Ready(r, h, p) \/ p = h
<1> DEFINE n == Queue!NextPlace(h)
<1>1. n = IF h = ShardCap - 1 THEN 0 ELSE h + 1
  BY NextIs
<1> HIDE DEF n
<1>2. n \in Places /\ Dist(r, n) = Dist(r, h) + 1
  BY <1>1, CapOK DEF Dist
<1>3. \A p \in Places : Dist(r, p) = Dist(r, h) <=> p = h
  BY CapOK DEF Dist
<1>4. ASSUME NEW p \in Places PROVE Ready(r, n, p) <=> Ready(r, h, p) \/ p = h
  BY <1>2, <1>3, DistIs DEF Ready
<1> QED BY <1>2, <1>4 DEF n

\* The reader moves on, in a ring that is not empty.
LEMMA ReaderMoves ==
  ASSUME NEW r \in Places, NEW h \in Places, r # h
  PROVE  LET n == Queue!NextPlace(r)
         IN  /\ n \in Places /\ Ready(r, h, r)
             /\ \A p \in Places : p # r => Dist(n, p) = Dist(r, p) - 1
             /\ \A p \in Places : Ready(n, h, p) <=> Ready(r, h, p) /\ p # r
             /\ \A c \in Places : Dist(c, r) + Dist(r, h) = Dist(c, h) =>
                                  Dist(c, n) + Dist(n, h) = Dist(c, h)
<1> DEFINE n == Queue!NextPlace(r)
<1>1. n = IF r = ShardCap - 1 THEN 0 ELSE r + 1
  BY NextIs
<1> HIDE DEF n
<1>2. n \in Places /\ Ready(r, h, r)
  BY <1>1, CapOK DEF Ready, Dist
<1>3. \A p \in Places : p # r => Dist(n, p) = Dist(r, p) - 1
  BY <1>1, CapOK DEF Dist
<1>4. Dist(n, r) = ShardCap - 1
  BY <1>1, CapOK DEF Dist
<1>5. ASSUME NEW p \in Places PROVE Ready(n, h, p) <=> Ready(r, h, p) /\ p # r
  <2>1. Dist(n, h) = Dist(r, h) - 1
    BY <1>3
  <2>2. CASE p = r
    BY <1>4, <2>1, <2>2, CapOK, DistIs DEF Ready
  <2>3. CASE p # r
    <3>1. Dist(r, p) \in Nat /\ Dist(r, h) \in Nat /\ Dist(n, p) = Dist(r, p) - 1
      BY <1>3, <2>3, DistIs
    <3> QED BY <2>1, <2>3, <3>1 DEF Ready
  <2> QED BY <2>2, <2>3
<1>6. ASSUME NEW c \in Places, Dist(c, r) + Dist(r, h) = Dist(c, h)
      PROVE  Dist(c, n) + Dist(n, h) = Dist(c, h)
  BY <1>1, <1>6, CapOK DEF Dist
<1> QED BY <1>2, <1>3, <1>5, <1>6 DEF n

-----------------------------------------------------------------------------
(* What a step does to the account of a queue *)

Ring == [Places -> Nat]

\* The lines of a sequence that is made longer.
LEMMA InAppend ==
  ASSUME NEW S, NEW b \in Seq(S), NEW x \in S
  PROVE  Append(b, x) \in Seq(S) /\ In(Append(b, x)) = In(b) \cup {x}
<1> DEFINE a == Append(b, x)
<1>1. a \in Seq(S) /\ Len(a) = Len(b) + 1 /\ Len(b) \in Nat
  OBVIOUS
<1>2. a[Len(b) + 1] = x /\ \A i \in 1 .. Len(b) : a[i] = b[i]
  OBVIOUS
<1>3. \A i \in 1 .. Len(b) + 1 : i \in 1 .. Len(b) \/ i = Len(b) + 1
  BY <1>1
<1>4. Len(b) + 1 \in 1 .. Len(b) + 1 /\ \A i \in 1 .. Len(b) : i \in 1 .. Len(b) + 1
  BY <1>1
<1> HIDE DEF a
<1>5. In(a) = In(b) \cup {x}
  BY <1>1, <1>2, <1>3, <1>4, Zenon DEF In
<1> QED BY <1>1, <1>5 DEF a

LEMMA ConcatIs ==
  ASSUME NEW S, NEW w \in Seq(S), NEW b \in Seq(S)
  PROVE  /\ w \o b \in Seq(S) /\ Len(w) \in Nat /\ Len(b) \in Nat
         /\ Len(w \o b) = Len(w) + Len(b)
         /\ \A i \in 1 .. Len(w) : (w \o b)[i] = w[i]
         /\ \A i \in 1 .. Len(b) : (w \o b)[Len(w) + i] = b[i]
  OBVIOUS

LEMMA InConcat ==
  ASSUME NEW S, NEW w \in Seq(S), NEW b \in Seq(S)
  PROVE  w \o b \in Seq(S) /\ In(w \o b) = In(w) \cup In(b)
<1> DEFINE a == w \o b
           m == Len(w)
           n == Len(b)
<1>1. a \in Seq(S) /\ Len(a) = m + n /\ m \in Nat /\ n \in Nat
  OBVIOUS
<1>2. \A i \in 1 .. m : a[i] = w[i]
  OBVIOUS
<1>3. \A i \in 1 .. n : a[m + i] = b[i]
  OBVIOUS
<1> HIDE DEF a, m, n
<1>4. ASSUME NEW i \in 1 .. m + n PROVE a[i] \in In(w) \cup In(b)
  <2>1. CASE i \in 1 .. m
    BY <1>2, <2>1 DEF In, m
  <2>2. CASE i \notin 1 .. m
    <3>1. i - m \in 1 .. n /\ m + (i - m) = i
      BY <1>1, <2>2
    <3>2. a[i] = b[i - m]
      BY <1>3, <3>1
    <3> QED BY <3>1, <3>2 DEF In, n
  <2> QED BY <2>1, <2>2
<1>5. ASSUME NEW i \in 1 .. m PROVE w[i] \in In(a)
  <2>1. i \in 1 .. m + n
    BY <1>1
  <2> QED BY <1>1, <1>2, <2>1 DEF In
<1>6. ASSUME NEW i \in 1 .. n PROVE b[i] \in In(a)
  <2>1. m + i \in 1 .. m + n
    BY <1>1
  <2> QED BY <1>1, <1>3, <2>1 DEF In
<1>7. In(a) \subseteq In(w) \cup In(b)
  BY <1>1, <1>4 DEF In
<1>8. In(w) \subseteq In(a) /\ In(b) \subseteq In(a)
  BY <1>5, <1>6 DEF In, m, n
<1> QED BY <1>1, <1>7, <1>8 DEF a

LEMMA InTyped ==
  ASSUME NEW b \in Seq(Nat)
  PROVE  In(b) \subseteq Nat
  BY DEF In

LEMMA InEmpty == In(<<>>) = {} /\ Ascends(<<>>) /\ <<>> \in Seq(Nat)
  BY DEF In, Ascends

LEMMA AscendsAppend ==
  ASSUME NEW b \in Seq(Nat), NEW x \in Nat, Ascends(b), \A y \in In(b) : y < x
  PROVE  Ascends(Append(b, x))
<1> DEFINE a == Append(b, x)
<1>1. Len(a) = Len(b) + 1 /\ Len(b) \in Nat
  OBVIOUS
<1>2. a[Len(b) + 1] = x /\ \A i \in 1 .. Len(b) : a[i] = b[i] /\ b[i] \in In(b)
  BY DEF In
<1> HIDE DEF a
<1>3. ASSUME NEW j \in 1 .. Len(a), NEW k \in 1 .. Len(a), j < k PROVE a[j] < a[k]
  <2>1. j \in 1 .. Len(b) /\ (k \in 1 .. Len(b) \/ k = Len(b) + 1)
    BY <1>1, <1>3
  <2> QED BY <1>2, <1>3, <2>1 DEF Ascends
<1> QED BY <1>3 DEF Ascends, a

LEMMA AscendsConcat ==
  ASSUME NEW w \in Seq(Nat), NEW b \in Seq(Nat), Ascends(w), Ascends(b),
         \A x \in In(w), y \in In(b) : x < y
  PROVE  Ascends(w \o b)
<1> DEFINE a == w \o b
           m == Len(w)
           n == Len(b)
<1>1. Len(a) = m + n /\ m \in Nat /\ n \in Nat
  OBVIOUS
<1>2. \A i \in 1 .. m : a[i] = w[i]
  OBVIOUS
<1>3. \A i \in 1 .. n : a[m + i] = b[i]
  OBVIOUS
<1>4. (\A i \in 1 .. m : w[i] \in In(w)) /\ \A i \in 1 .. n : b[i] \in In(b)
  BY DEF In
<1>5. /\ \A j, k \in 1 .. m : j < k => w[j] < w[k]
      /\ \A j, k \in 1 .. n : j < k => b[j] < b[k]
  BY Zenon DEF Ascends
<1> HIDE DEF a, m, n
<1>6. ASSUME NEW j \in 1 .. m + n, NEW k \in 1 .. m + n, j < k PROVE a[j] < a[k]
  <2>1. CASE k \in 1 .. m
    <3>1. j \in 1 .. m
      BY <1>1, <1>6, <2>1
    <3> QED BY <1>2, <1>5, <1>6, <2>1, <3>1
  <2>2. CASE k \notin 1 .. m
    <3>1. k - m \in 1 .. n /\ m + (k - m) = k
      BY <1>1, <2>2
    <3>2. a[k] = b[k - m]
      BY <1>3, <3>1
    <3>3. CASE j \in 1 .. m
      <4>1. a[j] = w[j] /\ w[j] \in In(w) /\ b[k - m] \in In(b)
        BY <1>2, <1>4, <3>1, <3>3
      <4> QED BY <3>2, <4>1
    <3>4. CASE j \notin 1 .. m
      <4>1. j - m \in 1 .. n /\ m + (j - m) = j /\ j - m < k - m
        BY <1>1, <1>6, <3>4
      <4>2. a[j] = b[j - m]
        BY <1>3, <4>1
      <4> QED BY <1>5, <3>1, <3>2, <4>1, <4>2
    <3> QED BY <3>3, <3>4
  <2> QED BY <2>1, <2>2
<1> QED BY <1>1, <1>6 DEF Ascends, a

\* A worker fills the place of the head, which is not to be read yet.
LEMMA AccountStore ==
  ASSUME NEW e \in Ring, NEW h \in Places, NEW r \in Places, NEW b, NEW m, NEW w, NEW d,
         NEW x \in Nat, Account(e, h, r, b, m, w, d)
  PROVE  Account([e EXCEPT ![h] = x], h, r, b, m, w, d)
<1> DEFINE f == [e EXCEPT ![h] = x]
<1>1. ~Ready(r, h, h)
  BY DistIs DEF Ready
<1>2. \A p \in Places : Ready(r, h, p) => f[p] = e[p]
  BY <1>1 DEF Ring
<1> HIDE DEF f
<1>3. Kept(f, h, r, b, w) = Kept(e, h, r, b, w)
  BY <1>2, Zenon DEF Kept
<1>4. \A p \in Places : Ready(r, h, p) => \A y \in In(w) \cup In(b) : y < f[p]
  BY <1>2, Zenon DEF Account
<1>5. \A p, q \in Places :
        Ready(r, h, p) /\ Ready(r, h, q) /\ Dist(r, p) < Dist(r, q) => f[p] < f[q]
  BY <1>2, Zenon DEF Account
<1>6. Account(f, h, r, b, m, w, d)
  BY <1>3, <1>4, <1>5, Zenon DEF Account
<1> QED BY <1>6 DEF f

\* The head moves over the line that is next in number.
LEMMA AccountPublish ==
  ASSUME NEW e \in Ring, NEW h \in Places, NEW r \in Places, NEW b, NEW m \in Nat, NEW w, NEW d,
         Account(e, h, r, b, m, w, d), Dist(r, h) < ShardCap - 1, e[h] = m + 1
  PROVE  Account(e, Queue!NextPlace(h), r, b, m + 1, w, d)
<1> DEFINE n == Queue!NextPlace(h)
<1>1. \A p \in Places : Ready(r, n, p) <=> Ready(r, h, p) \/ p = h
  BY HeadMoves, Zenon
<1> HIDE DEF n
<1>2. Kept(e, n, r, b, w) = Kept(e, h, r, b, w) \cup {m + 1}
  BY <1>1, Zenon DEF Kept
<1>3. \A x \in Kept(e, h, r, b, w) : x \in Nat /\ x < m + 1
  <2>1. \A x \in Kept(e, h, r, b, w) : x \in 1 .. m
    BY Zenon DEF Account
  <2> QED BY <2>1
<1>4. \A x \in d : x \in Nat /\ x < m + 1
  <2>1. \A x \in d : x \in 1 .. m
    BY Zenon DEF Account
  <2> QED BY <2>1
<1>5. \A p \in Places : Ready(r, n, p) => \A x \in In(w) \cup In(b) : x < e[p]
  BY <1>1, <1>3, Zenon DEF Account, Kept
<1>6. ASSUME NEW p \in Places, NEW q \in Places, Ready(r, n, p), Ready(r, n, q),
             Dist(r, p) < Dist(r, q)
      PROVE  e[p] < e[q]
  <2>1. CASE q = h
    <3>1. p # h
      BY <1>6, <2>1, DistIs
    <3>2. e[p] \in Kept(e, h, r, b, w)
      BY <1>1, <1>6, <3>1, Zenon DEF Kept
    <3> QED BY <1>3, <2>1, <3>2, Zenon
  <2>2. CASE q # h
    <3>1. Ready(r, h, q)
      BY <1>1, <1>6, <2>2
    <3>2. p # h
      BY <1>6, <3>1, DistIs DEF Ready
    <3>3. Ready(r, h, p)
      BY <1>1, <1>6, <3>2
    <3> QED BY <1>6, <3>1, <3>3, Zenon DEF Account
  <2> QED BY <2>1, <2>2
<1>7. Kept(e, n, r, b, w) \cap d = {}
  <2>1. m + 1 \notin d
    BY <1>4
  <2> QED BY <1>2, <2>1, Zenon DEF Account
<1>8. Kept(e, n, r, b, w) \cup d = 1 .. m + 1
  <2>1. 1 .. m + 1 = (1 .. m) \cup {m + 1}
    OBVIOUS
  <2> QED BY <1>2, <2>1, Zenon DEF Account
<1>9. Account(e, n, r, b, m + 1, w, d)
  BY <1>5, <1>6, <1>7, <1>8, Zenon DEF Account
<1> QED BY <1>9 DEF n

\* The line that is next in number is dropped.
LEMMA AccountDrop ==
  ASSUME NEW e, NEW h, NEW r, NEW b, NEW m \in Nat, NEW w, NEW d,
         Account(e, h, r, b, m, w, d)
  PROVE  Account(e, h, r, b, m + 1, w, d \cup {m + 1})
<1>1. \A x \in Kept(e, h, r, b, w) : x # m + 1
  <2>1. \A x \in Kept(e, h, r, b, w) : x \in 1 .. m
    BY Zenon DEF Account
  <2> QED BY <2>1
<1>2. 1 .. m + 1 = (1 .. m) \cup {m + 1}
  OBVIOUS
<1>3. Kept(e, h, r, b, w) \cap (d \cup {m + 1}) = {}
  BY <1>1, Zenon DEF Account
<1>4. Kept(e, h, r, b, w) \cup (d \cup {m + 1}) = 1 .. m + 1
  BY <1>2, Zenon DEF Account
<1> QED BY <1>3, <1>4, Zenon DEF Account

\* What the reader leaves in the ring when it moves on by one place.
LEMMA RestOfRing ==
  ASSUME NEW e \in Ring, NEW h \in Places, NEW r \in Places, NEW b, NEW m, NEW w, NEW d,
         Account(e, h, r, b, m, w, d), r # h
  PROVE  LET n == Queue!NextPlace(r)
         IN  /\ n \in Places
             /\ Kept(e, h, r, b, w) = Kept(e, h, n, b, w) \cup {e[r]}
             /\ e[r] \in Nat
             /\ \A x \in In(w) \cup In(b) : x < e[r]
             /\ \A p \in Places : Ready(n, h, p) =>
                  e[r] < e[p] /\ \A x \in In(w) \cup In(b) : x < e[p]
             /\ \A p, q \in Places :
                  Ready(n, h, p) /\ Ready(n, h, q) /\ Dist(n, p) < Dist(n, q) => e[p] < e[q]
<1> DEFINE n == Queue!NextPlace(r)
<1>1. n \in Places /\ Ready(r, h, r)
  BY ReaderMoves, Zenon
<1>2. \A p \in Places : Ready(n, h, p) <=> Ready(r, h, p) /\ p # r
  BY ReaderMoves, Zenon
<1>3. \A p \in Places : p # r => Dist(n, p) = Dist(r, p) - 1
  BY ReaderMoves, Zenon
<1> HIDE DEF n
<1>4. Kept(e, h, r, b, w) = Kept(e, h, n, b, w) \cup {e[r]}
  BY <1>1, <1>2, Zenon DEF Kept
<1>5. e[r] \in Nat
  BY DEF Ring
<1>6. \A x \in In(w) \cup In(b) : x < e[r]
  BY <1>1, Zenon DEF Account
<1>7. ASSUME NEW p \in Places, Ready(n, h, p)
      PROVE  e[r] < e[p] /\ \A x \in In(w) \cup In(b) : x < e[p]
  <2>1. Ready(r, h, p) /\ p # r
    BY <1>2, <1>7
  <2>2. Dist(r, r) < Dist(r, p)
    BY <2>1, DistIs
  <2> QED BY <1>1, <2>1, <2>2, Zenon DEF Account
<1>8. ASSUME NEW p \in Places, NEW q \in Places, Ready(n, h, p), Ready(n, h, q),
             Dist(n, p) < Dist(n, q)
      PROVE  e[p] < e[q]
  <2>1. Ready(r, h, p) /\ p # r /\ Ready(r, h, q) /\ q # r
    BY <1>2, <1>8
  <2>2. Dist(r, p) \in Nat /\ Dist(r, q) \in Nat
    BY DistIs
  <2>3. Dist(r, p) < Dist(r, q)
    BY <1>3, <1>8, <2>1, <2>2
  <2> QED BY <2>1, <2>3, Zenon DEF Account
<1> QED BY <1>1, <1>4, <1>5, <1>6, <1>7, <1>8 DEF n

\* The writer adds the next line to its batch.
LEMMA AccountTake ==
  ASSUME NEW e \in Ring, NEW h \in Places, NEW r \in Places, NEW b \in Seq(Nat), NEW m,
         NEW w \in Seq(Nat), NEW d, Account(e, h, r, b, m, w, d), r # h
  PROVE  Account(e, h, Queue!NextPlace(r), Append(b, e[r]), m, w, d)
<1> DEFINE n == Queue!NextPlace(r)
           a == Append(b, e[r])
<1>1. /\ e[r] \in Nat
      /\ Kept(e, h, r, b, w) = Kept(e, h, n, b, w) \cup {e[r]}
      /\ \A x \in In(w) \cup In(b) : x < e[r]
  BY RestOfRing
<1>2. \A p \in Places : Ready(n, h, p) =>
        e[r] < e[p] /\ \A x \in In(w) \cup In(b) : x < e[p]
  BY RestOfRing, Zenon
<1>3. \A p, q \in Places :
        Ready(n, h, p) /\ Ready(n, h, q) /\ Dist(n, p) < Dist(n, q) => e[p] < e[q]
  BY RestOfRing, Zenon
<1>4. In(a) = In(b) \cup {e[r]}
  <2>1. e[r] \in Nat
    BY <1>1
  <2> HIDE DEF n
  <2> QED BY <2>1, InAppend
<1>5. Ascends(a)
  <2>1. Ascends(b) /\ \A y \in In(b) : y < e[r]
    BY <1>1, Zenon DEF Account
  <2> QED BY <1>1, <2>1, AscendsAppend
<1> HIDE DEF n, a
<1>6. Kept(e, h, n, a, w) = Kept(e, h, r, b, w)
  BY <1>1, <1>4, Zenon DEF Kept
<1>7. \A x \in In(w), y \in In(a) : x < y
  BY <1>1, <1>4, Zenon DEF Account
<1>8. \A p \in Places : Ready(n, h, p) => \A x \in In(w) \cup In(a) : x < e[p]
  BY <1>2, <1>4, Zenon
<1>9. Account(e, h, n, a, m, w, d)
  BY <1>3, <1>5, <1>6, <1>7, <1>8, Zenon DEF Account
<1> QED BY <1>9 DEF n, a

\* The writer cannot format the next line and counts it as dropped.
LEMMA AccountTakeDrop ==
  ASSUME NEW e \in Ring, NEW h \in Places, NEW r \in Places, NEW b \in Seq(Nat), NEW m,
         NEW w \in Seq(Nat), NEW d, Account(e, h, r, b, m, w, d), r # h
  PROVE  Account(e, h, Queue!NextPlace(r), b, m, w, d \cup {e[r]})
<1> DEFINE n == Queue!NextPlace(r)
<1>1. /\ e[r] \in Nat
      /\ Kept(e, h, r, b, w) = Kept(e, h, n, b, w) \cup {e[r]}
      /\ \A x \in In(w) \cup In(b) : x < e[r]
  BY RestOfRing
<1>2. \A p \in Places : Ready(n, h, p) =>
        e[r] < e[p] /\ \A x \in In(w) \cup In(b) : x < e[p]
  BY RestOfRing, Zenon
<1>3. \A p, q \in Places :
        Ready(n, h, p) /\ Ready(n, h, q) /\ Dist(n, p) < Dist(n, q) => e[p] < e[q]
  BY RestOfRing, Zenon
<1> HIDE DEF n
<1>4. \A x \in In(w) \cup In(b) : x # e[r]
  BY <1>1, InTyped
<1>5. \A p \in Places : Ready(n, h, p) => e[p] # e[r]
  BY <1>1, <1>2 DEF Ring
<1>6. e[r] \notin Kept(e, h, n, b, w)
  BY <1>4, <1>5, Zenon DEF Kept
<1>7. Kept(e, h, n, b, w) \cap (d \cup {e[r]}) = {}
  BY <1>1, <1>6, Zenon DEF Account
<1>8. Kept(e, h, n, b, w) \cup (d \cup {e[r]}) = 1 .. m
  BY <1>1, Zenon DEF Account
<1>9. Account(e, h, n, b, m, w, d \cup {e[r]})
  BY <1>2, <1>3, <1>7, <1>8, Zenon DEF Account
<1> QED BY <1>9 DEF n

\* The batch is in the file.
LEMMA AccountWrite ==
  ASSUME NEW e, NEW h, NEW r, NEW b \in Seq(Nat), NEW m, NEW w \in Seq(Nat), NEW d,
         Account(e, h, r, b, m, w, d)
  PROVE  Account(e, h, r, <<>>, m, w \o b, d)
<1>1. In(w \o b) = In(w) \cup In(b) /\ In(<<>>) = {} /\ Ascends(<<>>)
  BY InConcat, InEmpty
<1>2. Ascends(w \o b)
  <2>1. Ascends(w) /\ Ascends(b) /\ \A x \in In(w), y \in In(b) : x < y
    BY Zenon DEF Account
  <2> QED BY <2>1, AscendsConcat
<1> DEFINE a == w \o b
           z == <<>>
<1>3. In(a) = In(w) \cup In(b) /\ In(z) = {} /\ Ascends(z) /\ Ascends(a)
  BY <1>1, <1>2
<1> HIDE DEF a, z
<1>4. Kept(e, h, r, z, a) = Kept(e, h, r, b, w)
  BY <1>3, Zenon DEF Kept
<1>5. Account(e, h, r, z, m, a, d)
  BY <1>3, <1>4, Zenon DEF Account
<1> QED BY <1>5 DEF a, z

\* The batch cannot be written and its lines are counted as dropped.
LEMMA AccountWriteFails ==
  ASSUME NEW e \in Ring, NEW h, NEW r, NEW b \in Seq(Nat), NEW m, NEW w \in Seq(Nat), NEW d,
         Account(e, h, r, b, m, w, d)
  PROVE  Account(e, h, r, <<>>, m, w, d \cup In(b))
<1> DEFINE z == <<>>
<1>1. In(z) = {} /\ Ascends(z)
  BY InEmpty
<1> HIDE DEF z
<1>2. \A x \in In(b) : x \notin In(w)
  <2>1. \A x \in In(w), y \in In(b) : x < y /\ x \in Nat
    BY InTyped, Zenon DEF Account
  <2> QED BY <2>1
<1>3. \A p \in Places : Ready(r, h, p) => e[p] \notin In(b)
  <2>1. \A p \in Places : Ready(r, h, p) => \A x \in In(b) : x < e[p] /\ x \in Nat
    BY InTyped, Zenon DEF Account
  <2> QED BY <2>1
<1>4. Kept(e, h, r, b, w) = Kept(e, h, r, z, w) \cup In(b)
  BY <1>1, Zenon DEF Kept
<1>5. Kept(e, h, r, z, w) \cap In(b) = {}
  BY <1>1, <1>2, <1>3, Zenon DEF Kept
<1>6. Kept(e, h, r, z, w) \cap (d \cup In(b)) = {}
  BY <1>4, <1>5, Zenon DEF Account
<1>7. Kept(e, h, r, z, w) \cup (d \cup In(b)) = 1 .. m
  BY <1>4, Zenon DEF Account
<1>8. Account(e, h, r, z, m, w, d \cup In(b))
  BY <1>1, <1>6, <1>7, Zenon DEF Account
<1> QED BY <1>8 DEF z

-----------------------------------------------------------------------------
(* The state of a queue *)

\* The place up to which the writer has read, and what it has in its hands.
Read(s) ==
  IF writer.at = "batch" /\ writer.i = s THEN writer.batch_tail ELSE cons_tail[s]
Held(s) ==
  IF writer.at \in {"batch", "write"} /\ writer.i = s THEN writer.batch ELSE <<>>

\* The lines that a worker has stored or dropped.
InHand(s) == log_workers[s].at \in {"nudge", "store", "publish"}
Placed(s) == IF InHand(s) THEN offered[s] - 1 ELSE offered[s]

WorkerStates ==
  [at : {"idle", "nudge", "store", "publish", "notify", "ended"}, head : Places, tail : Places]
WriterStates ==
  [at : {"start", "failed", "scan", "batch", "write", "check", "sleep", "poll", "done"},
   i : Nat \ {0}, tail : Places, head : Places, batch_tail : Places, batch : Seq(Nat),
   did_work : BOOLEAN, stop : BOOLEAN]

QueueTyped ==
  /\ entries \in [Shards -> Ring]
  /\ prod_head \in [Shards -> Places] /\ cons_tail \in [Shards -> Places]
  /\ log_workers \in [Shards -> WorkerStates]
  /\ writer \in WriterStates
  /\ stop \in BOOLEAN
  /\ offered \in [Shards -> Nat]
  /\ written \in [Shards -> Seq(Nat)]
  /\ dropped \in [Shards -> SUBSET Nat]

\* The worker of a queue: it holds a line, which it stores at the head; the ring
\* is not full then.
WorkerApart(s) ==
  /\ InHand(s) => offered[s] # 0
  /\ log_workers[s].at \in {"store", "publish"} =>
       /\ log_workers[s].head = prod_head[s]
       /\ Dist(cons_tail[s], prod_head[s]) < ShardCap - 1
  /\ log_workers[s].at = "publish" => entries[s][prod_head[s]] = offered[s]

\* The writer: it reads up to the head that it has seen.
WriterApart ==
  /\ writer.at = "batch" =>
       /\ writer.i \in Shards
       /\ Dist(writer.batch_tail, writer.head) <= Dist(writer.batch_tail, prod_head[writer.i])
  /\ writer.at = "write" => writer.i \in Shards /\ cons_tail[writer.i] = writer.batch_tail

\* Once the workers have ended the queues that the writer finds empty stay so.
Ending ==
  /\ stop => \A s \in Shards : log_workers[s].at = "ended"
  /\ writer.stop => stop
  /\ writer.at = "check" /\ writer.stop =>
       \A s \in Shards : s < writer.i => prod_head[s] = cons_tail[s]
  /\ writer.at = "done" => stop /\ \A s \in Shards : prod_head[s] = cons_tail[s]

\* The writer has read part of what lies between the tail and the head.
Between(c, r, h) == Dist(c, r) + Dist(r, h) = Dist(c, h)

LEMMA ReaderStays ==
  ASSUME NEW r \in Places, NEW h \in Places, NEW c \in Places, r # h, Between(c, r, h)
  PROVE  Between(c, Queue!NextPlace(r), h)
  BY ReaderMoves DEF Between

ShardOK(s) ==
  /\ Account(entries[s], prod_head[s], Read(s), Held(s), Placed(s), written[s], dropped[s])
  /\ Between(cons_tail[s], Read(s), prod_head[s])
  /\ WorkerApart(s)

QueueInv == QueueTyped /\ WriterApart /\ Ending /\ \A s \in Shards : ShardOK(s)

-----------------------------------------------------------------------------
(* The steps of a worker *)

\* What is the same before and after a step keeps a queue in order.
Same(s) ==
  /\ entries'[s] = entries[s] /\ prod_head'[s] = prod_head[s] /\ cons_tail'[s] = cons_tail[s]
  /\ log_workers'[s] = log_workers[s] /\ offered'[s] = offered[s]
  /\ written'[s] = written[s] /\ dropped'[s] = dropped[s]

LEMMA SameIsOK ==
  ASSUME NEW s \in Shards, ShardOK(s), Same(s), Read(s)' = Read(s), Held(s)' = Held(s)
  PROVE  ShardOK(s)'
<1>1. Placed(s)' = Placed(s) /\ InHand(s)' = InHand(s)
  BY DEF Same, Placed, InHand
<1>2. WorkerApart(s)'
  BY <1>1 DEF ShardOK, WorkerApart, Same
<1>3. Account(entries[s], prod_head[s], Read(s), Held(s), Placed(s), written[s], dropped[s])'
  BY <1>1 DEF ShardOK, Same
<1> QED BY <1>2, <1>3 DEF ShardOK, Same

LEMMA ReadTyped ==
  ASSUME QueueTyped, NEW s \in Shards
  PROVE  Read(s) \in Places /\ Held(s) \in Seq(Nat)
  BY DEF QueueTyped, WriterStates, Read, Held

\* A worker leaves the other queues, the writer and the file alone.
LEMMA WorkerElsewhere ==
  ASSUME QueueTyped, NEW s \in Shards, Queue!Worker(s)
  PROVE  /\ UNCHANGED <<cons_tail, writer, written, stop>>
         /\ \A t \in Shards : t # s => Same(t)
         /\ \A t \in Shards : Read(t)' = Read(t) /\ Held(t)' = Held(t)
         /\ log_workers[s].at # "ended"
<1>1. UNCHANGED <<cons_tail, writer, written, stop>>
  BY Zenon DEF Queue!Worker, Queue!LoadIndices, Queue!Nudge, Queue!StoreEntry, Queue!PublishEntry,
     Queue!access_log_notify_writer, Queue!WorkerEnds, Queue!log
<1>2. log_workers[s].at # "ended"
  BY DEF Queue!Worker, Queue!LoadIndices, Queue!Nudge, Queue!StoreEntry, Queue!PublishEntry,
     Queue!access_log_notify_writer, Queue!WorkerEnds
<1>3. ASSUME NEW t \in Shards, t # s PROVE Same(t)
  <2>1. CASE Queue!LoadIndices(s)
    BY <1>3, <2>1 DEF QueueTyped, Same, Queue!LoadIndices
  <2>2. CASE Queue!Nudge(s)
    BY <1>3, <2>2 DEF QueueTyped, Same, Queue!Nudge
  <2>3. CASE Queue!StoreEntry(s)
    BY <1>3, <2>3 DEF QueueTyped, Same, Queue!StoreEntry, Queue!log
  <2>4. CASE Queue!PublishEntry(s)
    BY <1>3, <2>4 DEF QueueTyped, Same, Queue!PublishEntry, Queue!log
  <2>5. CASE Queue!access_log_notify_writer(s)
    BY <1>3, <2>5 DEF QueueTyped, Same, Queue!access_log_notify_writer, Queue!log
  <2>6. CASE Queue!WorkerEnds(s)
    BY <1>3, <2>6 DEF QueueTyped, Same, Queue!WorkerEnds, Queue!log
  <2> QED BY <2>1, <2>2, <2>3, <2>4, <2>5, <2>6 DEF Queue!Worker
<1>4. \A t \in Shards : Read(t)' = Read(t) /\ Held(t)' = Held(t)
  BY <1>1 DEF Read, Held
<1> QED BY <1>1, <1>2, <1>3, <1>4

LEMMA WorkerTyped ==
  ASSUME QueueTyped, NEW s \in Shards, Queue!Worker(s)
  PROVE  QueueTyped'
<1>1. UNCHANGED <<cons_tail, writer, written, stop>>
  BY WorkerElsewhere
<1>2. CASE Queue!LoadIndices(s)
  <2>1. /\ [at |-> IF Queue!Full(prod_head[s], cons_tail[s]) THEN "nudge" ELSE "store",
            head |-> prod_head[s], tail |-> cons_tail[s]] \in WorkerStates
        /\ offered[s] + 1 \in Nat
    BY DEF QueueTyped, WorkerStates
  <2> QED BY <1>1, <1>2, <2>1 DEF QueueTyped, Queue!LoadIndices
<1>3. CASE Queue!Nudge(s)
  <2>1. [log_workers[s] EXCEPT !.at = "idle"] \in WorkerStates
    BY DEF QueueTyped, WorkerStates
  <2> QED BY <1>1, <1>3, <2>1 DEF QueueTyped, Queue!Nudge
<1>4. CASE Queue!StoreEntry(s)
  <2>1. [log_workers[s] EXCEPT !.at = "publish"] \in WorkerStates
    BY DEF QueueTyped, WorkerStates
  <2>2. [entries[s] EXCEPT ![log_workers[s].head] = offered[s]] \in Ring
    BY DEF QueueTyped, Ring
  <2> QED BY <1>1, <1>4, <2>1, <2>2 DEF QueueTyped, Queue!StoreEntry, Queue!log
<1>5. CASE Queue!PublishEntry(s)
  <2>1. [log_workers[s] EXCEPT !.at =
           IF log_workers[s].head = log_workers[s].tail THEN "notify" ELSE "idle"] \in WorkerStates
    BY DEF QueueTyped, WorkerStates
  <2>2. Queue!NextPlace(log_workers[s].head) \in Places
    BY NextIs, CapOK DEF QueueTyped, WorkerStates
  <2> QED BY <1>1, <1>5, <2>1, <2>2 DEF QueueTyped, Queue!PublishEntry, Queue!log
<1>6. CASE Queue!access_log_notify_writer(s)
  <2>1. [log_workers[s] EXCEPT !.at = "idle"] \in WorkerStates
    BY DEF QueueTyped, WorkerStates
  <2> QED BY <1>1, <1>6, <2>1 DEF QueueTyped, Queue!access_log_notify_writer, Queue!log
<1>7. CASE Queue!WorkerEnds(s)
  <2>1. [log_workers[s] EXCEPT !.at = "ended"] \in WorkerStates
    BY DEF QueueTyped, WorkerStates
  <2> QED BY <1>1, <1>7, <2>1 DEF QueueTyped, Queue!WorkerEnds, Queue!log
<1> QED BY <1>2, <1>3, <1>4, <1>5, <1>6, <1>7 DEF Queue!Worker

LEMMA NotFull ==
  ASSUME NEW r \in Places, NEW h \in Places, Queue!NextPlace(h) # r
  PROVE  Dist(r, h) < ShardCap - 1
<1>1. Queue!NextPlace(h) = IF h = ShardCap - 1 THEN 0 ELSE h + 1
  BY NextIs
<1> QED BY <1>1, CapOK DEF Dist

\* The account of a queue in terms of what a step changed.
LEMMA ShardIsOK ==
  ASSUME NEW s \in Shards, NEW e, NEW h, NEW r, NEW b, NEW m, NEW w, NEW d, NEW c,
         Account(e, h, r, b, m, w, d), Between(c, r, h),
         entries'[s] = e, prod_head'[s] = h, Read(s)' = r, Held(s)' = b, Placed(s)' = m,
         written'[s] = w, dropped'[s] = d, cons_tail'[s] = c, WorkerApart(s)'
  PROVE  ShardOK(s)'
  BY DEF ShardOK

LEMMA LoadIndicesKeeps ==
  ASSUME QueueInv, NEW s \in Shards, Queue!LoadIndices(s)
  PROVE  ShardOK(s)'
<1>1. QueueTyped /\ ShardOK(s) /\ Queue!Worker(s)
  BY DEF QueueInv, Queue!Worker
<1>2. Read(s)' = Read(s) /\ Held(s)' = Held(s) /\ UNCHANGED <<cons_tail, written>>
  BY <1>1, WorkerElsewhere
<1>3. /\ entries' = entries /\ prod_head' = prod_head /\ dropped' = dropped
      /\ offered'[s] = offered[s] + 1 /\ offered[s] \in Nat
      /\ log_workers[s].at = "idle" /\ log_workers'[s].head = prod_head[s]
      /\ log_workers'[s].at = IF Queue!Full(prod_head[s], cons_tail[s]) THEN "nudge" ELSE "store"
  BY <1>1 DEF QueueTyped, Queue!LoadIndices
<1>4. Placed(s)' = Placed(s)
  BY <1>3 DEF Placed, InHand
<1>5. log_workers'[s].at = "store" => Dist(cons_tail[s], prod_head[s]) < ShardCap - 1
  BY <1>1, <1>3, NotFull DEF QueueTyped, Queue!Full
<1>6. WorkerApart(s)'
  BY <1>2, <1>3, <1>5 DEF WorkerApart, InHand
<1> QED BY <1>1, <1>2, <1>3, <1>4, <1>6 DEF ShardOK

LEMMA NudgeKeeps ==
  ASSUME QueueInv, NEW s \in Shards, Queue!Nudge(s)
  PROVE  ShardOK(s)'
<1>1. QueueTyped /\ ShardOK(s) /\ Queue!Worker(s)
  BY DEF QueueInv, Queue!Worker
<1>2. Read(s)' = Read(s) /\ Held(s)' = Held(s) /\ UNCHANGED <<cons_tail, written>>
  BY <1>1, WorkerElsewhere
<1>3. /\ entries' = entries /\ prod_head' = prod_head /\ offered' = offered
      /\ dropped'[s] = dropped[s] \cup {offered[s]}
      /\ log_workers[s].at = "nudge" /\ log_workers'[s].at = "idle"
  BY <1>1 DEF QueueTyped, WorkerStates, Queue!Nudge
<1>4. Placed(s) \in Nat /\ Placed(s) + 1 = offered[s] /\ Placed(s)' = Placed(s) + 1
  <2>1. offered[s] \in Nat /\ offered[s] # 0
    BY <1>1, <1>3 DEF QueueTyped, ShardOK, WorkerApart, InHand
  <2>2. Placed(s) = offered[s] - 1 /\ Placed(s)' = offered[s]
    BY <1>3 DEF Placed, InHand
  <2> QED BY <2>1, <2>2
<1>5. Account(entries[s], prod_head[s], Read(s), Held(s), Placed(s) + 1, written[s],
              dropped[s] \cup {Placed(s) + 1})
  BY <1>1, <1>4, AccountDrop DEF ShardOK
<1>6. WorkerApart(s)'
  BY <1>3 DEF WorkerApart, InHand
<1> QED BY <1>1, <1>2, <1>3, <1>4, <1>5, <1>6 DEF ShardOK

LEMMA StoreEntryKeeps ==
  ASSUME QueueInv, NEW s \in Shards, Queue!StoreEntry(s)
  PROVE  ShardOK(s)'
<1>1. QueueTyped /\ ShardOK(s) /\ Queue!Worker(s)
  BY DEF QueueInv, Queue!Worker
<1>2. Read(s)' = Read(s) /\ Held(s)' = Held(s) /\ UNCHANGED <<cons_tail, written>>
  BY <1>1, WorkerElsewhere
<1>3. /\ log_workers[s].at = "store" /\ log_workers'[s].at = "publish"
      /\ log_workers'[s].head = log_workers[s].head
  BY <1>1 DEF QueueTyped, WorkerStates, Queue!StoreEntry
<1>4. /\ prod_head' = prod_head /\ offered' = offered /\ dropped' = dropped
      /\ entries'[s] = [entries[s] EXCEPT ![log_workers[s].head] = offered[s]]
  BY <1>1 DEF QueueTyped, Queue!StoreEntry, Queue!log
<1>5. log_workers[s].head = prod_head[s] /\ Dist(cons_tail[s], prod_head[s]) < ShardCap - 1
  BY <1>1, <1>3 DEF ShardOK, WorkerApart
<1>6. /\ entries[s] \in Ring /\ prod_head[s] \in Places /\ Read(s) \in Places
      /\ offered[s] \in Nat
  BY <1>1, ReadTyped DEF QueueTyped
<1>7. Account(entries'[s], prod_head[s], Read(s), Held(s), Placed(s), written[s], dropped[s])
  BY <1>1, <1>4, <1>5, <1>6, AccountStore DEF ShardOK
<1>8. Placed(s)' = Placed(s)
  BY <1>3, <1>4 DEF Placed, InHand
<1>9. entries'[s][prod_head[s]] = offered[s]
  BY <1>4, <1>5, <1>6 DEF Ring
<1>10. WorkerApart(s)'
  BY <1>1, <1>2, <1>3, <1>4, <1>5, <1>9 DEF WorkerApart, InHand, ShardOK
<1> QED BY <1>1, <1>2, <1>4, <1>7, <1>8, <1>10 DEF ShardOK

\* What the writer has still to read is less than the ring holds.
LEMMA RoomAhead ==
  ASSUME NEW c \in Places, NEW r \in Places, NEW h \in Places, Between(c, r, h)
  PROVE  Dist(r, h) <= Dist(c, h)
<1>1. Dist(c, r) \in Nat /\ Dist(r, h) \in Nat
  BY DistIs
<1> QED BY <1>1 DEF Between

LEMMA PublishEntryKeeps ==
  ASSUME QueueInv, NEW s \in Shards, Queue!PublishEntry(s)
  PROVE  /\ ShardOK(s)'
         /\ Dist(Read(s), prod_head'[s]) = Dist(Read(s), prod_head[s]) + 1
<1>1. QueueTyped /\ ShardOK(s) /\ Queue!Worker(s)
  BY DEF QueueInv, Queue!Worker
<1>2. Read(s)' = Read(s) /\ Held(s)' = Held(s) /\ UNCHANGED <<cons_tail, written>>
  BY <1>1, WorkerElsewhere
<1>3. log_workers[s].at = "publish" /\ log_workers'[s].at \in {"notify", "idle"}
  BY <1>1 DEF QueueTyped, WorkerStates, Queue!PublishEntry
<1>4. /\ entries' = entries /\ offered' = offered /\ dropped' = dropped
      /\ prod_head'[s] = Queue!NextPlace(log_workers[s].head)
  BY <1>1 DEF QueueTyped, Queue!PublishEntry, Queue!log
<1>5. /\ log_workers[s].head = prod_head[s] /\ Dist(cons_tail[s], prod_head[s]) < ShardCap - 1
      /\ entries[s][prod_head[s]] = offered[s] /\ offered[s] # 0
  BY <1>1, <1>3 DEF ShardOK, WorkerApart, InHand
<1>6. /\ entries[s] \in Ring /\ prod_head[s] \in Places /\ Read(s) \in Places
      /\ offered[s] \in Nat /\ cons_tail[s] \in Places
  BY <1>1, ReadTyped DEF QueueTyped
<1>7. Dist(Read(s), prod_head[s]) < ShardCap - 1
  <2>1. Dist(Read(s), prod_head[s]) <= Dist(cons_tail[s], prod_head[s])
    BY <1>1, <1>6, RoomAhead DEF ShardOK
  <2>2. Dist(Read(s), prod_head[s]) \in Nat /\ Dist(cons_tail[s], prod_head[s]) \in Nat
    BY <1>6, DistIs
  <2> QED BY <1>5, <2>1, <2>2, CapOK
<1>8. /\ Dist(Read(s), prod_head'[s]) = Dist(Read(s), prod_head[s]) + 1
      /\ Dist(cons_tail[s], prod_head'[s]) = Dist(cons_tail[s], prod_head[s]) + 1
  BY <1>4, <1>5, <1>6, <1>7, HeadMoves
<1>9. Placed(s) \in Nat /\ Placed(s) + 1 = offered[s] /\ Placed(s)' = Placed(s) + 1
  BY <1>3, <1>4, <1>5, <1>6 DEF Placed, InHand
<1>10. Account(entries[s], prod_head'[s], Read(s), Held(s), Placed(s) + 1, written[s], dropped[s])
  BY <1>1, <1>4, <1>5, <1>6, <1>7, <1>9, AccountPublish DEF ShardOK
<1>11. Between(cons_tail[s], Read(s), prod_head'[s])
  <2>1. Between(cons_tail[s], Read(s), prod_head[s])
    BY <1>1, Zenon DEF ShardOK
  <2>2. /\ Dist(cons_tail[s], Read(s)) \in Nat /\ Dist(Read(s), prod_head[s]) \in Nat
        /\ Dist(cons_tail[s], prod_head[s]) \in Nat
    BY <1>6, DistIs
  <2> QED BY <1>8, <2>1, <2>2 DEF Between
<1>12. WorkerApart(s)'
  BY <1>3 DEF WorkerApart, InHand
<1> QED BY <1>2, <1>4, <1>8, <1>9, <1>10, <1>11, <1>12 DEF ShardOK

LEMMA LogWorkerKeeps ==
  ASSUME QueueInv, NEW s \in Shards, Queue!Worker(s)
  PROVE  QueueInv'
<1>1. /\ QueueTyped /\ WriterApart /\ Ending /\ \A t \in Shards : ShardOK(t)
      /\ QueueTyped'
  BY WorkerTyped DEF QueueInv
<1>2. /\ UNCHANGED <<cons_tail, writer, written, stop>>
      /\ \A t \in Shards : t # s => Same(t)
      /\ \A t \in Shards : Read(t)' = Read(t) /\ Held(t)' = Held(t)
      /\ log_workers[s].at # "ended"
  BY <1>1, WorkerElsewhere
<1>3. Ending'
  BY <1>1, <1>2 DEF Ending
<1>4. CASE Queue!LoadIndices(s)
  <2>1. ShardOK(s)' /\ prod_head' = prod_head
    BY <1>4, LoadIndicesKeeps DEF Queue!LoadIndices
  <2> QED BY <1>1, <1>2, <1>3, <2>1, SameIsOK DEF QueueInv, WriterApart
<1>5. CASE Queue!Nudge(s)
  <2>1. ShardOK(s)' /\ prod_head' = prod_head
    BY <1>5, NudgeKeeps DEF Queue!Nudge
  <2> QED BY <1>1, <1>2, <1>3, <2>1, SameIsOK DEF QueueInv, WriterApart
<1>6. CASE Queue!StoreEntry(s)
  <2>1. ShardOK(s)' /\ prod_head' = prod_head
    BY <1>6, StoreEntryKeeps DEF Queue!StoreEntry
  <2> QED BY <1>1, <1>2, <1>3, <2>1, SameIsOK DEF QueueInv, WriterApart
<1>7. CASE Queue!PublishEntry(s)
  <2>1. ShardOK(s)' /\ Dist(Read(s), prod_head'[s]) = Dist(Read(s), prod_head[s]) + 1
    BY <1>7, PublishEntryKeeps
  <2>2. WriterApart'
    <3>1. CASE writer.at = "batch" /\ writer.i = s
      <4>1. /\ Read(s) = writer.batch_tail /\ writer.batch_tail \in Places
            /\ writer.head \in Places /\ prod_head[s] \in Places
        BY <1>1, <3>1 DEF Read, QueueTyped, WriterStates
      <4>2. Dist(writer.batch_tail, writer.head) <= Dist(writer.batch_tail, prod_head'[s])
        BY <1>1, <2>1, <3>1, <4>1, DistIs DEF WriterApart
      <4> QED BY <1>1, <1>2, <3>1, <4>2 DEF WriterApart
    <3>2. CASE ~(writer.at = "batch" /\ writer.i = s)
      BY <1>1, <1>2, <3>2 DEF WriterApart, Same
    <3> QED BY <3>1, <3>2
  <2> QED BY <1>1, <1>2, <1>3, <2>1, <2>2, SameIsOK DEF QueueInv
<1>8. CASE Queue!access_log_notify_writer(s) \/ Queue!WorkerEnds(s)
  <2>1. /\ entries' = entries /\ prod_head' = prod_head /\ offered' = offered
        /\ dropped' = dropped
    BY <1>8, Zenon DEF Queue!access_log_notify_writer, Queue!WorkerEnds, Queue!log
  <2>2. log_workers[s].at \in {"notify", "idle"} /\ log_workers'[s].at \in {"idle", "ended"}
    BY <1>1, <1>8 DEF QueueTyped, WorkerStates, Queue!access_log_notify_writer, Queue!WorkerEnds
  <2>3. Placed(s)' = Placed(s) /\ WorkerApart(s)'
    BY <2>1, <2>2 DEF Placed, InHand, WorkerApart
  <2>4. ShardOK(s)'
    BY <1>1, <1>2, <2>1, <2>3 DEF ShardOK
  <2> QED BY <1>1, <1>2, <1>3, <2>1, <2>4, SameIsOK DEF QueueInv, WriterApart
<1> QED BY <1>4, <1>5, <1>6, <1>7, <1>8 DEF Queue!Worker

-----------------------------------------------------------------------------
(* The steps of the writer *)

LEMMA RangeIsIn ==
  ASSUME NEW q \in Seq(Nat)
  PROVE  Queue!Range(q) = In(q)
  BY DEF Queue!Range, In

LEMMA ScanningIs ==
  /\ Queue!Scanning \in WriterStates /\ Queue!Scanning.at = "scan" /\ Queue!Scanning.i = 1
  /\ Queue!Scanning.stop = FALSE
<1>1. 0 \in Places /\ <<>> \in Seq(Nat)
  BY CapOK
<1> QED BY <1>1 DEF Queue!Scanning, WriterStates

\* v is w at the start of a batch from place tail to place head, or at the next shard.
Batched(v, w, tail, head) ==
  /\ v \in WriterStates /\ v.stop = w.stop
  /\ \/ v.at = "scan"
     \/ /\ v.at = "batch" /\ v.i = w.i /\ v.batch_tail = tail /\ v.head = head
        /\ v.batch = <<>>

LEMMA BatchingIs ==
  ASSUME NEW w \in WriterStates, NEW tail \in Places, NEW head \in Places
  PROVE  Batched(Queue!Batching(w, tail, head), w, tail, head)
<1>1. <<>> \in Seq(Nat)
  OBVIOUS
<1>2. CASE tail # head
  <2> DEFINE v == [w EXCEPT !.at = "batch", !.tail = tail, !.head = head,
                            !.batch_tail = tail, !.batch = <<>>]
  <2>1. v \in WriterStates
    BY <1>1 DEF WriterStates
  <2>2. /\ v.stop = w.stop /\ v.at = "batch" /\ v.i = w.i /\ v.batch_tail = tail
        /\ v.head = head /\ v.batch = <<>>
    BY DEF WriterStates
  <2>3. Queue!Batching(w, tail, head) = v
    BY <1>2 DEF Queue!Batching
  <2> HIDE DEF v
  <2> QED BY <2>1, <2>2, <2>3 DEF Batched
<1>3. CASE tail = head
  <2> DEFINE v == [w EXCEPT !.at = "scan", !.i = @ + 1]
  <2>0. w.i + 1 \in Nat \ {0}
    BY DEF WriterStates
  <2>1. v \in WriterStates
    BY <2>0 DEF WriterStates
  <2>2. v.stop = w.stop /\ v.at = "scan"
    BY DEF WriterStates
  <2>3. Queue!Batching(w, tail, head) = v
    BY <1>3 DEF Queue!Batching
  <2> HIDE DEF v
  <2> QED BY <2>1, <2>2, <2>3 DEF Batched
<1> QED BY <1>2, <1>3

\* The writer leaves the rings, the heads and the workers alone.
LEMMA WriterElsewhere ==
  ASSUME Queue!Writer
  PROVE  UNCHANGED <<entries, prod_head, stop, log_workers, offered>>
  BY Zenon DEF Queue!Writer, Queue!WriterUnchanged, Queue!WriterStarts, Queue!ScanShard,
     Queue!TakeEntry, Queue!ReleaseBatch, Queue!WriteBatch, Queue!ScanEnds, Queue!CheckShard,
     Queue!AllEmpty, Queue!ReadWake, Queue!PollWake

\* A step in which the writer has no batch before and an empty one, or none, after.
LEMMA NoBatchKeeps ==
  ASSUME QueueInv, UNCHANGED <<entries, prod_head, stop, log_workers, offered>>,
         UNCHANGED <<cons_tail, written, dropped>>,
         writer.at \notin {"batch", "write"}, writer'.at # "write",
         writer'.at = "batch" => writer'.batch = <<>> /\ writer'.i \in Shards /\
                                 writer'.batch_tail = cons_tail[writer'.i]
  PROVE  \A t \in Shards : ShardOK(t)'
<1> TAKE t \in Shards
<1>1. Read(t)' = Read(t) /\ Held(t)' = Held(t)
  BY DEF Read, Held
<1>2. Same(t)
  BY DEF Same
<1> QED BY <1>1, <1>2, SameIsOK DEF QueueInv

\* A step to a state in which the writer has no batch.
LEMMA RestKeeps ==
  ASSUME QueueInv, UNCHANGED <<entries, prod_head, stop, log_workers, offered>>,
         UNCHANGED <<cons_tail, written, dropped>>, writer' \in WriterStates,
         writer.at \notin {"batch", "write"}, writer'.at \notin {"batch", "write"},
         Ending'
  PROVE  QueueInv'
<1>1. \A t \in Shards : ShardOK(t)'
  BY NoBatchKeeps
<1>2. QueueTyped' /\ WriterApart'
  BY DEF QueueInv, QueueTyped, WriterApart
<1> QED BY <1>1, <1>2 DEF QueueInv

LEMMA WriterStartsKeeps ==
  ASSUME QueueInv, Queue!WriterStarts
  PROVE  QueueInv'
<1>1. /\ UNCHANGED <<entries, prod_head, stop, log_workers, offered>>
      /\ UNCHANGED <<cons_tail, written, dropped>> /\ writer.at = "start"
      /\ (writer' = Queue!Scanning \/ writer' = [writer EXCEPT !.at = "failed"])
  BY DEF Queue!WriterStarts, Queue!WriterUnchanged
<1>2. writer \in WriterStates /\ Ending
  BY DEF QueueInv, QueueTyped
<1>3. /\ writer' \in WriterStates /\ writer'.at \in {"scan", "failed"}
      /\ writer'.stop => writer.stop
  BY <1>1, <1>2, ScanningIs DEF WriterStates
<1>4. Ending'
  BY <1>1, <1>2, <1>3 DEF Ending
<1> QED BY <1>1, <1>3, <1>4, RestKeeps

LEMMA ScanShardKeeps ==
  ASSUME QueueInv, Queue!ScanShard
  PROVE  QueueInv'
<1>1. /\ UNCHANGED <<entries, prod_head, stop, log_workers, offered>>
      /\ UNCHANGED <<cons_tail, written, dropped>> /\ writer.at = "scan" /\ writer.i \in Shards
      /\ writer' = Queue!Batching(writer, cons_tail[writer.i], prod_head[writer.i])
  BY DEF Queue!ScanShard, Queue!WriterUnchanged, Queue!Shards, Shards
<1>2. QueueTyped /\ Ending /\ writer \in WriterStates
      /\ cons_tail[writer.i] \in Places /\ prod_head[writer.i] \in Places
  BY <1>1 DEF QueueInv, QueueTyped
<1>3. /\ writer' \in WriterStates /\ writer'.stop = writer.stop
      /\ \/ writer'.at = "scan"
         \/ /\ writer'.at = "batch" /\ writer'.i = writer.i
            /\ writer'.batch_tail = cons_tail[writer.i] /\ writer'.head = prod_head[writer.i]
            /\ writer'.batch = <<>>
  <2>1. Batched(writer', writer, cons_tail[writer.i], prod_head[writer.i])
    BY <1>1, <1>2, BatchingIs
  <2> QED BY <2>1 DEF Batched
<1>4. \A t \in Shards : ShardOK(t)'
  BY <1>1, <1>3, NoBatchKeeps
<1>5. QueueTyped'
  BY <1>1, <1>2, <1>3 DEF QueueTyped
<1>6. Ending'
  BY <1>1, <1>2, <1>3 DEF Ending
<1>7. WriterApart'
  <2>1. Dist(cons_tail[writer.i], prod_head[writer.i]) \in Nat
    BY <1>2, DistIs
  <2> QED BY <1>1, <1>3, <2>1 DEF WriterApart
<1> QED BY <1>4, <1>5, <1>6, <1>7 DEF QueueInv

LEMMA ScanEndsKeeps ==
  ASSUME QueueInv, Queue!ScanEnds
  PROVE  QueueInv'
<1>1. /\ UNCHANGED <<entries, prod_head, stop, log_workers, offered>>
      /\ UNCHANGED <<cons_tail, written, dropped>> /\ writer.at = "scan"
      /\ \/ writer' = Queue!Scanning
         \/ writer' = [Queue!Scanning EXCEPT !.at = "check", !.stop = stop]
  BY DEF Queue!ScanEnds, Queue!WriterUnchanged
<1>2. stop \in BOOLEAN /\ Ending
  BY DEF QueueInv, QueueTyped
<1>3. /\ writer' \in WriterStates /\ writer'.at \in {"scan", "check"}
      /\ writer'.stop => stop
      /\ writer'.i = 1
  BY <1>1, <1>2, ScanningIs DEF WriterStates
<1>4. \A s \in Shards : ~(s < 1)
  BY CapOK DEF Shards
<1>5. Ending'
  BY <1>1, <1>2, <1>3, <1>4 DEF Ending
<1> QED BY <1>1, <1>3, <1>5, RestKeeps

LEMMA CheckShardKeeps ==
  ASSUME QueueInv, Queue!CheckShard
  PROVE  QueueInv'
<1>1. /\ UNCHANGED <<entries, prod_head, stop, log_workers, offered>>
      /\ UNCHANGED <<cons_tail, written, dropped>> /\ writer.at = "check" /\ writer.i \in Shards
      /\ \/ writer' = Queue!Scanning
         \/ /\ writer' = [writer EXCEPT !.i = @ + 1]
            /\ prod_head[writer.i] = cons_tail[writer.i]
  BY DEF Queue!CheckShard, Queue!WriterUnchanged, Queue!Shards, Shards, Queue!Empty
<1>2. writer \in WriterStates /\ Ending
  BY DEF QueueInv, QueueTyped
<1>3. CASE writer' = Queue!Scanning
  <2>1. Ending'
    BY <1>1, <1>2, <1>3, ScanningIs DEF Ending
  <2> QED BY <1>1, <1>3, <2>1, ScanningIs, RestKeeps
<1>4. CASE writer' = [writer EXCEPT !.i = @ + 1] /\ prod_head[writer.i] = cons_tail[writer.i]
  <2>1. /\ writer' \in WriterStates /\ writer'.at = "check" /\ writer'.stop = writer.stop
        /\ writer'.i = writer.i + 1 /\ writer.i \in Nat
    BY <1>1, <1>2, <1>4 DEF WriterStates
  <2>2. \A s \in Shards : s < writer.i + 1 => s < writer.i \/ s = writer.i
    BY <2>1, CapOK DEF Shards
  <2>3. Ending'
    BY <1>1, <1>2, <1>4, <2>1, <2>2 DEF Ending
  <2> QED BY <1>1, <2>1, <2>3, RestKeeps
<1> QED BY <1>1, <1>3, <1>4

LEMMA AllEmptyKeeps ==
  ASSUME QueueInv, Queue!AllEmpty
  PROVE  QueueInv'
<1>1. /\ UNCHANGED <<entries, prod_head, stop, log_workers, offered>>
      /\ UNCHANGED <<cons_tail, written, dropped>> /\ writer.at = "check" /\ writer.i \notin Shards
      /\ writer' = [Queue!Scanning EXCEPT !.at = IF writer.stop THEN "done" ELSE "sleep"]
  BY DEF Queue!AllEmpty, Queue!CheckEnds, Queue!WriterUnchanged, Queue!Shards, Shards
<1>2. writer \in WriterStates /\ Ending
  BY DEF QueueInv, QueueTyped
<1>3. /\ writer' \in WriterStates /\ writer'.stop = FALSE
      /\ writer'.at = IF writer.stop THEN "done" ELSE "sleep"
  BY <1>1, <1>2, ScanningIs DEF WriterStates
<1>4. \A s \in Shards : s < writer.i
  <2>1. writer.i \in Nat \ {0}
    BY <1>2 DEF WriterStates
  <2> QED BY <1>1, <2>1, CapOK DEF Shards
<1>5. Ending'
  BY <1>1, <1>2, <1>3, <1>4 DEF Ending
<1> QED BY <1>1, <1>3, <1>5, RestKeeps

LEMMA WakeKeeps ==
  ASSUME QueueInv, Queue!ReadWake \/ Queue!PollWake
  PROVE  QueueInv'
<1>1. /\ UNCHANGED <<entries, prod_head, stop, log_workers, offered>>
      /\ UNCHANGED <<cons_tail, written, dropped>> /\ writer.at \in {"sleep", "poll"}
      /\ (writer' = Queue!Scanning \/ writer' = [writer EXCEPT !.at = "poll"])
  BY DEF Queue!ReadWake, Queue!PollWake, Queue!WriterUnchanged
<1>2. writer \in WriterStates /\ Ending
  BY DEF QueueInv, QueueTyped
<1>3. /\ writer' \in WriterStates /\ writer'.at \in {"scan", "poll"}
      /\ writer'.stop => writer.stop
  BY <1>1, <1>2, ScanningIs DEF WriterStates
<1>4. Ending'
  BY <1>1, <1>2, <1>3 DEF Ending
<1> QED BY <1>1, <1>3, <1>4, RestKeeps

LEMMA TakeEntryKeeps ==
  ASSUME QueueInv, Queue!TakeEntry
  PROVE  QueueInv'
<1>0. PICK i \in Shards : i = writer.i
  BY DEF QueueInv, WriterApart, Queue!TakeEntry
<1> DEFINE r == writer.batch_tail
           n == Queue!NextPlace(r)
           h == prod_head[i]
<1>1. /\ UNCHANGED <<entries, prod_head, stop, log_workers, offered>>
      /\ UNCHANGED <<cons_tail, written>> /\ writer.at = "batch" /\ r # writer.head
      /\ \/ /\ writer' = [writer EXCEPT !.batch = Append(@, entries[i][r]), !.batch_tail = n]
            /\ dropped' = dropped
         \/ /\ writer' = [writer EXCEPT !.batch_tail = n]
            /\ dropped' = [dropped EXCEPT ![i] = @ \cup {entries[i][r]}]
  BY <1>0 DEF Queue!TakeEntry, Queue!BatchOpen, Queue!WriterUnchanged
<1>2. /\ QueueTyped /\ WriterApart /\ Ending /\ \A t \in Shards : ShardOK(t)
      /\ writer \in WriterStates
  BY <1>1 DEF QueueInv, QueueTyped, WriterApart
<1>3. /\ r \in Places /\ writer.head \in Places /\ h \in Places /\ cons_tail[i] \in Places
      /\ entries[i] \in Ring /\ writer.batch \in Seq(Nat) /\ written[i] \in Seq(Nat)
      /\ dropped[i] \in SUBSET Nat
  BY <1>2 DEF QueueTyped, WriterStates
<1>4. Read(i) = r /\ Held(i) = writer.batch
  BY <1>0, <1>1 DEF Read, Held
<1>5. r # h
  BY <1>0, <1>1, <1>2, <1>3, DistIs DEF WriterApart
<1>6. entries[i][r] \in Nat /\ n \in Places
  BY <1>3, <1>5, ReaderMoves DEF Ring
<1>7. Dist(n, writer.head) <= Dist(n, h)
  <2>1. Dist(n, writer.head) = Dist(r, writer.head) - 1 /\ Dist(n, h) = Dist(r, h) - 1
    BY <1>1, <1>3, <1>5, ReaderMoves
  <2>2. Dist(r, writer.head) \in Nat /\ Dist(r, h) \in Nat
    BY <1>3, DistIs
  <2>3. Dist(r, writer.head) <= Dist(r, h)
    BY <1>0, <1>1, <1>2 DEF WriterApart
  <2> QED BY <2>1, <2>2, <2>3
<1>8. Between(cons_tail[i], n, h)
  <2>1. Between(cons_tail[i], Read(i), prod_head[i])
    BY <1>2, Zenon DEF ShardOK
  <2>2. Between(cons_tail[i], r, h)
    BY <1>4, <2>1, Zenon
  <2> HIDE DEF r, h
  <2>3. r \in Places /\ h \in Places /\ cons_tail[i] \in Places
    BY <1>3
  <2> QED BY <1>5, <2>2, <2>3, ReaderStays, Zenon
<1>9. /\ writer' \in WriterStates /\ writer'.at = "batch" /\ writer'.i = i /\ writer'.batch_tail = n
      /\ writer'.head = writer.head /\ writer'.stop = writer.stop
      /\ \/ writer'.batch = Append(writer.batch, entries[i][r]) /\ dropped' = dropped
         \/ /\ writer'.batch = writer.batch
            /\ dropped' = [dropped EXCEPT ![i] = @ \cup {entries[i][r]}]
  <2>1. Append(writer.batch, entries[i][r]) \in Seq(Nat)
    BY <1>3, <1>6
  <2> QED BY <1>0, <1>1, <1>2, <1>6, <2>1 DEF WriterStates
<1> HIDE DEF r, n, h
<1>10. QueueTyped'
  <2>1. dropped[i] \cup {entries[i][r]} \in SUBSET Nat
    BY <1>3, <1>6
  <2>2. dropped' \in [Shards -> SUBSET Nat]
    BY <1>2, <1>9, <2>1 DEF QueueTyped
  <2> QED BY <1>1, <1>2, <1>9, <2>2 DEF QueueTyped
<1>11. WriterApart' /\ Ending'
  BY <1>1, <1>2, <1>7, <1>9 DEF WriterApart, Ending, h
<1>12. Read(i)' = n /\ Held(i)' = writer'.batch
  BY <1>9 DEF Read, Held
<1>13. ASSUME NEW t \in Shards, t # i PROVE ShardOK(t)'
  <2>1. Read(t)' = Read(t) /\ Held(t)' = Held(t)
    BY <1>0, <1>1, <1>9, <1>13 DEF Read, Held
  <2>2. Same(t)
    BY <1>1, <1>2, <1>9, <1>13 DEF Same, QueueTyped
  <2> QED BY <1>2, <2>1, <2>2, SameIsOK
<1>14. ShardOK(i)'
  <2>1. Account(entries[i], h, r, writer.batch, Placed(i), written[i], dropped[i])
    BY <1>2, <1>4 DEF ShardOK, h
  <2>2. Account(entries[i], h, n, writer'.batch, Placed(i), written[i], dropped'[i])
    <3>1. CASE writer'.batch = Append(writer.batch, entries[i][r]) /\ dropped' = dropped
      BY <1>3, <1>5, <2>1, <3>1, AccountTake DEF n
    <3>2. CASE /\ writer'.batch = writer.batch
               /\ dropped' = [dropped EXCEPT ![i] = @ \cup {entries[i][r]}]
      <4>1. dropped'[i] = dropped[i] \cup {entries[i][r]}
        BY <1>2, <3>2 DEF QueueTyped
      <4>2. Account(entries[i], h, n, writer.batch, Placed(i), written[i],
                    dropped[i] \cup {entries[i][r]})
        BY <1>3, <1>5, <2>1, AccountTakeDrop DEF n
      <4> QED BY <3>2, <4>1, <4>2
    <3> QED BY <1>9, <3>1, <3>2
  <2>3. Placed(i)' = Placed(i) /\ WorkerApart(i)'
    BY <1>1, <1>2, <1>9 DEF Placed, InHand, WorkerApart, ShardOK
  <2> QED BY <1>1, <1>8, <1>9, <1>12, <2>2, <2>3 DEF ShardOK, h
<1> QED BY <1>10, <1>11, <1>13, <1>14 DEF QueueInv

LEMMA ReleaseBatchKeeps ==
  ASSUME QueueInv, Queue!ReleaseBatch
  PROVE  QueueInv'
<1>0. PICK i \in Shards : i = writer.i
  BY DEF QueueInv, WriterApart, Queue!ReleaseBatch
<1> DEFINE r == writer.batch_tail
           h == prod_head[i]
<1>1. /\ UNCHANGED <<entries, prod_head, stop, log_workers, offered>>
      /\ UNCHANGED <<written, dropped>> /\ writer.at = "batch"
      /\ cons_tail' = [cons_tail EXCEPT ![i] = r]
      /\ \/ writer.batch = <<>> /\ writer' = Queue!Batching(writer, r, h)
         \/ writer' = [writer EXCEPT !.at = "write"]
  BY <1>0 DEF Queue!ReleaseBatch, Queue!WriterUnchanged
<1>2. /\ QueueTyped /\ WriterApart /\ Ending /\ \A t \in Shards : ShardOK(t)
      /\ writer \in WriterStates
  BY <1>1 DEF QueueInv, QueueTyped, WriterApart
<1>3. r \in Places /\ h \in Places /\ cons_tail[i] \in Places
  BY <1>2 DEF QueueTyped, WriterStates
<1>4. /\ Read(i) = r /\ Held(i) = writer.batch /\ cons_tail'[i] = r
      /\ \A t \in Shards : t # i => cons_tail'[t] = cons_tail[t]
  BY <1>0, <1>1, <1>2 DEF Read, Held, QueueTyped
<1>5. /\ writer' \in WriterStates /\ writer'.stop = writer.stop
      /\ \/ writer.batch = <<>> /\ writer'.at = "scan"
         \/ /\ writer.batch = <<>> /\ writer'.at = "batch" /\ writer'.i = i
            /\ writer'.batch_tail = r /\ writer'.head = h /\ writer'.batch = <<>>
         \/ /\ writer'.at = "write" /\ writer'.i = i /\ writer'.batch_tail = r
            /\ writer'.batch = writer.batch
  <2>1. CASE writer.batch = <<>> /\ writer' = Queue!Batching(writer, r, h)
    <3>1. Batched(writer', writer, r, h)
      BY <1>2, <1>3, <2>1, BatchingIs
    <3> QED BY <1>0, <2>1, <3>1 DEF Batched
  <2>2. CASE writer' = [writer EXCEPT !.at = "write"]
    BY <1>0, <1>2, <2>2 DEF WriterStates
  <2> QED BY <1>1, <2>1, <2>2
<1>6. Dist(r, r) = 0 /\ Dist(r, h) \in Nat /\ Dist(r, h) <= Dist(cons_tail[i], h)
      /\ Dist(cons_tail[i], h) \in Nat
  BY <1>2, <1>3, <1>4, DistIs, RoomAhead DEF ShardOK
<1> HIDE DEF r, h
<1>7. QueueTyped'
  BY <1>1, <1>2, <1>3, <1>5 DEF QueueTyped
<1>8. WriterApart' /\ Ending'
  BY <1>1, <1>2, <1>4, <1>5, <1>6 DEF WriterApart, Ending, h
<1>9. Read(i)' = r /\ Held(i)' = writer.batch
  BY <1>4, <1>5 DEF Read, Held
<1>10. ASSUME NEW t \in Shards, t # i PROVE ShardOK(t)'
  <2>1. Read(t)' = Read(t) /\ Held(t)' = Held(t)
    BY <1>0, <1>1, <1>4, <1>5, <1>10 DEF Read, Held
  <2>2. Same(t)
    BY <1>1, <1>4, <1>10 DEF Same
  <2> QED BY <1>2, <2>1, <2>2, SameIsOK
<1>11. ShardOK(i)'
  <2>1. Account(entries[i], h, r, writer.batch, Placed(i), written[i], dropped[i])
    BY <1>2, <1>4 DEF ShardOK, h
  <2>2. Placed(i)' = Placed(i)
    BY <1>1, <1>5 DEF Placed, InHand
  <2>3. WorkerApart(i)'
    <3>1. WorkerApart(i)
      BY <1>2 DEF ShardOK
    <3>2. Dist(cons_tail[i], h) < ShardCap - 1 => Dist(r, h) < ShardCap - 1
      BY <1>6, CapOK
    <3> QED BY <1>1, <1>4, <3>1, <3>2 DEF WorkerApart, InHand, h
  <2>4. Between(r, r, h)
    BY <1>6 DEF Between
  <2> QED BY <1>1, <1>4, <1>9, <2>1, <2>2, <2>3, <2>4 DEF ShardOK, h
<1> QED BY <1>7, <1>8, <1>10, <1>11 DEF QueueInv

LEMMA WriteBatchKeeps ==
  ASSUME QueueInv, Queue!WriteBatch
  PROVE  QueueInv'
<1>0. PICK i \in Shards : i = writer.i
  BY DEF QueueInv, WriterApart, Queue!WriteBatch
<1> DEFINE c == cons_tail[i]
           h == prod_head[i]
           b == writer.batch
<1>1. /\ UNCHANGED <<entries, prod_head, stop, log_workers, offered>>
      /\ cons_tail' = cons_tail /\ writer.at = "write"
      /\ \/ written' = [written EXCEPT ![i] = @ \o b] /\ dropped' = dropped
         \/ dropped' = [dropped EXCEPT ![i] = @ \cup Queue!Range(b)] /\ written' = written
      /\ writer' = Queue!Batching([writer EXCEPT !.did_work = TRUE], writer.batch_tail, h)
  BY <1>0 DEF Queue!WriteBatch, Queue!WriterUnchanged
<1>2. /\ QueueTyped /\ WriterApart /\ Ending /\ \A t \in Shards : ShardOK(t)
      /\ writer \in WriterStates /\ c = writer.batch_tail
  BY <1>0, <1>1 DEF QueueInv, QueueTyped, WriterApart
<1>3. /\ c \in Places /\ h \in Places /\ entries[i] \in Ring /\ b \in Seq(Nat)
      /\ written[i] \in Seq(Nat) /\ dropped[i] \in SUBSET Nat
  BY <1>2 DEF QueueTyped, WriterStates
<1>4. Read(i) = c /\ Held(i) = b
  BY <1>0, <1>1 DEF Read, Held
<1>5. /\ writer' \in WriterStates /\ writer'.stop = writer.stop
      /\ \/ writer'.at = "scan"
         \/ /\ writer'.at = "batch" /\ writer'.i = i /\ writer'.batch_tail = c
            /\ writer'.head = h /\ writer'.batch = <<>>
  <2> DEFINE v == [writer EXCEPT !.did_work = TRUE]
  <2>1. v \in WriterStates /\ v.i = i /\ v.stop = writer.stop
    BY <1>0, <1>2 DEF WriterStates
  <2> HIDE DEF v, c, h
  <2>2. Batched(Queue!Batching(v, c, h), v, c, h)
    BY <1>3, <2>1, BatchingIs
  <2>3. writer' = Queue!Batching(v, c, h)
    BY <1>1, <1>2 DEF v
  <2>4. Batched(writer', v, c, h)
    BY <2>2, <2>3
  <2> QED BY <2>1, <2>4 DEF Batched
<1>6. Queue!Range(b) = In(b) /\ In(b) \in SUBSET Nat /\ written[i] \o b \in Seq(Nat)
  BY <1>3, RangeIsIn, InTyped, InConcat
<1> HIDE DEF b, c, h
<1>7. \/ /\ written'[i] = written[i] \o b /\ dropped'[i] = dropped[i]
      \/ /\ written'[i] = written[i] /\ dropped'[i] = dropped[i] \cup In(b)
  BY <1>1, <1>2, <1>6 DEF QueueTyped
<1>8. /\ written' \in [Shards -> Seq(Nat)] /\ dropped' \in [Shards -> SUBSET Nat]
      /\ \A t \in Shards : t # i => written'[t] = written[t] /\ dropped'[t] = dropped[t]
  <2>1. dropped[i] \cup Queue!Range(b) \in SUBSET Nat
    BY <1>3, <1>6
  <2> QED BY <1>1, <1>2, <1>6, <2>1 DEF QueueTyped
<1>9. QueueTyped'
  BY <1>1, <1>2, <1>5, <1>8 DEF QueueTyped
<1>10. WriterApart' /\ Ending'
  <2>1. Dist(c, h) \in Nat
    BY <1>3, DistIs
  <2> QED BY <1>1, <1>2, <1>5, <2>1 DEF WriterApart, Ending, c, h
<1>11. Read(i)' = c /\ Held(i)' = <<>>
  BY <1>1, <1>5 DEF Read, Held, c
<1>12. ASSUME NEW t \in Shards, t # i PROVE ShardOK(t)'
  <2>1. Read(t)' = Read(t) /\ Held(t)' = Held(t)
    BY <1>0, <1>1, <1>5, <1>12 DEF Read, Held
  <2>2. Same(t)
    BY <1>1, <1>8, <1>12 DEF Same
  <2> QED BY <1>2, <2>1, <2>2, SameIsOK
<1>13. ShardOK(i)'
  <2>1. Account(entries[i], h, c, b, Placed(i), written[i], dropped[i])
    BY <1>2, <1>4 DEF ShardOK, h
  <2>2. Account(entries[i], h, c, <<>>, Placed(i), written'[i], dropped'[i])
    <3>1. CASE written'[i] = written[i] \o b /\ dropped'[i] = dropped[i]
      BY <1>3, <2>1, <3>1, AccountWrite
    <3>2. CASE written'[i] = written[i] /\ dropped'[i] = dropped[i] \cup In(b)
      <4>1. Account(entries[i], h, c, <<>>, Placed(i), written[i], dropped[i] \cup In(b))
        BY <1>3, <2>1, AccountWriteFails
      <4> QED BY <3>2, <4>1
    <3> QED BY <1>7, <3>1, <3>2
  <2>3. Placed(i)' = Placed(i)
    BY <1>1 DEF Placed, InHand
  <2>4. WorkerApart(i)'
    BY <1>1, <1>2 DEF WorkerApart, InHand, ShardOK
  <2>5. Between(c, c, h)
    BY <1>2, <1>4 DEF ShardOK, c, h
  <2> QED BY <1>1, <1>11, <2>2, <2>3, <2>4, <2>5 DEF ShardOK, c, h
<1> QED BY <1>9, <1>10, <1>12, <1>13 DEF QueueInv

LEMMA LogMainKeeps ==
  ASSUME QueueInv, Queue!Main
  PROVE  QueueInv'
<1>1. UNCHANGED <<entries, prod_head, cons_tail, log_workers, writer, offered, written, dropped>>
  BY Zenon DEF Queue!Main, Queue!SetStop, Queue!NotifyStop, Queue!Join, Queue!log
<1>2. stop' = stop \/ (stop' = TRUE /\ \A s \in Shards : log_workers[s].at = "ended")
  BY Zenon DEF Queue!Main, Queue!SetStop, Queue!NotifyStop, Queue!Join, Queue!Shards, Shards
<1>3. \A t \in Shards : ShardOK(t)'
  <2> TAKE t \in Shards
  <2>1. Same(t) /\ Read(t)' = Read(t) /\ Held(t)' = Held(t)
    BY <1>1 DEF Same, Read, Held
  <2> QED BY <2>1, SameIsOK DEF QueueInv
<1>4. QueueTyped' /\ WriterApart'
  BY <1>1, <1>2 DEF QueueInv, QueueTyped, WriterApart
<1>5. Ending'
  <2>1. Ending
    BY Zenon DEF QueueInv
  <2>2. CASE stop' = stop
    BY <1>1, <2>1, <2>2, Zenon DEF Ending
  <2>3. CASE stop' = TRUE /\ \A s \in Shards : log_workers[s].at = "ended"
    <3>1. /\ stop' => \A s \in Shards : log_workers'[s].at = "ended"
          /\ writer'.stop => stop'
      BY <1>1, <2>3, Zenon
    <3>2. /\ writer'.at = "check" /\ writer'.stop =>
               \A s \in Shards : s < writer'.i => prod_head'[s] = cons_tail'[s]
          /\ writer'.at = "done" => stop' /\ \A s \in Shards : prod_head'[s] = cons_tail'[s]
      BY <1>1, <2>1, <2>3, Zenon DEF Ending
    <3> QED BY <3>1, <3>2, Zenon DEF Ending
  <2> QED BY <1>2, <2>2, <2>3
<1> QED BY <1>3, <1>4, <1>5 DEF QueueInv

LEMMA QueueInit == Queue!Init => QueueInv
<1> SUFFICES ASSUME Queue!Init PROVE QueueInv
  OBVIOUS
<1>1. 0 \in Places /\ <<>> \in Seq(Nat) /\ {} \in SUBSET Nat
  BY CapOK
<1>2. /\ writer = [Queue!Scanning EXCEPT !.at = "start"]
      /\ entries = [s \in Shards |-> [p \in Places |-> 0]]
      /\ prod_head = [s \in Shards |-> 0] /\ cons_tail = [s \in Shards |-> 0]
      /\ log_workers = [s \in Shards |-> [at |-> "idle", head |-> 0, tail |-> 0]]
      /\ stop = FALSE /\ offered = [s \in Shards |-> 0] /\ written = [s \in Shards |-> <<>>]
      /\ dropped = [s \in Shards |-> {}]
  BY DEF Queue!Init, Queue!Shards, Queue!Places, Shards
<1>3. writer \in WriterStates /\ writer.at = "start" /\ writer.stop = FALSE
  BY <1>2, ScanningIs DEF WriterStates
<1>4. QueueTyped
  <2>1. [p \in Places |-> 0] \in Ring
    BY DEF Ring
  <2>2. [at |-> "idle", head |-> 0, tail |-> 0] \in WorkerStates
    BY <1>1 DEF WorkerStates
  <2> QED BY <1>1, <1>2, <1>3, <2>1, <2>2 DEF QueueTyped
<1>5. WriterApart /\ Ending
  BY <1>2, <1>3 DEF WriterApart, Ending
<1>6. ASSUME NEW s \in Shards PROVE ShardOK(s)
  <2>1. /\ prod_head[s] = 0 /\ Read(s) = 0 /\ Held(s) = <<>> /\ Placed(s) = 0 /\ written[s] = <<>>
        /\ dropped[s] = {} /\ cons_tail[s] = 0 /\ log_workers[s].at = "idle"
    BY <1>2, <1>3 DEF Read, Held, Placed, InHand
  <2>2. \A p \in Places : ~Ready(0, 0, p)
    <3> TAKE p \in Places
    <3>1. Dist(0, 0) = 0 /\ Dist(0, p) \in Nat
      BY <1>1, DistIs
    <3> QED BY <3>1 DEF Ready
  <2>3. Account(entries[s], 0, 0, <<>>, 0, <<>>, {})
    <3> DEFINE z == <<>>
    <3>1. In(z) = {} /\ Ascends(z) /\ 1 .. 0 = {}
      BY InEmpty
    <3> HIDE DEF z
    <3>2. Kept(entries[s], 0, 0, z, z) = {}
      BY <2>2, <3>1, Zenon DEF Kept
    <3>3. Account(entries[s], 0, 0, z, 0, z, {})
      BY <2>2, <3>1, <3>2, Zenon DEF Account
    <3> QED BY <3>3 DEF z
  <2>4. Between(0, 0, 0)
    BY <1>1, DistIs DEF Between
  <2>5. WorkerApart(s)
    BY <2>1 DEF WorkerApart, InHand
  <2> QED BY <2>1, <2>3, <2>4, <2>5 DEF ShardOK
<1> QED BY <1>4, <1>5, <1>6 DEF QueueInv

LEMMA QueueNext == QueueInv /\ Queue!Next => QueueInv'
<1> SUFFICES ASSUME QueueInv, Queue!Next PROVE QueueInv'
  OBVIOUS
<1>1. CASE Queue!Main
  BY <1>1, LogMainKeeps
<1>2. CASE \E s \in Shards : Queue!Worker(s)
  BY <1>2, LogWorkerKeeps
<1>3. CASE Queue!Writer
  <2>1. CASE Queue!ReadWake \/ Queue!PollWake
    BY <2>1, WakeKeeps
  <2>2. CASE Queue!WriterStarts \/ Queue!ScanShard \/ Queue!TakeEntry \/ Queue!ReleaseBatch
    BY <2>2, WriterStartsKeeps, ScanShardKeeps, TakeEntryKeeps, ReleaseBatchKeeps
  <2>3. CASE Queue!WriteBatch \/ Queue!ScanEnds \/ Queue!CheckShard \/ Queue!AllEmpty
    BY <2>3, WriteBatchKeeps, ScanEndsKeeps, CheckShardKeeps, AllEmptyKeeps
  <2> QED BY <1>3, <2>1, <2>2, <2>3 DEF Queue!Writer
<1> QED BY <1>1, <1>2, <1>3 DEF Queue!Next, Queue!Shards, Shards

LEMMA QueueSame == QueueInv /\ UNCHANGED queue => QueueInv'
<1> SUFFICES ASSUME QueueInv, UNCHANGED queue PROVE QueueInv'
  OBVIOUS
<1>1. /\ UNCHANGED <<entries, prod_head, cons_tail, stop, log_workers, writer>>
      /\ UNCHANGED <<offered, written, dropped>>
  BY DEF queue
<1>2. \A t \in Shards : ShardOK(t)'
  <2> TAKE t \in Shards
  <2>1. Same(t) /\ Read(t)' = Read(t) /\ Held(t)' = Held(t)
    BY <1>1 DEF Same, Read, Held
  <2> QED BY <2>1, SameIsOK DEF QueueInv
<1>3. QueueTyped' /\ WriterApart' /\ Ending'
  BY <1>1 DEF QueueInv, QueueTyped, WriterApart, Ending
<1> QED BY <1>2, <1>3 DEF QueueInv

\* What the invariant says of the file.
LEMMA QueueLines == QueueInv => Queue!LinesInOrder /\ Queue!ShutdownWritesAll
<1> SUFFICES ASSUME QueueInv PROVE Queue!LinesInOrder /\ Queue!ShutdownWritesAll
  OBVIOUS
<1>1. ASSUME NEW s \in Shards
      PROVE  /\ written[s] \in Seq(Nat) /\ DOMAIN written[s] = 1 .. Len(written[s])
             /\ Queue!Range(written[s]) = In(written[s]) /\ Ascends(written[s])
             /\ In(written[s]) \cap dropped[s] = {}
  <2>1. written[s] \in Seq(Nat)
    BY DEF QueueInv, QueueTyped
  <2>2. Account(entries[s], prod_head[s], Read(s), Held(s), Placed(s), written[s], dropped[s])
    BY DEF QueueInv, ShardOK
  <2>3. Ascends(written[s]) /\ In(written[s]) \cap dropped[s] = {}
    BY <2>2, Zenon DEF Account, Kept
  <2> QED BY <2>1, <2>3, RangeIsIn
<1>2. Queue!LinesInOrder
  BY <1>1 DEF Queue!LinesInOrder, Queue!Shards, Shards, Ascends
<1>3. ASSUME writer.at = "done", NEW s \in Shards
      PROVE  In(written[s]) \cup dropped[s] = 1 .. offered[s]
  <2>1. prod_head[s] = cons_tail[s] /\ log_workers[s].at = "ended" /\ cons_tail[s] \in Places
    BY <1>3 DEF QueueInv, QueueTyped, Ending
  <2>2. Read(s) = cons_tail[s] /\ Held(s) = <<>> /\ Placed(s) = offered[s]
    BY <1>3, <2>1 DEF Read, Held, Placed, InHand
  <2>3. Account(entries[s], cons_tail[s], cons_tail[s], <<>>, offered[s], written[s], dropped[s])
    BY <2>1, <2>2 DEF QueueInv, ShardOK
  <2>4. \A p \in Places : ~Ready(cons_tail[s], cons_tail[s], p)
    <3> TAKE p \in Places
    <3>1. Dist(cons_tail[s], cons_tail[s]) = 0 /\ Dist(cons_tail[s], p) \in Nat
      BY <2>1, DistIs
    <3> QED BY <3>1 DEF Ready
  <2> DEFINE z == <<>>
  <2>5. In(z) = {} /\ Account(entries[s], cons_tail[s], cons_tail[s], z, offered[s], written[s], dropped[s])
    BY <2>3, InEmpty
  <2> HIDE DEF z
  <2>6. Kept(entries[s], cons_tail[s], cons_tail[s], z, written[s]) = In(written[s])
    BY <2>4, <2>5, Zenon DEF Kept
  <2> QED BY <2>5, <2>6, Zenon DEF Account
<1>4. Queue!ShutdownWritesAll
  BY <1>1, <1>3 DEF Queue!ShutdownWritesAll, Queue!Shards, Shards
<1> QED BY <1>2, <1>4

=============================================================================
