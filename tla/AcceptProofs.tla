---------------------------- MODULE AcceptProofs ----------------------------
(***************************************************************************)
(* For any number of listeners, of completions that wait and of accepts    *)
(* that are armed: a worker that paused for want of descriptors has one    *)
(* back-off timer on its way; while submissions are not refused a listener *)
(* has one accept; and once a draining worker has paused its accepts       *)
(* nothing resumes them.                                                   *)
(***************************************************************************)
EXTENDS AcceptController, FiniteSetTheorems, WellFoundedInduction, NaturalsInduction, TLAPS

\* The accepts of a listener are counted by natural numbers.
ArmedOK == armed \in [Listeners -> [Shots -> Nat]]

-----------------------------------------------------------------------------
LEMMA ArmedInit == Init => ArmedOK
  BY DEF Init, ArmedOK, Shots

LEMMA PostedOK ==
  ASSUME ArmedOK, NEW L, NEW multishot
  PROVE  Posted(L, multishot) \in [Listeners -> [Shots -> Nat]]
<1> DEFINE s == IF multishot THEN "multi" ELSE "single"
<1>1. s \in Shots
  BY DEF Shots
<1>2. \A l \in Listeners : [armed[l] EXCEPT ![s] = @ + 1] \in [Shots -> Nat]
  BY <1>1 DEF ArmedOK
<1>3. \A l \in Listeners : armed[l] \in [Shots -> Nat]
  BY DEF ArmedOK
<1> QED BY <1>2, <1>3 DEF Posted

LEMMA CancelOK ==
  ASSUME ArmedOK, NEW k, NEW queue, StageCancelAll(k, queue)
  PROVE  /\ ArmedOK'
         /\ \A l \in Listeners : Armed(l)' <= Armed(l)
<1>1. CASE accept_cancel_inflight
  BY <1>1 DEF StageCancelAll, ArmedOK, Armed, Shots
<1>2. CASE ~accept_cancel_inflight
  <2>1. armed' = [l \in Listeners |-> IF l <= k THEN [s \in Shots |-> 0] ELSE armed[l]]
    BY <1>2 DEF StageCancelAll
  <2>2. [s \in Shots |-> 0] \in [Shots -> Nat]
    OBVIOUS
  <2>3. ArmedOK'
    BY <2>1, <2>2 DEF ArmedOK
  <2>4. ASSUME NEW l \in Listeners PROVE Armed(l)' <= Armed(l)
    <3>1. armed[l]["multi"] \in Nat /\ armed[l]["single"] \in Nat
      BY DEF ArmedOK, Shots
    <3>2. CASE l <= k
      BY <2>1, <3>1, <3>2 DEF Armed, Shots
    <3>3. CASE ~(l <= k)
      BY <2>1, <3>1, <3>3 DEF Armed
    <3> QED BY <3>2, <3>3
  <2> QED BY <2>3, <2>4
<1> QED BY <1>1, <1>2

LEMMA RearmOK ==
  ASSUME ArmedOK, NEW c, NEW multishot, Rearm(c, multishot)
  PROVE  /\ ArmedOK'
         /\ accept_paused => accept_paused' /\ armed' = armed
<1>1. ArmedOK'
  BY PostedOK DEF Rearm, ArmedOK
<1>2. accept_paused => accept_paused' /\ armed' = armed
  BY DEF Rearm, RearmDue, accept_can_rearm
<1> QED BY <1>1, <1>2

-----------------------------------------------------------------------------
\* Every step of the kernel and the worker.
LEMMA StepIsFinal == ArmedOK /\ [Next]_vars => ArmedOK' /\ [DrainIsFinal]_vars
<1> SUFFICES ASSUME ArmedOK, [Next]_vars PROVE ArmedOK' /\ [DrainIsFinal]_vars
  OBVIOUS
<1>1. ASSUME armed' = armed PROVE ArmedOK' /\ \A l \in Listeners : Armed(l)' <= Armed(l)
  BY <1>1 DEF ArmedOK, Armed, Shots
<1>2. ASSUME NEW l \in Listeners, NEW s \in Shots, NEW res, NEW more,
             KernelAccept(l, s, res, more)
      PROVE  ArmedOK' /\ DrainIsFinal
  <2>1. accept_paused' = accept_paused /\ armed[l][s] > 0
    BY <1>2 DEF KernelAccept, flags
  <2>2. CASE armed' = armed
    BY <1>1, <2>1, <2>2 DEF DrainIsFinal
  <2>3. CASE armed' = [armed EXCEPT ![l][s] = @ - 1]
    <3>1. ArmedOK'
      BY <2>1, <2>3 DEF ArmedOK
    <3>2. ASSUME NEW m \in Listeners PROVE Armed(m)' <= Armed(m)
      <4>1. armed[m]["multi"] \in Nat /\ armed[m]["single"] \in Nat
        BY DEF ArmedOK, Shots
      <4>2. CASE m = l
        BY <2>3, <4>1, <4>2 DEF ArmedOK, Armed, Shots
      <4>3. CASE m # l
        BY <2>3, <4>1, <4>3 DEF ArmedOK, Armed
      <4> QED BY <4>2, <4>3
    <3> QED BY <2>1, <3>1, <3>2 DEF DrainIsFinal
  <2> QED BY <1>2, <2>2, <2>3 DEF KernelAccept
<1>3. CASE KernelTimer
  BY <1>1, <1>3 DEF KernelTimer, flags, DrainIsFinal
<1>4. CASE AcceptRearm \/ AcceptDowngrade \/ AcceptNoTimer
  <2>1. PICK multishot \in {accept_multishot, FALSE} : Rearm(Head(cq), multishot)
    BY <1>4 DEF AcceptRearm, AcceptDowngrade, AcceptNoTimer
  <2> QED BY <1>1, <2>1, RearmOK DEF DrainIsFinal
<1>5. CASE AcceptCanceled
  BY <1>1, <1>5 DEF AcceptCanceled, flags, DrainIsFinal
<1>6. CASE AcceptPause
  <2>1. PICK k \in Served : StageCancelAll(k, Tail(cq))
    BY <1>6 DEF AcceptPause
  <2>2. accept_paused'
    BY <1>6 DEF AcceptPause
  <2> QED BY <2>1, <2>2, CancelOK DEF DrainIsFinal
<1>7. CASE BackoffResume
  <2>1. ~is_draining
    BY <1>7 DEF BackoffResume, BackoffStale
  <2>2. ArmedOK'
    BY <1>7, PostedOK DEF BackoffResume, ArmedOK
  <2> QED BY <2>1, <2>2 DEF DrainIsFinal
<1>8. CASE BackoffIgnored \/ SeeDrain
  BY <1>1, <1>8 DEF BackoffIgnored, SeeDrain, DrainIsFinal
<1>9. CASE EnterDrain
  <2>1. PICK k \in Served : StageCancelAll(k, cq)
    BY <1>9 DEF EnterDrain
  <2>2. accept_paused'
    BY <1>9 DEF EnterDrain
  <2> QED BY <2>1, <2>2, CancelOK DEF DrainIsFinal
<1>10. CASE UNCHANGED vars
  BY <1>1, <1>10 DEF vars
<1> QED BY <1>2, <1>3, <1>4, <1>5, <1>6, <1>7, <1>8, <1>9, <1>10
        DEF Next, Kernel, HandleCqe

\* A drain is final for accepts, whatever completions are on their way when it
\* begins: a stale timer, a late error, a refused cancellation
\* (accept_handle_backoff, accept_can_rearm).
THEOREM DrainFinal == Spec => [][DrainIsFinal]_vars
  BY ArmedInit, StepIsFinal, PTL DEF Spec

-----------------------------------------------------------------------------
(* The completion queue *)

Cqe == [op : {"backoff"}] \cup [op : {"accept"}, lfd : Listeners, res : Results, more : BOOLEAN]
Backoff == {e \in Cqe : e.op = "backoff"}
Canceled == {e \in Cqe : e.op = "accept" /\ e.res = "canceled" /\ ~e.more}
End(l) == {e \in Cqe : e.op = "accept" /\ e.lfd = l /\ ~e.more}

\* Where the queue q has a member of S.
Where(q, S) == {i \in DOMAIN q : q[i] \in S}
Count(q, S) == Cardinality(Where(q, S))

LEMMA CountNat ==
  ASSUME NEW q \in Seq(Cqe), NEW S
  PROVE  IsFiniteSet(Where(q, S)) /\ Count(q, S) \in Nat
<1>1. IsFiniteSet(1 .. Len(q))
  BY FS_Interval
<1>2. Where(q, S) \in SUBSET (1 .. Len(q))
  BY DEF Where
<1>3. IsFiniteSet(Where(q, S))
  BY <1>1, <1>2, FS_Subset
<1> QED BY <1>3, FS_CardinalityType DEF Count

LEMMA CountNone ==
  ASSUME NEW q \in Seq(Cqe), NEW S
  PROVE  Count(q, S) = 0 <=> \A i \in 1 .. Len(q) : q[i] \notin S
<1>1. Count(q, S) = 0 <=> Where(q, S) = {}
  BY CountNat, FS_EmptySet DEF Count
<1>2. DOMAIN q = 1 .. Len(q)
  OBVIOUS
<1> QED BY <1>1, <1>2 DEF Where

LEMMA CountAppend ==
  ASSUME NEW q \in Seq(Cqe), NEW e \in Cqe, NEW S
  PROVE  Count(Append(q, e), S) = Count(q, S) + (IF e \in S THEN 1 ELSE 0)
<1> DEFINE n == Len(q) + 1
           r == Append(q, e)
<1>1. /\ n \in Nat /\ DOMAIN r = 1 .. n /\ r[n] = e /\ n \notin DOMAIN q
      /\ DOMAIN q = 1 .. n - 1 /\ \A i \in 1 .. n - 1 : r[i] = q[i]
  OBVIOUS
<1>2. n \notin Where(q, S)
  BY <1>1 DEF Where
<1> HIDE DEF n, r
<1>3. CASE e \in S
  <2>0. /\ n \in 1 .. n
        /\ \A i \in 1 .. n : i \in 1 .. n - 1 \/ i = n
        /\ \A i \in 1 .. n - 1 : i \in 1 .. n
    <3>1. n \in Nat \ {0}
      BY DEF n
    <3> QED BY <3>1
  <2>1. Where(r, S) = Where(q, S) \cup {n}
    BY <1>1, <1>3, <2>0, Zenon DEF Where
  <2>2. Cardinality(Where(q, S) \cup {n}) = Cardinality(Where(q, S)) + 1
    BY <1>2, CountNat, FS_AddElement, Zenon
  <2> QED BY <1>3, <2>1, <2>2 DEF Count, r
<1>4. CASE e \notin S
  <2>1. Where(r, S) = Where(q, S)
    BY <1>1, <1>4 DEF Where
  <2> QED BY <1>4, <2>1, CountNat DEF Count, r
<1> QED BY <1>3, <1>4

LEMMA CountTail ==
  ASSUME NEW q \in Seq(Cqe), q # <<>>, NEW S
  PROVE  /\ Head(q) \in Cqe /\ Tail(q) \in Seq(Cqe)
         /\ Count(q, S) = Count(Tail(q), S) + (IF Head(q) \in S THEN 1 ELSE 0)
<1> DEFINE n == Len(q)
           t == Tail(q)
           A == Where(q, S) \ {1}
           f == [i \in Where(t, S) |-> i + 1]
<1>1. /\ n \in Nat /\ n > 0 /\ DOMAIN q = 1 .. n /\ t \in Seq(Cqe) /\ Len(t) = n - 1
      /\ DOMAIN t = 1 .. n - 1 /\ Head(q) = q[1] /\ Head(q) \in Cqe
      /\ \A i \in 1 .. n - 1 : t[i] = q[i + 1]
  OBVIOUS
<1> HIDE DEF n, t
<1>2. IsFiniteSet(Where(t, S)) /\ Count(t, S) \in Nat
  BY <1>1, CountNat
<1>3. f \in [Where(t, S) -> A]
  <2> SUFFICES ASSUME NEW i \in Where(t, S) PROVE i + 1 \in A
    OBVIOUS
  <2>1. i \in 1 .. n - 1 /\ t[i] \in S
    BY <1>1 DEF Where
  <2> QED BY <1>1, <2>1 DEF Where
<1>4. \A i, j \in Where(t, S) : f[i] = f[j] => i = j
  BY <1>1 DEF Where
<1>5. \A j \in A : \E i \in Where(t, S) : f[i] = j
  <2> SUFFICES ASSUME NEW j \in A PROVE \E i \in Where(t, S) : f[i] = j
    OBVIOUS
  <2>1. j \in 1 .. n /\ j # 1 /\ q[j] \in S
    BY <1>1 DEF Where
  <2>2. j - 1 \in 1 .. n - 1 /\ (j - 1) + 1 = j
    BY <1>1, <2>1
  <2>3. j - 1 \in Where(t, S)
    BY <1>1, <2>1, <2>2 DEF Where
  <2> QED BY <2>2, <2>3
<1>6. ExistsBijection(Where(t, S), A)
  <2>1. f \in Bijection(Where(t, S), A)
    BY <1>3, <1>4, <1>5 DEF Bijection, Injection, Surjection, IsInjective
  <2> QED BY <2>1, Zenon DEF ExistsBijection
<1>7. Cardinality(A) = Count(t, S) /\ IsFiniteSet(A)
  BY <1>2, <1>6, FS_Bijection DEF Count
<1>8. CASE Head(q) \in S
  <2>1. Where(q, S) = A \cup {1} /\ 1 \notin A
    BY <1>1, <1>8 DEF Where
  <2>2. Cardinality(A \cup {1}) = Cardinality(A) + 1
    BY <1>7, <2>1, FS_AddElement
  <2>3. Cardinality(Where(q, S)) = Cardinality(A) + 1
    BY <2>1, <2>2
  <2> QED BY <1>1, <1>7, <1>8, <2>3 DEF Count, t
<1>9. CASE Head(q) \notin S
  <2>1. Where(q, S) = A
    BY <1>1, <1>9 DEF Where
  <2> HIDE DEF A
  <2>2. Count(q, S) = Count(t, S)
    BY <1>7, <2>1 DEF Count
  <2> QED BY <1>1, <1>2, <1>9, <2>2 DEF t
<1> QED BY <1>8, <1>9

\* Cancellations wait behind everything else.
Behind(q, r) ==
  /\ r \in Seq(Cqe) /\ Len(q) <= Len(r)
  /\ \A i \in 1 .. Len(q) : r[i] = q[i]
  /\ \A i \in Len(q) + 1 .. Len(r) : r[i] \in Canceled

LEMMA CountBehind ==
  ASSUME NEW q \in Seq(Cqe), NEW r, Behind(q, r), NEW S, S \cap Canceled = {}
  PROVE  Count(r, S) = Count(q, S)
<1>1. DOMAIN q = 1 .. Len(q) /\ DOMAIN r = 1 .. Len(r) /\ Len(q) \in Nat /\ Len(r) \in Nat
  BY DEF Behind
<1>2. \A i \in 1 .. Len(r) : i \in 1 .. Len(q) \/ i \in Len(q) + 1 .. Len(r)
  BY <1>1
<1>3. \A i \in 1 .. Len(q) : i \in 1 .. Len(r)
  BY <1>1 DEF Behind
<1>4. Where(r, S) = Where(q, S)
  BY <1>1, <1>2, <1>3, Zenon DEF Where, Behind
<1> QED BY <1>4 DEF Count

LEMMA Least ==
  ASSUME NEW S \in SUBSET Nat, S # {}
  PROVE  \E m \in S : \A y \in S : m <= y
<1> DEFINE R == {p \in Nat \X Nat : p[1] < p[2]}
<1>1. IsWellFoundedOn(R, Nat)
  <2>1. R = OpToRel(<, Nat)
    BY DEF OpToRel
  <2> QED BY <2>1, NatLessThanWellFounded, Zenon
<1>2. \A a, b \in Nat : a < b => <<a, b>> \in R
  OBVIOUS
<1> HIDE DEF R
<1>3. PICK m \in S : \A y \in S : ~(<<y, m>> \in R)
  BY <1>1, WFMin, Zenon
<1>4. \A y \in S : ~(y < m)
  BY <1>2, <1>3, Zenon
<1> QED BY <1>4

\* What is staged for listener l, and the functions by which CanceledCqes goes
\* through the first n listeners.
CanceledOf(l) == [i \in 1 .. Armed(l) |-> AcceptCqe(l, "canceled", FALSE)]
Filled(q, n, f) == f = [l \in 0 .. n |-> IF l = 0 THEN q ELSE f[l - 1] \o CanceledOf(l)]

LEMMA CanFill ==
  ASSUME NEW q, NEW N \in Nat
  PROVE  \E f : Filled(q, N, f)
<1> DEFINE G == {n \in Nat : ~ \E f : Filled(q, n, f)}
<1> SUFFICES ASSUME G # {} PROVE FALSE
  OBVIOUS
<1>1. PICK m \in G : \A y \in G : m <= y
  <2>1. G \in SUBSET Nat
    OBVIOUS
  <2> QED BY <2>1, Least
<1>2. m \in Nat /\ ~ \E f : Filled(q, m, f)
  OBVIOUS
<1>3. m # 0
  <2>1. Filled(q, 0, [l \in 0 .. 0 |-> q])
    BY DEF Filled
  <2> QED BY <1>2, <2>1
<1>4. m - 1 \in Nat /\ ~(m <= m - 1)
  BY <1>2, <1>3
<1>5. PICK f : Filled(q, m - 1, f)
  BY <1>1, <1>4
<1> DEFINE J(x, l) == x \o CanceledOf(l)
           h == [l \in 0 .. m |-> IF l = 0 THEN q ELSE J(f[l - 1], l)]
<1>6. f = [l \in 0 .. m - 1 |-> IF l = 0 THEN q ELSE J(f[l - 1], l)]
  BY <1>5, Zenon DEF Filled
<1> HIDE DEF J
<1>7. \A l \in 0 .. m - 1 : h[l] = f[l]
  <2> SUFFICES ASSUME NEW l \in 0 .. m - 1 PROVE h[l] = f[l]
    BY Zenon
  <2>1. l \in 0 .. m
    BY <1>2
  <2> QED BY <1>6, <2>1
<1>8. \A l \in 0 .. m : l # 0 => h[l - 1] = f[l - 1]
  <2>1. \A l \in 0 .. m : l # 0 => l - 1 \in 0 .. m - 1
    BY <1>2
  <2> HIDE DEF h
  <2> QED BY <1>7, <2>1
<1>9. h = [l \in 0 .. m |-> IF l = 0 THEN q ELSE J(h[l - 1], l)]
  BY <1>8, Zenon
<1>10. Filled(q, m, h)
  BY <1>9 DEF Filled, J
<1> QED BY <1>2, <1>10

LEMMA CanceledBehind ==
  ASSUME ConstantsOK, ArmedOK, NEW q \in Seq(Cqe), NEW k \in 0 .. NumListeners
  PROVE  Behind(q, CanceledCqes(k, q))
<1> DEFINE upto == CHOOSE f : Filled(q, k, f)
<1>1. k \in Nat /\ \A l \in 1 .. k : l \in Listeners
  BY DEF ConstantsOK, Listeners
<1>2. \A l \in 1 .. k : CanceledOf(l) \in Seq(Canceled)
  <2> SUFFICES ASSUME NEW l \in 1 .. k PROVE CanceledOf(l) \in Seq(Canceled)
    OBVIOUS
  <2>1. Armed(l) \in Nat
    BY <1>1 DEF ArmedOK, Armed, Shots
  <2>2. AcceptCqe(l, "canceled", FALSE) \in Canceled
    BY <1>1 DEF AcceptCqe, Canceled, Cqe, Results
  <2> DEFINE a == Armed(l)
             e == AcceptCqe(l, "canceled", FALSE)
  <2>3. CanceledOf(l) = [i \in 1 .. a |-> e]
    BY DEF CanceledOf
  <2>4. a \in Nat /\ e \in Canceled
    BY <2>1, <2>2, Zenon
  <2> HIDE DEF a, e
  <2>5. [i \in 1 .. a |-> e] \in Seq(Canceled)
    BY <2>4
  <2> QED BY <2>3, <2>5
<1>3. CanceledCqes(k, q) = upto[k]
  BY DEF CanceledCqes, Filled, CanceledOf
<1>4. Filled(q, k, upto)
  BY <1>1, CanFill
<1> HIDE DEF upto
<1>5. \A l \in 0 .. k : upto[l] = IF l = 0 THEN q ELSE upto[l - 1] \o CanceledOf(l)
  BY <1>4, Zenon DEF Filled
<1> DEFINE G == {l \in 0 .. k : ~Behind(q, upto[l])}
<1>6. G = {}
  <2> SUFFICES ASSUME G # {} PROVE FALSE
    OBVIOUS
  <2>1. PICK m \in G : \A y \in G : m <= y
    <3>1. G \in SUBSET Nat
      OBVIOUS
    <3> QED BY <3>1, Least, Zenon
  <2>2. m \in 0 .. k /\ ~Behind(q, upto[m])
    OBVIOUS
  <2>3. m # 0
    BY <1>5, <2>2 DEF Behind
  <2>4. m - 1 \in 0 .. k /\ m \in 1 .. k /\ ~(m <= m - 1)
    BY <1>1, <2>2, <2>3
  <2> DEFINE x == upto[m - 1]
             y == CanceledOf(m)
  <2>5. Behind(q, x)
    BY <2>1, <2>4
  <2>6. upto[m] = x \o y
    BY <1>5, <2>2, <2>3, Zenon
  <2>7. y \in Seq(Canceled) /\ y \in Seq(Cqe)
    BY <1>2, <2>4 DEF Canceled
  <2> HIDE DEF x, y
  <2>8. /\ x \in Seq(Cqe) /\ Len(x) \in Nat /\ Len(y) \in Nat /\ Len(q) \in Nat
        /\ x \o y \in Seq(Cqe) /\ Len(x \o y) = Len(x) + Len(y) /\ Len(q) <= Len(x)
        /\ \A i \in 1 .. Len(x) : (x \o y)[i] = x[i]
        /\ \A i \in Len(x) + 1 .. Len(x) + Len(y) :
             (x \o y)[i] = y[i - Len(x)] /\ i - Len(x) \in 1 .. Len(y)
    BY <2>5, <2>7, SMTT(30) DEF Behind
  <2>9. \A i \in 1 .. Len(q) : (x \o y)[i] = q[i]
    <3>1. \A i \in 1 .. Len(q) : i \in 1 .. Len(x)
      BY <2>8
    <3> QED BY <2>5, <2>8, <3>1, Zenon DEF Behind
  <2>10. \A i \in Len(q) + 1 .. Len(x) + Len(y) : (x \o y)[i] \in Canceled
    <3>1. \A i \in Len(q) + 1 .. Len(x) + Len(y) :
            \/ i \in Len(q) + 1 .. Len(x) /\ i \in 1 .. Len(x)
            \/ i \in Len(x) + 1 .. Len(x) + Len(y)
      BY <2>8
    <3>2. \A i \in 1 .. Len(y) : y[i] \in Canceled
      BY <2>7
    <3> QED BY <2>5, <2>8, <3>1, <3>2, Zenon DEF Behind
  <2>11. Behind(q, x \o y)
    <3>1. Len(q) <= Len(x \o y)
      BY <2>8
    <3> QED BY <2>8, <2>9, <2>10, <3>1 DEF Behind
  <2> QED BY <2>2, <2>6, <2>11
<1>7. k \in 0 .. k
  BY <1>1
<1> QED BY <1>3, <1>6, <1>7

-----------------------------------------------------------------------------
(* The inductive invariant *)

\* What a kernel can answer: one that does not know multishot accepts says so,
\* and never announces more.
Kind == {e \in Cqe : e.op = "accept" => /\ e.more => kernel_multishot /\ e.res = "ok"
                                        /\ e.res = "inval" => ~kernel_multishot}

Typed ==
  /\ ArmedOK /\ timers \in Nat /\ cq \in Seq(Kind)
  /\ kernel_multishot \in BOOLEAN /\ accept_multishot \in BOOLEAN /\ accept_paused \in BOOLEAN
  /\ accept_cancel_inflight \in BOOLEAN /\ accept_backoff_armed \in BOOLEAN
  /\ is_draining \in BOOLEAN
  /\ ~accept_multishot => ~kernel_multishot

\* The timer of a pause is on its way.
Resuming ==
  /\ accept_backoff_armed => accept_paused
  /\ ~is_draining /\ accept_paused => accept_backoff_armed
  /\ ~is_draining => timers + Count(cq, Backoff) = IF accept_backoff_armed THEN 1 ELSE 0

\* While entries can be had, a pause cancels all accepts, and its timer
\* completes behind the last of them.
Turns ==
  /\ accept_cancel_inflight <=> accept_paused
  /\ \A l \in Listeners :
       IF accept_paused THEN Armed(l) = 0 ELSE Armed(l) + Count(cq, End(l)) = 1
  /\ ~is_draining => \A i \in 1 .. Len(cq) : cq[i] \in Backoff => i = Len(cq)

AcceptInv == ConstantsOK /\ Typed /\ Resuming /\ (~SqeMayFail => Turns)

LEMMA ArmedNat ==
  ASSUME ArmedOK, NEW l \in Listeners
  PROVE  Armed(l) \in Nat
BY DEF ArmedOK, Armed, Shots

LEMMA KindCqe == ASSUME Typed PROVE cq \in Seq(Cqe)
BY DEF Typed, Kind

\* Backoffs are not ends of accepts, and an end is that of one listener.
LEMMA Apart ==
  /\ Backoff \cap Canceled = {}
  /\ \A l : Backoff \cap End(l) = {}
  /\ \A l : \A e \in Cqe : e \in End(l) <=> e.op = "accept" /\ e.lfd = l /\ ~e.more
  /\ \A e \in Cqe : e \in Backoff <=> e.op # "accept"
BY DEF Backoff, Canceled, End, Cqe

\* The first completion is taken from the queue.
LEMMA Taken ==
  ASSUME Typed, cq # <<>>
  PROVE  /\ Head(cq) \in Kind /\ Head(cq) \in Cqe
         /\ Tail(cq) \in Seq(Kind) /\ Tail(cq) \in Seq(Cqe)
         /\ Len(Tail(cq)) = Len(cq) - 1 /\ Len(cq) \in Nat /\ Len(cq) > 0
         /\ Head(cq) = cq[1] /\ \A i \in 1 .. Len(Tail(cq)) : Tail(cq)[i] = cq[i + 1]
         /\ \A S : /\ Count(Tail(cq), S) \in Nat
                   /\ Count(cq, S) = Count(Tail(cq), S) + (IF Head(cq) \in S THEN 1 ELSE 0)
<1>1. cq \in Seq(Cqe)
  BY KindCqe
<1>2. cq \in Seq(Kind)
  BY DEF Typed
<1>3. /\ Head(cq) \in Kind /\ Tail(cq) \in Seq(Kind)
      /\ Len(Tail(cq)) = Len(cq) - 1 /\ Len(cq) \in Nat /\ Len(cq) > 0
      /\ Head(cq) = cq[1] /\ \A i \in 1 .. Len(Tail(cq)) : Tail(cq)[i] = cq[i + 1]
  BY <1>2
<1>4. Tail(cq) \in Seq(Cqe) /\ Head(cq) \in Cqe
  BY <1>1
<1>5. \A S : /\ Count(Tail(cq), S) \in Nat
             /\ Count(cq, S) = Count(Tail(cq), S) + (IF Head(cq) \in S THEN 1 ELSE 0)
  BY <1>1, <1>4, CountTail, CountNat
<1> QED BY <1>3, <1>4, <1>5

\* The timer of a pause stays the last.
LEMMA TimerLast ==
  ASSUME Typed, Turns, cq # <<>>
  PROVE  ~is_draining => \A i \in 1 .. Len(Tail(cq)) : Tail(cq)[i] \in Backoff => i = Len(Tail(cq))
<1> DEFINE t == Tail(cq)
<1>1. /\ Len(t) = Len(cq) - 1 /\ Len(cq) \in Nat /\ \A i \in 1 .. Len(t) : t[i] = cq[i + 1]
  BY Taken, Zenon
<1> HIDE DEF t
<1>2. \A i \in 1 .. Len(t) : i + 1 \in 1 .. Len(cq) /\ (i + 1 = Len(cq) => i = Len(t))
  BY <1>1
<1> QED BY <1>1, <1>2, Zenon DEF Turns, t

LEMMA PostedArmed ==
  ASSUME ArmedOK, NEW L, NEW multishot, armed' = Posted(L, multishot), NEW l \in Listeners
  PROVE  Armed(l)' = Armed(l) + (IF l \in L THEN 1 ELSE 0)
<1> DEFINE s == IF multishot THEN "multi" ELSE "single"
<1>1. armed'[l] = IF l \in L THEN [armed[l] EXCEPT ![s] = @ + 1] ELSE armed[l]
  BY DEF Posted
<1>2. armed[l] \in [Shots -> Nat] /\ s \in Shots
  BY DEF ArmedOK, Shots
<1>3. CASE multishot
  BY <1>1, <1>2, <1>3 DEF Armed, Shots
<1>4. CASE ~multishot
  BY <1>1, <1>2, <1>4 DEF Armed, Shots
<1> QED BY <1>3, <1>4

LEMMA InvInit == ConstantsOK /\ Init => AcceptInv
<1> SUFFICES ASSUME ConstantsOK, Init PROVE AcceptInv
  OBVIOUS
<1>1. cq = <<>> /\ timers = 0 /\ ~accept_paused /\ ~accept_cancel_inflight /\ ~accept_backoff_armed
  BY DEF Init
<1>2. Typed
  <2>1. ArmedOK
    BY ArmedInit
  <2>2. timers \in Nat /\ cq \in Seq(Kind)
    BY <1>1
  <2> QED BY <2>1, <2>2, Zenon DEF Init, Typed
<1>3. \A S : Count(cq, S) = 0
  <2>1. \A S : Where(<<>>, S) = {}
    BY DEF Where
  <2> QED BY <1>1, <2>1, FS_EmptySet DEF Count
<1>4. Resuming
  BY <1>1, <1>3 DEF Resuming
<1>5. \A l \in Listeners : Armed(l) = 1
  BY DEF Init, Armed, Shots
<1>6. Turns
  BY <1>1, <1>3, <1>5 DEF Turns
<1> QED BY <1>2, <1>4, <1>6 DEF AcceptInv

-----------------------------------------------------------------------------
(* The steps *)

\* The kernel puts a completion behind the others.
LEMMA Put ==
  ASSUME Typed, NEW e \in Kind, cq' = Append(cq, e), kernel_multishot' = kernel_multishot
  PROVE  /\ cq' \in Seq(Kind') /\ Len(cq') = Len(cq) + 1 /\ cq'[Len(cq) + 1] = e
         /\ \A i \in 1 .. Len(cq) : cq'[i] = cq[i]
         /\ \A S : /\ Count(cq, S) \in Nat
                   /\ Count(cq', S) = Count(cq, S) + (IF e \in S THEN 1 ELSE 0)
<1>1. cq \in Seq(Kind) /\ cq \in Seq(Cqe) /\ e \in Cqe
  BY KindCqe DEF Typed, Kind
<1>2. Kind' = Kind
  BY DEF Kind, Cqe
<1>3. /\ cq' \in Seq(Kind) /\ Len(cq') = Len(cq) + 1 /\ cq'[Len(cq) + 1] = e
      /\ \A i \in 1 .. Len(cq) : cq'[i] = cq[i]
  BY <1>1
<1>4. \A S : /\ Count(cq, S) \in Nat
             /\ Count(cq', S) = Count(cq, S) + (IF e \in S THEN 1 ELSE 0)
  BY <1>1, CountAppend, CountNat
<1> QED BY <1>2, <1>3, <1>4

LEMMA AcceptKeeps ==
  ASSUME AcceptInv, NEW l \in Listeners, NEW s \in Shots, NEW res \in Results,
         NEW more \in BOOLEAN, KernelAccept(l, s, res, more)
  PROVE  AcceptInv'
<1> DEFINE e == AcceptCqe(l, res, more)
<1>1. Typed /\ ConstantsOK /\ ArmedOK
  BY DEF AcceptInv, Typed
<1>2. /\ cq' = Append(cq, e) /\ timers' = timers /\ kernel_multishot' = kernel_multishot
      /\ accept_multishot' = accept_multishot /\ accept_paused' = accept_paused
      /\ accept_cancel_inflight' = accept_cancel_inflight
      /\ accept_backoff_armed' = accept_backoff_armed /\ is_draining' = is_draining
  BY DEF KernelAccept, flags
<1>3. armed[l][s] > 0 /\ armed' = IF more THEN armed ELSE [armed EXCEPT ![l][s] = @ - 1]
  BY DEF KernelAccept
<1>4. e \in Kind /\ e \in Cqe /\ e \notin Backoff /\ \A k : e \in End(k) <=> k = l /\ ~more
  <2>1. e \in Cqe
    BY DEF AcceptCqe, Cqe
  <2>2. more => kernel_multishot /\ res = "ok"
    BY <1>1, Zenon DEF KernelAccept, Typed
  <2>3. res = "inval" => ~kernel_multishot
    BY DEF KernelAccept
  <2>4. e.op = "accept" /\ e.lfd = l /\ e.res = res /\ e.more = more
    BY DEF AcceptCqe
  <2> HIDE DEF e
  <2> QED BY <2>1, <2>2, <2>3, <2>4, Apart DEF Kind
<1> HIDE DEF e
<1>5. /\ cq' \in Seq(Kind') /\ Len(cq') = Len(cq) + 1 /\ cq'[Len(cq) + 1] = e
      /\ \A i \in 1 .. Len(cq) : cq'[i] = cq[i]
      /\ \A S : /\ Count(cq, S) \in Nat
                /\ Count(cq', S) = Count(cq, S) + (IF e \in S THEN 1 ELSE 0)
  BY <1>1, <1>2, <1>4, Put
<1>6. Armed(l) \in Nat /\ Armed(l) > 0
  BY <1>1, <1>3 DEF ArmedOK, Armed, Shots
<1>7. /\ ArmedOK'
      /\ \A k \in Listeners : Armed(k)' = Armed(k) - (IF k = l /\ ~more THEN 1 ELSE 0)
  <2>1. \A k \in Listeners : Armed(k) \in Nat
    BY <1>1, ArmedNat
  <2>2. CASE more
    BY <1>1, <1>3, <2>1, <2>2 DEF ArmedOK, Armed
  <2>3. CASE ~more
    <3>1. armed' = [armed EXCEPT ![l][s] = @ - 1]
      BY <1>3, <2>3
    <3>2. ArmedOK'
      BY <1>1, <1>3, <3>1 DEF ArmedOK
    <3>3. \A k \in Listeners : k # l => Armed(k)' = Armed(k)
      BY <1>1, <3>1 DEF ArmedOK, Armed
    <3>4. Armed(l)' = Armed(l) - 1
      <4>1. armed'[l] = [armed[l] EXCEPT ![s] = @ - 1] /\ armed[l] \in [Shots -> Nat]
        BY <1>1, <3>1 DEF ArmedOK
      <4> QED BY <4>1 DEF Armed, Shots
    <3> QED BY <2>1, <2>3, <3>2, <3>3, <3>4
  <2> QED BY <2>2, <2>3
<1>8. Typed'
  BY <1>1, <1>2, <1>5, <1>7, Zenon DEF Typed
<1>9. Count(cq', Backoff) = Count(cq, Backoff) /\ Count(cq, Backoff) \in Nat
  BY <1>4, <1>5
<1>10. Resuming'
  BY <1>2, <1>9 DEF AcceptInv, Resuming, Backoff, Cqe, Listeners
<1>11. ASSUME ~SqeMayFail PROVE Turns'
  <2>1. Turns
    BY <1>11 DEF AcceptInv
  <2>2. ~accept_paused
    BY <1>6, <2>1 DEF Turns
  <2>3. \A k \in Listeners : Armed(k)' + Count(cq', End(k)) = 1
    <3> SUFFICES ASSUME NEW k \in Listeners PROVE Armed(k)' + Count(cq', End(k)) = 1
      OBVIOUS
    <3>1. Armed(k) + Count(cq, End(k)) = 1 /\ Armed(k) \in Nat /\ Count(cq, End(k)) \in Nat
      BY <1>1, <1>5, <2>1, <2>2, ArmedNat DEF Turns
    <3>2. Count(cq', End(k)) = Count(cq, End(k)) + (IF k = l /\ ~more THEN 1 ELSE 0)
      BY <1>4, <1>5
    <3>3. Armed(k)' = Armed(k) - (IF k = l /\ ~more THEN 1 ELSE 0)
      BY <1>7
    <3> QED BY <3>1, <3>2, <3>3
  <2>4. ~is_draining => \A i \in 1 .. Len(cq') : cq'[i] \notin Backoff
    <3> SUFFICES ASSUME ~is_draining PROVE \A i \in 1 .. Len(cq') : cq'[i] \notin Backoff
      OBVIOUS
    <3>1. Count(cq', Backoff) = 0
      BY <1>1, <1>9, <2>2 DEF AcceptInv, Resuming, Typed
    <3>2. cq' \in Seq(Cqe)
      BY <1>5 DEF Kind, Cqe, Listeners
    <3> QED BY <3>1, <3>2, CountNone
  <2> QED BY <1>2, <2>1, <2>2, <2>3, <2>4 DEF Turns, Listeners, End, Backoff, Cqe
<1> QED BY <1>1, <1>8, <1>10, <1>11 DEF AcceptInv, ConstantsOK

LEMMA TimerKeeps == ASSUME AcceptInv, KernelTimer PROVE AcceptInv'
<1> DEFINE e == BackoffCqe
<1>1. Typed /\ ConstantsOK /\ timers \in Nat /\ timers > 0 /\ ArmedOK
  BY DEF AcceptInv, Typed, KernelTimer
<1>2. /\ cq' = Append(cq, e) /\ timers' = timers - 1 /\ armed' = armed
      /\ kernel_multishot' = kernel_multishot
      /\ accept_multishot' = accept_multishot /\ accept_paused' = accept_paused
      /\ accept_cancel_inflight' = accept_cancel_inflight
      /\ accept_backoff_armed' = accept_backoff_armed /\ is_draining' = is_draining
  BY DEF KernelTimer, flags
<1>3. e \in Kind /\ e \in Backoff /\ \A k : e \notin End(k)
  BY DEF BackoffCqe, Kind, Cqe, Backoff, End
<1> HIDE DEF e
<1>4. /\ cq' \in Seq(Kind') /\ Len(cq') = Len(cq) + 1 /\ cq'[Len(cq) + 1] = e
      /\ \A i \in 1 .. Len(cq) : cq'[i] = cq[i]
      /\ \A S : /\ Count(cq, S) \in Nat
                /\ Count(cq', S) = Count(cq, S) + (IF e \in S THEN 1 ELSE 0)
  BY <1>1, <1>2, <1>3, Put
<1>5. timers' \in Nat
  BY <1>1, <1>2
<1>6. Typed'
  BY <1>1, <1>2, <1>4, <1>5, Zenon DEF Typed, ArmedOK
<1>7. Count(cq', Backoff) = Count(cq, Backoff) + 1 /\ Count(cq, Backoff) \in Nat
  BY <1>3, <1>4
<1>8. timers' + Count(cq', Backoff) = timers + Count(cq, Backoff)
  BY <1>1, <1>2, <1>7
<1>9. Resuming'
  BY <1>2, <1>8 DEF AcceptInv, Resuming, Backoff, Cqe, Listeners
<1>10. ASSUME ~SqeMayFail PROVE Turns'
  <2>1. Turns
    BY <1>10 DEF AcceptInv
  <2>2. \A k \in Listeners : Count(cq', End(k)) = Count(cq, End(k))
    BY <1>3, <1>4
  <2>3. ~is_draining => \A i \in 1 .. Len(cq') : cq'[i] \in Backoff => i = Len(cq')
    <3> SUFFICES ASSUME ~is_draining, NEW i \in 1 .. Len(cq'), cq'[i] \in Backoff, i # Len(cq')
                 PROVE  FALSE
      OBVIOUS
    <3>1. cq \in Seq(Cqe) /\ Len(cq) \in Nat
      BY <1>1, KindCqe
    <3>2. i \in 1 .. Len(cq)
      BY <1>4, <3>1
    <3>3. Count(cq, Backoff) # 0
      BY <1>4, <3>1, <3>2, CountNone
    <3> QED BY <1>1, <1>7, <3>3 DEF AcceptInv, Resuming
  <2> QED BY <1>2, <2>1, <2>2, <2>3 DEF Turns, Listeners, End, Backoff, Cqe, Armed
<1> QED BY <1>1, <1>6, <1>9, <1>10 DEF AcceptInv, ConstantsOK

\* A completion of an accept was handled, and what it ended was posted again.
LEMMA RearmKeeps ==
  ASSUME AcceptInv, cq # <<>>, Head(cq).op = "accept", NEW multishot \in BOOLEAN,
         ~multishot => ~kernel_multishot, Rearm(Head(cq), multishot)
  PROVE  AcceptInv'
<1> DEFINE c == Head(cq)
           t == Tail(cq)
<1>1. Typed /\ ConstantsOK /\ ArmedOK
  BY DEF AcceptInv, Typed
<1>2. /\ cq' = t /\ timers' = timers /\ kernel_multishot' = kernel_multishot
      /\ accept_multishot' = multishot /\ accept_paused' = accept_paused
      /\ accept_cancel_inflight' = accept_cancel_inflight
      /\ accept_backoff_armed' = accept_backoff_armed /\ is_draining' = is_draining
  BY DEF Rearm
<1>3. /\ c \in Kind /\ c \in Cqe /\ t \in Seq(Kind) /\ t \in Seq(Cqe)
      /\ Len(t) = Len(cq) - 1 /\ Len(cq) \in Nat /\ Len(cq) > 0
      /\ \A i \in 1 .. Len(t) : t[i] = cq[i + 1]
      /\ \A S : Count(t, S) \in Nat /\ Count(cq, S) = Count(t, S) + (IF c \in S THEN 1 ELSE 0)
  BY <1>1, Taken
<1>4. c.op = "accept" /\ c.lfd \in Listeners /\ c.more \in BOOLEAN /\ (c.more => kernel_multishot)
  BY <1>3 DEF Kind, Cqe
<1>5. IF RearmDue(c, multishot)
      THEN \E ok \in Sqe : armed' = IF ok THEN Posted({c.lfd}, multishot) ELSE armed
      ELSE armed' = armed
  BY Zenon DEF Rearm
<1> HIDE DEF c, t
<1>6. c \notin Backoff /\ \A k : c \in End(k) <=> k = c.lfd /\ ~c.more
  BY <1>3, <1>4, Apart, Zenon
<1>7. ArmedOK'
  BY <1>1, RearmOK
<1>8. Kind' = Kind
  BY <1>2 DEF Kind, Cqe
<1>9. Typed'
  BY <1>1, <1>2, <1>3, <1>7, <1>8, Zenon DEF Typed
<1>10. Count(t, Backoff) = Count(cq, Backoff)
  BY <1>3, <1>6
<1>11. Resuming'
  BY <1>2, <1>10 DEF AcceptInv, Resuming, Backoff, Cqe, Listeners
<1>12. ASSUME ~SqeMayFail PROVE Turns'
  <2>1. Turns
    BY <1>12 DEF AcceptInv
  <2>2. ~is_draining => \A i \in 1 .. Len(t) : t[i] \in Backoff => i = Len(t)
    BY <1>1, <2>1, TimerLast DEF t
  <2>3. CASE accept_paused
    <3>1. armed' = armed
      BY <1>5, <2>3 DEF RearmDue, accept_can_rearm
    <3>2. \A k \in Listeners : Armed(k)' = 0
      BY <2>1, <2>3, <3>1 DEF Turns, Armed
    <3> QED BY <1>2, <2>1, <2>2, <2>3, <3>2 DEF Turns, Listeners, Backoff, Cqe
  <2>4. CASE ~accept_paused
    <3>1. \A k \in Listeners : Armed(k) + Count(cq, End(k)) = 1 /\ Armed(k) \in Nat
      BY <1>1, <2>1, <2>4, ArmedNat DEF Turns
    <3>2. RearmDue(c, multishot) <=> ~c.more
      BY <1>4, <2>1, <2>4 DEF RearmDue, accept_can_rearm, Turns
    <3>3. \A k \in Listeners : Armed(k)' = Armed(k) + (IF k = c.lfd /\ ~c.more THEN 1 ELSE 0)
      <4>1. CASE c.more
        BY <1>5, <3>1, <3>2, <4>1 DEF Armed
      <4>2. CASE ~c.more
        <5>1. armed' = Posted({c.lfd}, multishot)
          BY <1>5, <1>12, <3>2, <4>2 DEF Sqe
        <5> QED BY <1>1, <4>2, <5>1, PostedArmed
      <4> QED BY <4>1, <4>2
    <3>4. \A k \in Listeners : Armed(k)' + Count(t, End(k)) = 1
      <4> SUFFICES ASSUME NEW k \in Listeners PROVE Armed(k)' + Count(t, End(k)) = 1
        OBVIOUS
      <4>1. Count(cq, End(k)) = Count(t, End(k)) + (IF k = c.lfd /\ ~c.more THEN 1 ELSE 0)
        BY <1>3, <1>6
      <4> QED BY <1>3, <3>1, <3>3, <4>1
    <3> QED BY <1>2, <2>1, <2>2, <2>4, <3>4 DEF Turns, Listeners, Backoff, Cqe, End
  <2> QED BY <2>3, <2>4
<1> QED BY <1>1, <1>9, <1>11, <1>12 DEF AcceptInv, ConstantsOK

LEMMA CanceledKeeps == ASSUME AcceptInv, AcceptCanceled PROVE AcceptInv'
<1> DEFINE c == Head(cq)
           t == Tail(cq)
<1>1. Typed /\ ConstantsOK /\ cq # <<>> /\ c.op = "accept" /\ accept_paused
  BY DEF AcceptInv, AcceptCanceled, IsAccept
<1>2. /\ cq' = t /\ timers' = timers /\ armed' = armed /\ kernel_multishot' = kernel_multishot
      /\ accept_multishot' = accept_multishot /\ accept_paused' = accept_paused
      /\ accept_cancel_inflight' = accept_cancel_inflight
      /\ accept_backoff_armed' = accept_backoff_armed /\ is_draining' = is_draining
  BY DEF AcceptCanceled, flags
<1>3. /\ c \in Cqe /\ t \in Seq(Kind) /\ Count(t, Backoff) \in Nat
      /\ Count(cq, Backoff) = Count(t, Backoff) + (IF c \in Backoff THEN 1 ELSE 0)
  BY <1>1, Taken
<1>4. Count(t, Backoff) = Count(cq, Backoff)
  BY <1>1, <1>3, Apart
<1>5. Typed'
  <2>1. Kind' = Kind
    BY <1>2 DEF Kind, Cqe
  <2> QED BY <1>1, <1>2, <1>3, <2>1, Zenon DEF Typed, ArmedOK
<1>6. Resuming'
  BY <1>2, <1>4 DEF AcceptInv, Resuming, Backoff, Cqe, Listeners
<1>7. ASSUME ~SqeMayFail PROVE Turns'
  <2>1. Turns
    BY <1>7 DEF AcceptInv
  <2>2. ~is_draining => \A i \in 1 .. Len(t) : t[i] \in Backoff => i = Len(t)
    BY <1>1, <2>1, TimerLast
  <2> QED BY <1>1, <1>2, <2>1, <2>2 DEF Turns, Armed, Listeners, Backoff, Cqe
<1> QED BY <1>1, <1>5, <1>6, <1>7 DEF AcceptInv, ConstantsOK

\* What staging the cancellations behind queue q leaves.
LEMMA CancelAll ==
  ASSUME AcceptInv, NEW q \in Seq(Kind), NEW k \in Served, StageCancelAll(k, q),
         kernel_multishot' = kernel_multishot
  PROVE  /\ cq' \in Seq(Kind') /\ cq' \in Seq(Cqe) /\ Count(cq', Backoff) = Count(q, Backoff)
         /\ accept_cancel_inflight' \in BOOLEAN
         /\ ~SqeMayFail => accept_cancel_inflight' /\ \A l \in Listeners : Armed(l)' = 0
<1>1. ConstantsOK /\ Typed /\ ArmedOK /\ q \in Seq(Cqe)
  BY DEF AcceptInv, Typed, Kind
<1>2. Kind' = Kind /\ Canceled \subseteq Kind
  BY DEF Kind, Cqe, Canceled
<1>3. k \in 0 .. NumListeners /\ (~SqeMayFail => k = NumListeners)
  BY <1>1 DEF Served, ConstantsOK
<1>4. CASE accept_cancel_inflight
  <2>1. cq' = q /\ armed' = armed /\ accept_cancel_inflight' = accept_cancel_inflight
    BY <1>4 DEF StageCancelAll
  <2>2. ~SqeMayFail => \A l \in Listeners : Armed(l)' = 0
    BY <1>4, <2>1 DEF AcceptInv, Turns, Armed
  <2> QED BY <1>1, <1>2, <1>4, <2>1, <2>2
<1>5. CASE ~accept_cancel_inflight
  <2>1. /\ cq' = CanceledCqes(k, q)
        /\ armed' = [l \in Listeners |-> IF l <= k THEN [s \in Shots |-> 0] ELSE armed[l]]
        /\ accept_cancel_inflight' = (k = NumListeners)
    BY <1>5 DEF StageCancelAll
  <2>2. Behind(q, cq')
    BY <1>1, <1>3, <2>1, CanceledBehind
  <2>3. Count(cq', Backoff) = Count(q, Backoff)
    BY <1>1, <2>2, CountBehind, Apart
  <2>4. cq' \in Seq(Kind)
    <3>1. cq' \in Seq(Cqe) /\ Len(cq') \in Nat /\ Len(q) \in Nat
      BY <1>1, <2>2 DEF Behind
    <3>2. \A i \in 1 .. Len(cq') : i \in 1 .. Len(q) \/ i \in Len(q) + 1 .. Len(cq')
      BY <3>1
    <3>3. \A i \in 1 .. Len(q) : q[i] \in Kind
      OBVIOUS
    <3>4. \A i \in 1 .. Len(cq') : cq'[i] \in Kind
      BY <1>2, <2>2, <3>2, <3>3, Zenon DEF Behind
    <3> QED BY <3>1, <3>4
  <2>5. ~SqeMayFail => \A l \in Listeners : Armed(l)' = 0
    BY <1>1, <1>3, <2>1 DEF Armed, Listeners, Shots, ConstantsOK
  <2>6. ~SqeMayFail => accept_cancel_inflight'
    BY <1>3, <2>1, Zenon
  <2> QED BY <1>2, <2>1, <2>2, <2>3, <2>4, <2>5, <2>6 DEF Behind
<1> QED BY <1>4, <1>5

LEMMA PauseKeeps == ASSUME AcceptInv, AcceptPause PROVE AcceptInv'
<1> DEFINE c == Head(cq)
           t == Tail(cq)
<1>1. Typed /\ ConstantsOK /\ cq # <<>> /\ c.op = "accept" /\ ~accept_backoff_armed
  BY DEF AcceptInv, AcceptPause, IsAccept
<1>2. /\ timers' = timers + 1 /\ kernel_multishot' = kernel_multishot
      /\ accept_multishot' = accept_multishot /\ accept_paused' = TRUE
      /\ accept_backoff_armed' = TRUE /\ is_draining' = is_draining
  BY DEF AcceptPause
<1>3. PICK k \in Served : StageCancelAll(k, t)
  BY DEF AcceptPause
<1>4. /\ c \in Cqe /\ t \in Seq(Kind) /\ Count(t, Backoff) \in Nat
      /\ Count(cq, Backoff) = Count(t, Backoff) + (IF c \in Backoff THEN 1 ELSE 0)
  BY <1>1, Taken
<1>5. Count(t, Backoff) = Count(cq, Backoff)
  BY <1>1, <1>4, Apart
<1>6. /\ cq' \in Seq(Kind') /\ cq' \in Seq(Cqe) /\ Count(cq', Backoff) = Count(t, Backoff)
      /\ accept_cancel_inflight' \in BOOLEAN
      /\ ~SqeMayFail => accept_cancel_inflight' /\ \A l \in Listeners : Armed(l)' = 0
  BY <1>2, <1>3, <1>4, CancelAll, Zenon
<1>7. Typed'
  <2>1. ArmedOK'
    BY <1>1, <1>3, CancelOK DEF Typed
  <2>2. timers' \in Nat
    BY <1>1, <1>2 DEF Typed
  <2> QED BY <1>1, <1>2, <1>6, <2>1, <2>2, Zenon DEF Typed
<1>8. timers \in Nat /\ (~is_draining => timers = 0 /\ Count(cq', Backoff) = 0)
  BY <1>1, <1>4, <1>5, <1>6 DEF AcceptInv, Resuming, Typed
<1>9. Resuming'
  BY <1>2, <1>8 DEF Resuming, Backoff, Cqe, Listeners
<1>10. ASSUME ~SqeMayFail PROVE Turns'
  <2>1. ~is_draining => \A i \in 1 .. Len(cq') : cq'[i] \notin Backoff
    BY <1>6, <1>8, CountNone
  <2> QED BY <1>2, <1>6, <1>10, <2>1 DEF Turns, Listeners, Backoff, Cqe
<1> QED BY <1>1, <1>7, <1>9, <1>10 DEF AcceptInv, ConstantsOK

LEMMA ResumeKeeps == ASSUME AcceptInv, BackoffResume PROVE AcceptInv'
<1> DEFINE c == Head(cq)
           t == Tail(cq)
<1>1. Typed /\ ConstantsOK /\ cq # <<>> /\ c.op = "backoff" /\ ~is_draining
  BY DEF AcceptInv, BackoffResume, IsBackoff, BackoffStale
<1>2. /\ cq' = t /\ timers' = timers /\ kernel_multishot' = kernel_multishot
      /\ accept_multishot' = accept_multishot /\ accept_paused' = FALSE
      /\ accept_cancel_inflight' = FALSE
      /\ accept_backoff_armed' = FALSE /\ is_draining' = is_draining
  BY DEF BackoffResume
<1>3. PICK k \in Served : armed' = Posted(1 .. k, accept_multishot)
  BY DEF BackoffResume
<1>4. /\ c \in Cqe /\ t \in Seq(Kind) /\ t \in Seq(Cqe) /\ c = cq[1]
      /\ Len(t) = Len(cq) - 1 /\ Len(cq) \in Nat /\ Len(cq) > 0
      /\ \A S : Count(t, S) \in Nat /\ Count(cq, S) = Count(t, S) + (IF c \in S THEN 1 ELSE 0)
  BY <1>1, Taken
<1> HIDE DEF c, t
<1>5. c \in Backoff
  BY <1>1, <1>4, Apart
<1>6. Typed'
  <2>1. ArmedOK'
    BY <1>1, <1>3, PostedOK DEF Typed, ArmedOK
  <2>2. Kind' = Kind
    BY <1>2 DEF Kind, Cqe
  <2> QED BY <1>1, <1>2, <1>4, <2>1, <2>2, Zenon DEF Typed
<1>7. Count(t, Backoff) \in Nat /\ Count(cq, Backoff) = Count(t, Backoff) + 1 /\ timers \in Nat
  BY <1>1, <1>4, <1>5 DEF Typed
<1>8. accept_backoff_armed /\ timers = 0 /\ Count(t, Backoff) = 0
  BY <1>1, <1>7 DEF AcceptInv, Resuming
<1>9. Resuming'
  BY <1>2, <1>8 DEF Resuming, Backoff, Cqe, Listeners
<1>10. ASSUME ~SqeMayFail PROVE Turns'
  <2>1. Turns /\ accept_paused
    BY <1>8, <1>10 DEF AcceptInv, Resuming
  <2>2. Len(t) = 0
    <3>1. 1 \in 1 .. Len(cq) /\ cq[1] \in Backoff
      BY <1>4, <1>5
    <3>2. 1 = Len(cq)
      BY <1>1, <2>1, <3>1 DEF Turns
    <3>3. Len(t) = Len(cq) - 1
      BY <1>4, Zenon
    <3> QED BY <3>2, <3>3
  <2>3. \A l \in Listeners : Count(t, End(l)) = 0
    <3>1. \A S : \A i \in 1 .. Len(t) : t[i] \notin S
      BY <2>2
    <3> QED BY <1>4, <3>1, CountNone
  <2>4. \A l \in Listeners : Armed(l)' = 1
    <3>1. k = NumListeners
      BY <1>3, <1>10 DEF Served
    <3>2. \A l \in Listeners : l \in 1 .. k /\ Armed(l) = 0
      BY <2>1, <3>1 DEF Turns, Listeners
    <3>3. \A l \in Listeners : Armed(l)' = Armed(l) + (IF l \in 1 .. k THEN 1 ELSE 0)
      BY <1>1, <1>3, PostedArmed DEF Typed
    <3> QED BY <3>2, <3>3
  <2>5. \A i \in 1 .. Len(t) : i = Len(t)
    BY <2>2
  <2> QED BY <1>2, <2>3, <2>4, <2>5 DEF Turns, Listeners, End, Backoff, Cqe
<1> QED BY <1>1, <1>6, <1>9, <1>10 DEF AcceptInv, ConstantsOK

LEMMA IgnoredKeeps == ASSUME AcceptInv, BackoffIgnored PROVE AcceptInv'
<1> DEFINE c == Head(cq)
           t == Tail(cq)
<1>1. Typed /\ ConstantsOK /\ cq # <<>> /\ c.op = "backoff" /\ is_draining
  BY DEF AcceptInv, BackoffIgnored, IsBackoff, BackoffStale
<1>2. /\ cq' = t /\ timers' = timers /\ armed' = armed /\ kernel_multishot' = kernel_multishot
      /\ accept_multishot' = accept_multishot /\ accept_paused' = accept_paused
      /\ accept_cancel_inflight' = accept_cancel_inflight
      /\ accept_backoff_armed' = FALSE /\ is_draining' = is_draining
  BY DEF BackoffIgnored
<1>3. /\ c \in Cqe /\ t \in Seq(Kind)
      /\ \A S : Count(t, S) \in Nat /\ Count(cq, S) = Count(t, S) + (IF c \in S THEN 1 ELSE 0)
  BY <1>1, Taken
<1> HIDE DEF c, t
<1>4. \A l : c \notin End(l)
  BY <1>1, <1>3, Apart
<1>5. Typed'
  <2>1. Kind' = Kind
    BY <1>2 DEF Kind, Cqe
  <2> QED BY <1>1, <1>2, <1>3, <2>1, Zenon DEF Typed, ArmedOK
<1>6. Resuming'
  BY <1>1, <1>2 DEF Resuming
<1>7. ASSUME ~SqeMayFail PROVE Turns'
  <2>1. Turns
    BY <1>7 DEF AcceptInv
  <2>2. \A l \in Listeners : Count(t, End(l)) = Count(cq, End(l))
    BY <1>3, <1>4
  <2> QED BY <1>1, <1>2, <2>1, <2>2, Zenon DEF Turns, Listeners, End, Backoff, Cqe, Armed
<1> QED BY <1>1, <1>5, <1>6, <1>7 DEF AcceptInv, ConstantsOK

LEMMA DrainKeeps == ASSUME AcceptInv, SeeDrain \/ EnterDrain PROVE AcceptInv'
<1>1. Typed /\ ConstantsOK
  BY DEF AcceptInv
<1>2. CASE SeeDrain
  <2>1. /\ cq' = cq /\ timers' = timers /\ armed' = armed /\ kernel_multishot' = kernel_multishot
        /\ accept_multishot' = accept_multishot /\ accept_paused' = accept_paused
        /\ accept_cancel_inflight' = accept_cancel_inflight
        /\ accept_backoff_armed' = accept_backoff_armed /\ is_draining' = TRUE
    BY <1>2 DEF SeeDrain
  <2>2. Typed'
    <3>1. Kind' = Kind
      BY <2>1 DEF Kind, Cqe
    <3> QED BY <1>1, <2>1, <3>1, Zenon DEF Typed, ArmedOK
  <2>3. Resuming'
    BY <2>1 DEF AcceptInv, Resuming
  <2>4. Turns => Turns'
    BY <2>1 DEF Turns, Listeners, End, Backoff, Cqe, Armed
  <2> QED BY <1>1, <2>2, <2>3, <2>4 DEF AcceptInv, ConstantsOK
<1>3. CASE EnterDrain
  <2>1. /\ timers' = timers /\ kernel_multishot' = kernel_multishot
        /\ accept_multishot' = accept_multishot /\ accept_paused' = TRUE
        /\ accept_backoff_armed' = FALSE /\ is_draining' = TRUE
    BY <1>3 DEF EnterDrain
  <2>2. PICK k \in Served : StageCancelAll(k, cq)
    BY <1>3 DEF EnterDrain
  <2>3. /\ cq' \in Seq(Kind') /\ accept_cancel_inflight' \in BOOLEAN
        /\ ~SqeMayFail => accept_cancel_inflight' /\ \A l \in Listeners : Armed(l)' = 0
    BY <1>1, <2>1, <2>2, CancelAll DEF Typed
  <2>4. Typed'
    <3>1. ArmedOK'
      BY <1>1, <2>2, CancelOK DEF Typed
    <3> QED BY <1>1, <2>1, <2>3, <3>1, Zenon DEF Typed
  <2>5. Resuming'
    BY <2>1 DEF Resuming
  <2>6. ~SqeMayFail => Turns'
    BY <2>1, <2>3 DEF Turns, Listeners
  <2> QED BY <1>1, <2>4, <2>5, <2>6 DEF AcceptInv, ConstantsOK
<1> QED BY <1>2, <1>3

LEMMA InvNext == AcceptInv /\ [Next]_vars => AcceptInv'
<1> SUFFICES ASSUME AcceptInv, [Next]_vars PROVE AcceptInv'
  OBVIOUS
<1>1. ASSUME NEW l \in Listeners, NEW s \in Shots, NEW res \in Results \ {"canceled"},
             NEW more \in BOOLEAN, KernelAccept(l, s, res, more)
      PROVE  AcceptInv'
  BY <1>1, AcceptKeeps
<1>2. CASE AcceptRearm \/ AcceptNoTimer
  <2>1. cq # <<>> /\ Head(cq).op = "accept" /\ Rearm(Head(cq), accept_multishot)
    BY <1>2 DEF AcceptRearm, AcceptNoTimer, IsAccept
  <2>2. accept_multishot \in BOOLEAN /\ (~accept_multishot => ~kernel_multishot)
    BY DEF AcceptInv, Typed
  <2> QED BY <2>1, <2>2, RearmKeeps
<1>3. CASE AcceptDowngrade
  <2>1. cq # <<>> /\ Head(cq).op = "accept" /\ Head(cq).res = "inval" /\ Rearm(Head(cq), FALSE)
    BY <1>3 DEF AcceptDowngrade, IsAccept
  <2>2. Head(cq) \in Kind
    BY <2>1, Taken DEF AcceptInv
  <2>3. ~kernel_multishot
    BY <2>1, <2>2 DEF Kind
  <2> QED BY <2>1, <2>3, RearmKeeps, Zenon
<1>4. CASE UNCHANGED vars
  <2>1. /\ cq' = cq /\ timers' = timers /\ armed' = armed /\ kernel_multishot' = kernel_multishot
        /\ accept_multishot' = accept_multishot /\ accept_paused' = accept_paused
        /\ accept_cancel_inflight' = accept_cancel_inflight
        /\ accept_backoff_armed' = accept_backoff_armed /\ is_draining' = is_draining
    BY <1>4 DEF vars
  <2>2. Typed => Typed'
    BY <2>1 DEF Typed, ArmedOK, Kind, Cqe
  <2>3. Resuming => Resuming'
    BY <2>1 DEF Resuming, Backoff, Cqe, Listeners
  <2>4. Turns => Turns'
    BY <2>1 DEF Turns, Listeners, End, Backoff, Cqe, Armed
  <2> QED BY <2>2, <2>3, <2>4 DEF AcceptInv, ConstantsOK
<1> QED BY <1>1, <1>2, <1>3, <1>4, TimerKeeps, CanceledKeeps, PauseKeeps, ResumeKeeps,
           IgnoredKeeps, DrainKeeps
        DEF Next, Kernel, HandleCqe

-----------------------------------------------------------------------------
\* A worker that paused for want of descriptors has exactly one back-off timer on
\* its way until it resumes or drains, also when entries of the submission queue
\* are refused, in whatever order completions come (accept_handle_cqe,
\* accept_handle_backoff).
THEOREM PauseEnds ==
  ASSUME ConstantsOK
  PROVE  Spec => []PausedWillResume
<1>1. AcceptInv => PausedWillResume
  <2> SUFFICES ASSUME AcceptInv PROVE PausedWillResume
    OBVIOUS
  <2>1. Typed /\ Resuming
    BY DEF AcceptInv
  <2>2. {i \in DOMAIN cq : cq[i].op = "backoff"} = Where(cq, Backoff)
    <3>1. \A i \in DOMAIN cq : cq[i] \in Cqe
      BY <2>1, KindCqe
    <3> QED BY <3>1 DEF Where, Backoff
  <2>3. BackoffsDue = timers + Count(cq, Backoff)
    BY <2>2 DEF BackoffsDue, Count
  <2> QED BY <2>1, <2>3 DEF PausedWillResume, Resuming, Typed
<1> QED BY <1>1, InvInit, InvNext, PTL DEF Spec

\* While entries of the submission queue can be had, a listener of a worker that
\* is not paused is served by exactly one accept, and by none while it is paused:
\* no order of errors, cancellations, pauses and downgrades forgets a listener or
\* arms it twice (accept_handle_cqe, accept_maybe_stage_cancel_all,
\* accept_handle_backoff).
THEOREM ListenersServed ==
  ASSUME ConstantsOK
  PROVE  Spec => []OneAcceptPerListener
<1>1. AcceptInv => OneAcceptPerListener
  <2> SUFFICES ASSUME AcceptInv, ~SqeMayFail, NEW l \in Listeners
               PROVE  IF accept_paused THEN Armed(l) = 0 ELSE AcceptsDue(l) = 1
    BY DEF OneAcceptPerListener
  <2>1. Typed /\ Turns
    BY DEF AcceptInv
  <2>2. {i \in DOMAIN cq : cq[i].op = "accept" /\ cq[i].lfd = l /\ ~cq[i].more} = Where(cq, End(l))
    <3>1. \A i \in DOMAIN cq : cq[i] \in Cqe
      BY <2>1, KindCqe
    <3> QED BY <3>1 DEF Where, End
  <2>3. AcceptsDue(l) = Armed(l) + Count(cq, End(l))
    BY <2>2 DEF AcceptsDue, Count
  <2> QED BY <2>1, <2>3 DEF Turns
<1> QED BY <1>1, InvInit, InvNext, PTL DEF Spec
=============================================================================
