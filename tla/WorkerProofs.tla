---------------------------- MODULE WorkerProofs ----------------------------
(***************************************************************************)
(* The invariants of a worker, for every number of connections and         *)
(* descriptors and for every size.                                         *)
(*                                                                         *)
(* The first part is what every function on a connection preserves.        *)
(* Good(k, sk) is the set of connections that are well typed, whose        *)
(* references balance when the caller holds k of them, whose descriptor,   *)
(* store entry, wheel entry and share of active_conns agree, and whose     *)
(* socket is sk or already closed.  Each operator of Conn and ConnHandlers *)
(* takes good connections to good connections: k is 1 inside the handler   *)
(* of a completion, which holds the operation's reference, and 0           *)
(* elsewhere.                                                              *)
(*                                                                         *)
(* The second part is the worker: between handlers every connection is     *)
(* good with no reference held.  With the fact that no two structures hold *)
(* the same socket this is inductive, and it implies the invariants.       *)
(***************************************************************************)
EXTENDS Worker, TLAPS

Balance(c, k) ==
  /\ c.refcnt = Owner(c) + c.rd + c.wr + c.pl + c.cl + k
  /\ c.live <=> c.refcnt > 0
  /\ c.key = c.fd
  /\ c.key # NoFd => c.sock = c.key /\ c.cl = 0
  /\ c.cl <= 1
  /\ c.sock # NoFd => c.key # NoFd \/ c.cl = 1
  /\ c.deadline_active => c.key # NoFd
  /\ c.counted = Owner(c)

Good(k, sk) == {c \in ConnRec : Balance(c, k) /\ c.sock \in {sk, NoFd}}

-----------------------------------------------------------------------------
\* The members that play no part in the balance may take any value.
LEMMA SetStray ==
  \A k \in Nat : \A sk : \A c \in Good(k, sk), v \in FdOrNone :
    [c EXCEPT !.stray = v] \in Good(k, sk)
  BY DEF Good, Balance, Owner, ConnRec
LEMMA SetRoom ==
  \A k \in Nat : \A sk : \A c \in Good(k, sk), v \in 0 .. SndBuf :
    [c EXCEPT !.room = v] \in Good(k, sk)
  BY DEF Good, Balance, Owner, ConnRec
LEMMA SetShut ==
  \A k \in Nat : \A sk : \A c \in Good(k, sk), v \in BOOLEAN :
    [c EXCEPT !.shut = v] \in Good(k, sk)
  BY DEF Good, Balance, Owner, ConnRec
LEMMA SetClosing ==
  \A k \in Nat : \A sk : \A c \in Good(k, sk), v \in BOOLEAN :
    [c EXCEPT !.closing = v] \in Good(k, sk)
  BY DEF Good, Balance, Owner, ConnRec
LEMMA SetDraining ==
  \A k \in Nat : \A sk : \A c \in Good(k, sk), v \in BOOLEAN :
    [c EXCEPT !.draining = v] \in Good(k, sk)
  BY DEF Good, Balance, Owner, ConnRec
LEMMA SetKaIdle ==
  \A k \in Nat : \A sk : \A c \in Good(k, sk), v \in BOOLEAN :
    [c EXCEPT !.ka_idle = v] \in Good(k, sk)
  BY DEF Good, Balance, Owner, ConnRec
LEMMA SetWriteStart ==
  \A k \in Nat : \A sk : \A c \in Good(k, sk), v \in BOOLEAN :
    [c EXCEPT !.write_start = v] \in Good(k, sk)
  BY DEF Good, Balance, Owner, ConnRec
LEMMA SetKind ==
  \A k \in Nat : \A sk : \A c \in Good(k, sk), v \in DeadlineKind :
    [c EXCEPT !.deadline_kind = v] \in Good(k, sk)
  BY DEF Good, Balance, Owner, ConnRec
LEMMA SetPhase ==
  \A k \in Nat : \A sk : \A c \in Good(k, sk), v \in Phase :
    [c EXCEPT !.phase = v] \in Good(k, sk)
  BY DEF Good, Balance, Owner, ConnRec
LEMMA SetTooBig ==
  \A k \in Nat : \A sk : \A c \in Good(k, sk), v \in BOOLEAN :
    [c EXCEPT !.too_big = v] \in Good(k, sk)
  BY DEF Good, Balance, Owner, ConnRec
LEMMA SetStreak ==
  \A k \in Nat : \A sk : \A c \in Good(k, sk), v \in Nat :
    [c EXCEPT !.noselect_streak = v] \in Good(k, sk)
  BY DEF Good, Balance, Owner, ConnRec
LEMMA SetStash ==
  \A k \in Nat : \A sk : \A c \in Good(k, sk), v \in 0 .. StashCap :
    [c EXCEPT !.stash = v] \in Good(k, sk)
  BY DEF Good, Balance, Owner, ConnRec
LEMMA SetRespKind ==
  \A k \in Nat : \A sk : \A c \in Good(k, sk), v \in RespKind :
    [c EXCEPT !.resp_kind = v] \in Good(k, sk)
  BY DEF Good, Balance, Owner, ConnRec
LEMMA SetWriteBuf ==
  \A k \in Nat : \A sk : \A c \in Good(k, sk), v \in BOOLEAN :
    [c EXCEPT !.write_buf = v] \in Good(k, sk)
  BY DEF Good, Balance, Owner, ConnRec
LEMMA SetWriteRem ==
  \A k \in Nat : \A sk : \A c \in Good(k, sk), v \in 0 .. MaxSend :
    [c EXCEPT !.write_rem = v] \in Good(k, sk)
  BY DEF Good, Balance, Owner, ConnRec
LEMMA SetFileRem ==
  \A k \in Nat : \A sk : \A c \in Good(k, sk), v \in 0 .. MaxFile :
    [c EXCEPT !.file_rem = v] \in Good(k, sk)
  BY DEF Good, Balance, Owner, ConnRec
LEMMA SetKeepAlive ==
  \A k \in Nat : \A sk : \A c \in Good(k, sk), v \in BOOLEAN :
    [c EXCEPT !.keepalive = v] \in Good(k, sk)
  BY DEF Good, Balance, Owner, ConnRec
LEMMA SetDrainAfter ==
  \A k \in Nat : \A sk : \A c \in Good(k, sk), v \in BOOLEAN :
    [c EXCEPT !.drain_after_headers = v] \in Good(k, sk)
  BY DEF Good, Balance, Owner, ConnRec
LEMMA SetPollArmed ==
  \A k \in Nat : \A sk : \A c \in Good(k, sk), v \in BOOLEAN :
    [c EXCEPT !.write_poll_armed = v] \in Good(k, sk)
  BY DEF Good, Balance, Owner, ConnRec
LEMMA SetRecvArmed ==
  \A k \in Nat : \A sk : \A c \in Good(k, sk), v \in BOOLEAN :
    [c EXCEPT !.recv_armed = v] \in Good(k, sk)
  BY DEF Good, Balance, Owner, ConnRec

\* The types of the members that the operators compute with.
LEMMA Members ==
  \A c \in ConnRec :
    /\ c.refcnt \in Nat /\ c.rd \in Nat /\ c.wr \in Nat /\ c.pl \in Nat /\ c.cl \in Nat
    /\ c.fd \in FdOrNone /\ c.key \in FdOrNone /\ c.sock \in FdOrNone
    /\ c.stray \in FdOrNone /\ c.counted \in Int /\ c.live \in BOOLEAN
    /\ c.deadline_active \in BOOLEAN /\ c.write_poll_armed \in BOOLEAN
    /\ c.room \in 0 .. SndBuf /\ c.stash \in 0 .. StashCap
    /\ c.write_rem \in 0 .. MaxSend /\ c.file_rem \in 0 .. MaxFile
    /\ c.noselect_streak \in Nat
  BY DEF ConnRec

LEMMA PutMembers ==
  \A c \in ConnRec :
    /\ \A v \in BOOLEAN : [c EXCEPT !.live = v] \in ConnRec
    /\ \A v \in BOOLEAN : [c EXCEPT !.deadline_active = v] \in ConnRec
    /\ \A v \in Nat : [c EXCEPT !.refcnt = v] \in ConnRec
    /\ \A v \in Nat : [c EXCEPT !.rd = v] \in ConnRec
    /\ \A v \in Nat : [c EXCEPT !.wr = v] \in ConnRec
    /\ \A v \in Nat : [c EXCEPT !.pl = v] \in ConnRec
    /\ \A v \in Nat : [c EXCEPT !.cl = v] \in ConnRec
    /\ \A v \in Int : [c EXCEPT !.counted = v] \in ConnRec
    /\ \A v \in FdOrNone : [c EXCEPT !.fd = v] \in ConnRec
    /\ \A v \in FdOrNone : [c EXCEPT !.key = v] \in ConnRec
    /\ \A v \in FdOrNone : [c EXCEPT !.sock = v] \in ConnRec
    /\ \A v \in FdOrNone : [c EXCEPT !.stray = v] \in ConnRec
  BY DEF ConnRec

LEMMA PutArmed ==
  \A c \in ConnRec : \A v \in BOOLEAN : [c EXCEPT !.recv_armed = v] \in ConnRec
  BY DEF ConnRec

LEMMA GoodIsConn == \A k, sk : \A c \in Good(k, sk) : c \in ConnRec
  BY DEF Good

LEMMA BlankType == Blank \in ConnRec
  BY SizeAssumption DEF Blank, ConnRec, FdOrNone, DeadlineKind, Phase, RespKind

-----------------------------------------------------------------------------
\* References and operations in flight.

\* conn_put gives up one of the caller's references.
LEMMA ConnPutGood ==
  \A k \in Nat : \A sk : \A c \in Good(k + 1, sk) : ConnPut(c) \in Good(k, sk)
<1> SUFFICES ASSUME NEW k \in Nat, NEW sk, NEW c \in Good(k + 1, sk)
             PROVE  ConnPut(c) \in Good(k, sk)
  OBVIOUS
<1>1. c \in ConnRec /\ Balance(c, k + 1) /\ c.sock \in {sk, NoFd}
  BY DEF Good
<1>2. CASE c.refcnt = 1
  <2> DEFINE d == Recycle(c)
  <2>1. c.rd = 0 /\ c.wr = 0 /\ c.pl = 0 /\ c.cl = 0 /\ k = 0 /\ c.key = NoFd
        /\ c.counted = 0 /\ c.sock = NoFd
    BY <1>1, <1>2, Members DEF Balance, Owner
  <2>2. /\ d.refcnt = 0 /\ d.rd = c.rd /\ d.wr = c.wr /\ d.pl = c.pl /\ d.cl = c.cl
        /\ d.key = c.key /\ d.fd = NoFd /\ d.sock = c.sock /\ d.counted = c.counted
        /\ d.live = FALSE /\ d.deadline_active = FALSE
    BY DEF Recycle, Blank
  <2>3. d \in ConnRec
    <3>1. /\ c.key \in FdOrNone /\ c.sock \in FdOrNone /\ c.stray \in FdOrNone
          /\ c.rd \in Nat /\ c.wr \in Nat /\ c.pl \in Nat /\ c.cl \in Nat
          /\ c.counted \in Int
      BY <1>1, Members
    <3> QED
      BY <3>1, BlankType, PutMembers DEF Recycle
  <2> HIDE DEF d
  <2>4. d \in Good(k, sk)
    BY <1>1, <2>1, <2>2, <2>3 DEF Good, Balance, Owner
  <2> QED
    BY <1>2, <2>4 DEF ConnPut, d
<1>3. CASE c.refcnt # 1
  <2> DEFINE d == [c EXCEPT !.refcnt = @ - 1]
  <2>1. c.refcnt - 1 \in Nat /\ c.refcnt > 1 /\ c.live
    BY <1>1, <1>3, Members DEF Balance, Owner
  <2>2. d \in ConnRec
    BY <1>1, <2>1, PutMembers
  <2>3. /\ d.refcnt = c.refcnt - 1 /\ d.rd = c.rd /\ d.wr = c.wr /\ d.pl = c.pl
        /\ d.cl = c.cl /\ d.key = c.key /\ d.fd = c.fd /\ d.sock = c.sock
        /\ d.counted = c.counted /\ d.live = c.live
        /\ d.deadline_active = c.deadline_active
    BY <1>1 DEF ConnRec
  <2> HIDE DEF d
  <2>4. d \in Good(k, sk)
    <3>1. d.refcnt = Owner(d) + d.rd + d.wr + d.pl + d.cl + k
      BY <1>1, <2>3, Members DEF Balance, Owner
    <3>2. d.live
      BY <2>1, <2>3, Zenon
    <3>4. d.refcnt > 0
      BY <1>1, <2>1, <2>3, Members
    <3>3. d.deadline_active => d.key # NoFd
      BY <1>1, <2>3 DEF Balance
    <3> QED
      BY <1>1, <2>2, <2>3, <3>1, <3>2, <3>3, <3>4
      DEF Good, Balance, Owner
  <2> QED
    BY <1>3, <2>4 DEF ConnPut, d
<1> QED
  BY <1>2, <1>3

\* An operation is posted: it takes a reference on a structure that is in use.
LEMMA Posted ==
  ASSUME NEW k \in Nat, NEW sk, NEW c \in Good(k, sk), NEW d \in ConnRec,
         k > 0 \/ c.key # NoFd,
         d.refcnt = c.refcnt + 1,
         d.rd + d.wr + d.pl = c.rd + c.wr + c.pl + 1, d.cl = c.cl,
         d.key = c.key, d.fd = c.fd, d.sock = c.sock, d.counted = c.counted,
         d.live = c.live, d.deadline_active = c.deadline_active
  PROVE  d \in Good(k, sk)
<1>1. c \in ConnRec /\ Balance(c, k) /\ c.sock \in {sk, NoFd}
  BY DEF Good
<1>2. d.refcnt = Owner(d) + d.rd + d.wr + d.pl + d.cl + k
  BY <1>1, Members DEF Balance, Owner
<1>3. c.refcnt > 0 /\ d.refcnt > 0
  BY <1>1, Members DEF Balance, Owner
<1>4. c.live
  BY <1>1, <1>3 DEF Balance
<1>5. d.live
  BY <1>4, Zenon
<1>6. d.deadline_active => d.key # NoFd
  BY <1>1 DEF Balance
<1> QED
  BY <1>1, <1>2, <1>3, <1>5, <1>6 DEF Good, Balance, Owner

LEMMA PostSendGood ==
  ASSUME NEW k \in Nat, NEW sk, NEW c \in Good(k, sk), NEW f \in FdOrNone,
         k > 0 \/ c.key # NoFd
  PROVE  PostSend(c, f) \in Good(k, sk)
<1> DEFINE d == PostSend(c, f)
<1>1. c \in ConnRec
  BY GoodIsConn
<1>2. d \in ConnRec
  <2>1. c.refcnt + 1 \in Nat /\ c.wr + 1 \in Nat
    BY <1>1, Members
  <2>2. (IF c.fd = f THEN c.stray ELSE f) \in FdOrNone
    BY <1>1, Members
  <2> QED
    BY <1>1, <2>1, <2>2, PutMembers, Zenon DEF PostSend
<1>3. /\ d.refcnt = c.refcnt + 1 /\ d.wr = c.wr + 1 /\ d.rd = c.rd /\ d.pl = c.pl
      /\ d.cl = c.cl /\ d.key = c.key /\ d.fd = c.fd /\ d.sock = c.sock
      /\ d.counted = c.counted /\ d.live = c.live
      /\ d.deadline_active = c.deadline_active
  BY <1>1 DEF PostSend, ConnRec
<1> HIDE DEF d
<1>4. d.rd + d.wr + d.pl = c.rd + c.wr + c.pl + 1
  BY <1>1, <1>3, Members
<1>5. d \in Good(k, sk)
  BY <1>2, <1>3, <1>4, Posted
<1> QED
  BY <1>5 DEF d

LEMMA PostSendInHandler ==
  \A sk : \A c \in Good(1, sk), f \in FdOrNone : PostSend(c, f) \in Good(1, sk)
  BY PostSendGood

LEMMA PostRecvPtrGood ==
  ASSUME NEW k \in Nat, NEW sk, NEW c \in Good(k, sk)
  PROVE  \A d \in PostRecvPtr(c) : d \in Good(k, sk)
<1>1. c \in ConnRec
  BY GoodIsConn
<1>2. CASE c.fd = NoFd \/ ClosingNoDeadline(c) \/ c.recv_armed
  BY <1>2 DEF PostRecvPtr
<1>3. CASE ~(c.fd = NoFd \/ ClosingNoDeadline(c) \/ c.recv_armed)
  <2> DEFINE d == [c EXCEPT !.refcnt = @ + 1, !.rd = @ + 1, !.recv_armed = TRUE]
  <2>1. d \in ConnRec
    <3>1. c.refcnt + 1 \in Nat /\ c.rd + 1 \in Nat
      BY <1>1, Members
    <3>2. [c EXCEPT !.refcnt = @ + 1, !.rd = @ + 1] \in ConnRec
      BY <1>1, <3>1, PutMembers, Zenon
    <3> QED BY <3>2, PutArmed, Zenon
  <2>2. /\ d.refcnt = c.refcnt + 1 /\ d.rd = c.rd + 1 /\ d.wr = c.wr /\ d.pl = c.pl
        /\ d.cl = c.cl /\ d.key = c.key /\ d.fd = c.fd /\ d.sock = c.sock
        /\ d.counted = c.counted /\ d.live = c.live
        /\ d.deadline_active = c.deadline_active
    BY <1>1 DEF ConnRec
  <2>3. c.key # NoFd
    BY <1>3 DEF Good, Balance
  <2> HIDE DEF d
  <2>4. d.rd + d.wr + d.pl = c.rd + c.wr + c.pl + 1
    BY <1>1, <2>2, Members
  <2>5. d \in Good(k, sk)
    BY <2>1, <2>2, <2>3, <2>4, Posted
  <2> QED
    BY <1>3, <2>5 DEF PostRecvPtr, d
<1> QED
  BY <1>2, <1>3

LEMMA CancelWritePollGood ==
  \A k \in Nat : \A sk : \A c \in Good(k, sk) : \A d \in CancelWritePoll(c) : d \in Good(k, sk)
  BY SetPollArmed DEF CancelWritePoll, Sqe

-----------------------------------------------------------------------------
\* Deadlines.

LEMMA KindType == \A c : ConnDeadlineKind(c) \in DeadlineKind
  BY DEF ConnDeadlineKind, DeadlineKind

LEMMA SetDeadline ==
  ASSUME NEW k \in Nat, NEW sk, NEW c \in Good(k, sk), NEW kind \in DeadlineKind,
         NEW active \in BOOLEAN, active => c.key # NoFd
  PROVE  [c EXCEPT !.deadline_kind = kind, !.deadline_active = active] \in Good(k, sk)
<1> DEFINE b == [c EXCEPT !.deadline_kind = kind]
           d == [b EXCEPT !.deadline_active = active]
<1>1. b \in Good(k, sk) /\ b.key = c.key
  BY SetKind, GoodIsConn DEF ConnRec
<1> HIDE DEF b
<1>2. b \in ConnRec /\ Balance(b, k) /\ b.sock \in {sk, NoFd}
  BY <1>1 DEF Good
<1>3. d \in ConnRec
  BY <1>2, PutMembers
<1>4. /\ d.refcnt = b.refcnt /\ d.rd = b.rd /\ d.wr = b.wr /\ d.pl = b.pl
      /\ d.cl = b.cl /\ d.key = b.key /\ d.fd = b.fd /\ d.sock = b.sock
      /\ d.counted = b.counted /\ d.live = b.live /\ d.deadline_active = active
  BY <1>2 DEF ConnRec
<1> HIDE DEF d
<1>5. d.live <=> d.refcnt > 0
  BY <1>2, <1>4 DEF Balance
<1>6. d \in Good(k, sk)
  BY <1>1, <1>2, <1>3, <1>4, <1>5 DEF Good, Balance, Owner
<1> QED
  BY <1>6 DEF b, d

LEMMA TwRescheduleGood ==
  \A k \in Nat : \A sk : \A c \in Good(k, sk) : TwReschedule(c) \in Good(k, sk)
<1> SUFFICES ASSUME NEW k \in Nat, NEW sk, NEW c \in Good(k, sk)
             PROVE  TwReschedule(c) \in Good(k, sk)
  OBVIOUS
<1>1. ConnDeadlineKind(c) # "NONE" => c.key # NoFd
  BY DEF ConnDeadlineKind, Good, Balance
<1> QED
  BY <1>1, KindType, SetDeadline, Zenon DEF TwReschedule

LEMMA TwCancelGood ==
  \A k \in Nat : \A sk : \A c \in Good(k, sk) : TwCancel(c) \in Good(k, sk)
  BY SetDeadline, Zenon DEF TwCancel, DeadlineKind

LEMMA DeadlineOpsGood ==
  \A k \in Nat : \A sk : \A c \in Good(k, sk) :
    /\ MarkActivity(c) \in Good(k, sk)
    /\ PrepareCloseAfterSend(c) \in Good(k, sk)
    /\ ArmWriteTimeout(c) \in Good(k, sk)
    /\ ClearWriteTimeout(c) \in Good(k, sk)
    /\ Prepare431Draining(c) \in Good(k, sk)
  BY SetKaIdle, SetClosing, SetWriteStart, SetDraining, TwRescheduleGood, TwCancelGood, Zenon
  DEF MarkActivity, PrepareCloseAfterSend, ArmWriteTimeout, ClearWriteTimeout,
      Prepare431Draining

-----------------------------------------------------------------------------
\* schedule_or_sync_close.

\* The connection leaves the store; whoever detached it holds its reference.
LEMMA DetachedGood ==
  ASSUME NEW k \in Nat, NEW sk, NEW c \in Good(k, sk), c.key # NoFd,
         ~c.deadline_active
  PROVE  /\ \A d \in CancelWritePoll(Detach(c)) :
              /\ [d EXCEPT !.sock = NoFd] \in Good(k + 1, sk)
              /\ [d EXCEPT !.cl = @ + 1] \in Good(k, sk)
         /\ [Detach(c) EXCEPT !.sock = NoFd] \in Good(k + 1, sk)
<1>1. c \in ConnRec /\ Balance(c, k) /\ c.sock \in {sk, NoFd}
  BY DEF Good
<1> DEFINE e == Detach(c)
<1>2. e \in ConnRec
  <2>1. c.counted - 1 \in Int /\ NoFd \in FdOrNone
    BY <1>1, Members DEF FdOrNone
  <2> QED
    BY <1>1, <2>1, PutMembers, Zenon DEF Detach
<1>3. /\ e.refcnt = c.refcnt /\ e.rd = c.rd /\ e.wr = c.wr /\ e.pl = c.pl
      /\ e.cl = c.cl /\ e.key = NoFd /\ e.fd = NoFd /\ e.sock = c.sock
      /\ e.counted = c.counted - 1 /\ e.live = c.live
      /\ e.deadline_active = c.deadline_active
  BY <1>1 DEF Detach, ConnRec
<1> HIDE DEF e
<1>4. ASSUME NEW d \in ConnRec,
             d.refcnt = e.refcnt, d.rd = e.rd, d.wr = e.wr, d.pl = e.pl,
             d.cl = e.cl, d.key = e.key, d.fd = e.fd, d.sock = e.sock,
             d.counted = e.counted, d.live = e.live,
             d.deadline_active = e.deadline_active
      PROVE  /\ [d EXCEPT !.sock = NoFd] \in Good(k + 1, sk)
             /\ [d EXCEPT !.cl = @ + 1] \in Good(k, sk)
  <2>1. /\ d.refcnt = 1 + d.rd + d.wr + d.pl + k /\ d.cl = 0 /\ d.key = NoFd
        /\ d.fd = NoFd /\ d.counted = 0 /\ d.sock \in {sk, NoFd} /\ d.refcnt > 0
    BY <1>1, <1>3, <1>4, Members DEF Balance, Owner
  <2>2. c.live
    BY <1>1, <1>3, <1>4, <2>1 DEF Balance
  <2>3. d.live /\ ~d.deadline_active
    BY <1>3, <1>4, <2>2, Zenon
  <2>4. [d EXCEPT !.sock = NoFd] \in Good(k + 1, sk)
    <3> DEFINE x == [d EXCEPT !.sock = NoFd]
    <3>1. x \in ConnRec
      BY PutMembers DEF FdOrNone
    <3>2. /\ x.refcnt = d.refcnt /\ x.rd = d.rd /\ x.wr = d.wr /\ x.pl = d.pl
          /\ x.cl = d.cl /\ x.key = d.key /\ x.fd = d.fd /\ x.sock = NoFd
          /\ x.counted = d.counted /\ x.live = d.live
          /\ x.deadline_active = d.deadline_active
      BY DEF ConnRec
    <3> HIDE DEF x
    <3>3. x.live /\ ~x.deadline_active
      BY <2>3, <3>2, Zenon
    <3>4. x.refcnt = Owner(x) + x.rd + x.wr + x.pl + x.cl + (k + 1)
      <4>1. d.rd \in Nat /\ d.wr \in Nat /\ d.pl \in Nat
        BY Members
      <4> QED
        BY <2>1, <3>2, <4>1 DEF Owner
    <3>5. x \in Good(k + 1, sk)
      BY <2>1, <3>1, <3>2, <3>3, <3>4 DEF Good, Balance, Owner
    <3> QED
      BY <3>5 DEF x
  <2>5. [d EXCEPT !.cl = @ + 1] \in Good(k, sk)
    <3> DEFINE x == [d EXCEPT !.cl = @ + 1]
    <3>1. x \in ConnRec
      BY <2>1, PutMembers
    <3>2. /\ x.refcnt = d.refcnt /\ x.rd = d.rd /\ x.wr = d.wr /\ x.pl = d.pl
          /\ x.cl = d.cl + 1 /\ x.key = d.key /\ x.fd = d.fd /\ x.sock = d.sock
          /\ x.counted = d.counted /\ x.live = d.live
          /\ x.deadline_active = d.deadline_active
      BY DEF ConnRec
    <3> HIDE DEF x
    <3>3. x.live /\ ~x.deadline_active
      BY <2>3, <3>2, Zenon
    <3>4. x.refcnt = Owner(x) + x.rd + x.wr + x.pl + x.cl + k
      BY <2>1, <3>2, Members DEF Owner
    <3>5. x \in Good(k, sk)
      BY <2>1, <3>1, <3>2, <3>3, <3>4 DEF Good, Balance, Owner
    <3> QED
      BY <3>5 DEF x
  <2> QED
    BY <2>4, <2>5
<1>5. \A d \in CancelWritePoll(e) :
        /\ d \in ConnRec
        /\ d.refcnt = e.refcnt /\ d.rd = e.rd /\ d.wr = e.wr /\ d.pl = e.pl
        /\ d.cl = e.cl /\ d.key = e.key /\ d.fd = e.fd /\ d.sock = e.sock
        /\ d.counted = e.counted /\ d.live = e.live
        /\ d.deadline_active = e.deadline_active
  <2>1. \A v \in BOOLEAN : LET d == [e EXCEPT !.write_poll_armed = v] IN
        /\ d \in ConnRec
        /\ d.refcnt = e.refcnt /\ d.rd = e.rd /\ d.wr = e.wr /\ d.pl = e.pl
        /\ d.cl = e.cl /\ d.key = e.key /\ d.fd = e.fd /\ d.sock = e.sock
        /\ d.counted = e.counted /\ d.live = e.live
        /\ d.deadline_active = e.deadline_active
    BY <1>2 DEF ConnRec
  <2>2. \A d \in CancelWritePoll(e) :
          d = e \/ \E v \in BOOLEAN : d = [e EXCEPT !.write_poll_armed = v]
    BY DEF CancelWritePoll, Sqe
  <2> QED
    BY <1>2, <2>1, <2>2, Zenon
<1> QED
  BY <1>2, <1>4, <1>5 DEF e

\* Every way schedule_or_sync_close ends keeps the balance: the store's
\* reference is dropped with a synchronous close and handed to the close
\* operation otherwise.
LEMMA CloseGood ==
  ASSUME NEW k \in Nat, NEW sk, NEW c \in Good(k, sk), NEW abortive \in BOOLEAN
  PROVE  \A d \in ScheduleOrSyncClose(c, abortive) : d \in Good(k, sk)
<1> DEFINE b == [TwCancel(c) EXCEPT !.closing = TRUE]
           m == [b EXCEPT !.file_rem = 0]
           cancelled == CancelWritePoll(Detach(m))
           sync == {ConnPut([d EXCEPT !.sock = NoFd]) : d \in cancelled}
           async == {[d EXCEPT !.cl = @ + 1] : d \in cancelled}
           starved == {ConnPut([Detach(m) EXCEPT !.sock = NoFd])}
<1>1. c \in ConnRec /\ c.key = c.fd
  BY DEF Good, Balance
<1>2. m \in Good(k, sk)
  <2>1. b \in Good(k, sk)
    BY TwCancelGood, SetClosing
  <2>2. 0 \in 0 .. MaxFile
    BY SizeAssumption
  <2> QED
    BY <2>1, <2>2, SetFileRem, Zenon
<1>3. m.key = c.key /\ ~m.deadline_active
  BY <1>1 DEF TwCancel, ConnRec
<1>4. CASE c.key = NoFd
  BY <1>4 DEF ScheduleOrSyncClose
<1>5. CASE c.key # NoFd
  <2> HIDE DEF m
  <2>1. \A d \in sync \cup async \cup starved : d \in Good(k, sk)
    BY <1>2, <1>3, <1>5, DetachedGood, ConnPutGood, Zenon
  <2> HIDE DEF sync, async, starved
  <2>2. ScheduleOrSyncClose(c, abortive) \subseteq sync \cup async \cup starved
    BY <1>1, <1>5 DEF ScheduleOrSyncClose, Sqe, sync, async, starved, m
  <2> QED
    BY <2>1, <2>2
<1> QED
  BY <1>4, <1>5

-----------------------------------------------------------------------------
\* The transmit side and the staging of responses.

LEMMA TxResetGood ==
  \A k \in Nat : \A sk : \A c \in Good(k, sk) : TxReset(c) \in Good(k, sk)
<1> SUFFICES ASSUME NEW k \in Nat, NEW sk, NEW c \in Good(k, sk)
             PROVE  TxReset(c) \in Good(k, sk)
  OBVIOUS
<1> DEFINE a == [c EXCEPT !.file_rem = 0, !.write_buf = FALSE, !.write_rem = 0]
<1>0. 0 \in 0 .. MaxFile /\ 0 \in 0 .. MaxSend
  BY SizeAssumption
<1>1. a \in Good(k, sk)
  BY <1>0, SetFileRem, SetWriteBuf, SetWriteRem, Zenon
<1>2. "NONE" \in RespKind
  BY DEF RespKind
<1> HIDE DEF a
<1>3. [a EXCEPT !.resp_kind = "NONE", !.write_poll_armed = FALSE, !.keepalive = FALSE,
                !.drain_after_headers = FALSE, !.recv_armed = FALSE] \in Good(k, sk)
  BY <1>1, <1>2, SetRespKind, SetPollArmed, SetKeepAlive, SetDrainAfter, SetRecvArmed
<1> QED
  BY <1>3 DEF TxReset, a

LEMMA TxBeginHeadersGood ==
  ASSUME NEW k \in Nat, NEW sk, NEW c \in Good(k, sk), NEW kind \in RespKind,
         NEW ka \in BOOLEAN, NEW dah \in BOOLEAN
  PROVE  TxBeginHeaders(c, kind, ka, dah) \in Good(k, sk)
<1>1. MaxSend \in 0 .. MaxSend
  BY SizeAssumption
<1> QED
  BY <1>1, SetRespKind, SetWriteBuf, SetWriteRem, SetKeepAlive, SetDrainAfter, Zenon
  DEF TxBeginHeaders

LEMMA TxDiscardGood ==
  \A k \in Nat : \A sk : \A c \in Good(k, sk) : TxDiscard(c) \in Good(k, sk)
<1>1. 0 \in 0 .. MaxSend
  BY SizeAssumption
<1> QED
  BY <1>1, SetWriteBuf, SetWriteRem DEF TxDiscard

LEMMA StageHeaderResponseSendGood ==
  ASSUME NEW sk, NEW c \in Good(1, sk), NEW f \in FdOrNone, NEW drain \in BOOLEAN,
         NEW kind \in RespKind, NEW dah \in BOOLEAN, NEW close \in BOOLEAN
  PROVE  \A d \in StageHeaderResponseSend(c, f, drain, kind, dah, close) :
           d \in Good(1, sk)
<1>1. ASSUME NEW kd \in RespKind, NEW dh \in BOOLEAN, NEW cl \in BOOLEAN
      PROVE  PostSend(IF cl \/ drain
                      THEN PrepareCloseAfterSend(TxBeginHeaders(c, kd, FALSE, dh))
                      ELSE TxBeginHeaders(c, kd, FALSE, dh), f) \in Good(1, sk)
  <2>1. TxBeginHeaders(c, kd, FALSE, dh) \in Good(1, sk)
    BY TxBeginHeadersGood, Zenon
  <2>2. PrepareCloseAfterSend(TxBeginHeaders(c, kd, FALSE, dh)) \in Good(1, sk)
    BY <2>1, DeadlineOpsGood
  <2>3. (IF cl \/ drain THEN PrepareCloseAfterSend(TxBeginHeaders(c, kd, FALSE, dh))
         ELSE TxBeginHeaders(c, kd, FALSE, dh)) \in Good(1, sk)
    BY <2>1, <2>2, Zenon
  <2> QED
    BY <2>3, PostSendInHandler
<1>2. "OTHER" \in RespKind
  BY DEF RespKind
<1> QED
  BY <1>1, <1>2, Zenon DEF StageHeaderResponseSend

LEMMA DispatchOkGood ==
  ASSUME NEW sk, NEW c \in Good(1, sk), NEW f \in FdOrNone, NEW drain \in BOOLEAN
  PROVE  \A d \in DispatchOk(c, f, drain) : d \in Good(1, sk)
<1>1. "OTHER" \in RespKind /\ 0 \in 0 .. MaxFile /\ MaxFile \in 0 .. MaxFile
  BY SizeAssumption DEF RespKind
<1>2. ASSUME NEW ka \in BOOLEAN, NEW file \in {0, MaxFile}
      PROVE  StageTxBufferSend(c, f, ka, file) \in Good(1, sk)
  <2>1. TxBeginHeaders(c, "OTHER", ka, FALSE) \in Good(1, sk)
    BY <1>1, TxBeginHeadersGood, Zenon
  <2>2. [TxBeginHeaders(c, "OTHER", ka, FALSE) EXCEPT !.file_rem = file] \in Good(1, sk)
    BY <1>1, <2>1, SetFileRem, Zenon
  <2> QED
    BY <2>2, PostSendInHandler DEF StageTxBufferSend
<1>3. \A d \in StageHeaderResponseSend(c, f, drain, "OTHER", FALSE, TRUE) :
        d \in Good(1, sk)
  BY <1>1, StageHeaderResponseSendGood, Zenon
<1>4. \A d \in TxBufferResponses(c, f, drain) :
        \E ka \in BOOLEAN, file \in {0, MaxFile} : d = StageTxBufferSend(c, f, ka, file)
  BY Zenon DEF TxBufferResponses
<1> QED
  BY <1>2, <1>3, <1>4 DEF DispatchOk

LEMMA HttpApplyActionGood ==
  ASSUME NEW sk, NEW c \in Good(1, sk), NEW f \in FdOrNone, NEW drain \in BOOLEAN,
         NEW ie \in BOOLEAN
  PROVE  \A d \in HttpApplyAction(c, f, drain, ie) : d \in Good(1, sk)
<1>1. "OTHER" \in RespKind /\ "431" \in RespKind
  BY DEF RespKind
<1>2. \A d \in StageHeaderResponseSend(c, f, drain, "OTHER", FALSE, TRUE) :
        d \in Good(1, sk)
  BY <1>1, StageHeaderResponseSendGood, Zenon
<1>3. \A d \in StageHeaderResponseSend(Prepare431Draining(c), f, drain, "431", TRUE, FALSE) :
        d \in Good(1, sk)
  BY <1>1, StageHeaderResponseSendGood, DeadlineOpsGood, Zenon
<1>4. \A d \in {TwReschedule(x) : x \in PostRecvPtr(c)} : d \in Good(1, sk)
  BY PostRecvPtrGood, TwRescheduleGood
<1>5. TwReschedule(c) \in Good(1, sk)
  BY TwRescheduleGood
<1>6. \A d \in DispatchOk(TwReschedule(c), f, drain) : d \in Good(1, sk)
  BY <1>5, DispatchOkGood
<1>7. \A d \in Close(c) \cup Close(TwReschedule(c)) : d \in Good(1, sk)
  BY <1>5, CloseGood, Zenon DEF Close
<1> QED
  BY <1>2, <1>3, <1>4, <1>6, <1>7, Zenon DEF HttpApplyAction

-----------------------------------------------------------------------------
\* The receive side.

LEMMA FeedGood ==
  ASSUME NEW sk, NEW c \in Good(1, sk)
  PROVE  \A x \in HttpPipelineFeed(c) :
           /\ x \in Good(1, sk)
           /\ x.stash = c.stash
<1>1. \A p \in Phase, big \in BOOLEAN : Parsed(c, p, big) \in Good(1, sk)
  BY SetPhase, SetTooBig, Zenon DEF Parsed
<1>2. \A p \in Phase, big \in BOOLEAN : Parsed(c, p, big).stash = c.stash
  BY GoodIsConn DEF Parsed, ConnRec
<1>3. PhaseAfter(c) \subseteq Phase
  BY DEF PhaseAfter, Phase
<1>4. \A x \in HttpPipelineFeed(c) : \E p \in Phase, big \in BOOLEAN : x = Parsed(c, p, big)
  BY <1>3 DEF HttpPipelineFeed
<1> QED
  BY <1>1, <1>2, <1>4

LEMMA StashAndApplyGood ==
  ASSUME NEW sk, NEW c \in Good(1, sk), NEW f \in FdOrNone, NEW drain \in BOOLEAN,
         NEW n \in Nat, NEW ie \in BOOLEAN
  PROVE  \A d \in StashAndApply(c, f, drain, n, ie) : d \in Good(1, sk)
<1>1. \A x \in StashAppendOk(c, n) : x \in Good(1, sk)
  <2>1. StashFits(c, n) => c.stash + n \in 0 .. StashCap
    BY GoodIsConn, Members, SizeAssumption DEF StashFits
  <2> QED
    BY <2>1, SetStash DEF StashAppendOk
<1>2. \A x \in Close(c) : x \in Good(1, sk)
  BY CloseGood, Zenon DEF Close
<1> QED
  BY <1>1, <1>2, HttpApplyActionGood DEF StashAndApply

LEMMA UnconsumedType ==
  \A c : \A n \in Nat : \A left \in Unconsumed(c, n) : left \in Nat /\ left <= n
  BY DEF Unconsumed

LEMMA ReadBytesGood ==
  ASSUME NEW sk, NEW c \in Good(1, sk), NEW drain \in BOOLEAN
  PROVE  \A d \in ReadBytes(c, drain) : d \in Good(1, sk)
<1> DEFINE m == [MarkActivity(c) EXCEPT !.noselect_streak = 0]
<1>1. m \in Good(1, sk)
  BY DeadlineOpsGood, SetStreak
<1>2. c.fd \in FdOrNone /\ StashCap \in Nat
  BY GoodIsConn, Members, SizeAssumption
<1> HIDE DEF m
<1>3. \A n \in 1 .. StashCap : \A d \in StashAndApply(m, c.fd, drain, n, FALSE) :
        d \in Good(1, sk)
  <2>1. \A n \in 1 .. StashCap : n \in Nat
    BY <1>2
  <2> QED
    BY <1>1, <1>2, <2>1, StashAndApplyGood, Zenon
<1>4. ASSUME NEW x \in HttpPipelineFeed(m), NEW ie \in BOOLEAN
      PROVE  \A d \in ReadFed(x, c.fd, drain, ie) : d \in Good(1, sk)
  <2>1. x \in Good(1, sk)
    BY <1>1, FeedGood
  <2>2. \A n \in Unconsumed(x, StashCap) : n \in Nat
    BY <1>2, UnconsumedType
  <2> QED
    BY <1>2, <2>1, <2>2, StashAndApplyGood DEF ReadFed
<1> QED
  BY <1>3, <1>4, Zenon DEF ReadBytes, m

LEMMA ReadHandleCqeGood ==
  ASSUME NEW sk, NEW c \in Good(1, sk), NEW drain \in BOOLEAN, NEW res
  PROVE  \A d \in ReadHandleCqe(c, drain, res) : d \in Good(1, sk)
<1> DEFINE r == [c EXCEPT !.recv_armed = FALSE]
           s == [r EXCEPT !.noselect_streak = @ + 1]
<1>1. r \in Good(1, sk)
  BY SetRecvArmed, Zenon
<1> HIDE DEF r
<1>2. s \in Good(1, sk)
  <2>1. r.noselect_streak + 1 \in Nat
    BY <1>1, GoodIsConn, Members
  <2> QED
    BY <1>1, <2>1, SetStreak
<1> HIDE DEF s
<1>3. \A d \in RepostRecv(r) \cup RepostRecv(s) : d \in Good(1, sk)
  BY <1>1, <1>2, PostRecvPtrGood DEF RepostRecv
<1>4. \A d \in Close(r) \cup Close(s) : d \in Good(1, sk)
  BY <1>1, <1>2, CloseGood DEF Close
<1>5. \A d \in ReadNoBuffer(r) : d \in Good(1, sk)
  BY <1>3, <1>4 DEF ReadNoBuffer, s
<1>6. \A d \in ReadBytes(r, drain) : d \in Good(1, sk)
  BY <1>1, ReadBytesGood
<1> QED
  BY <1>3, <1>4, <1>5, <1>6 DEF ReadHandleCqe, r

-----------------------------------------------------------------------------
\* The send side.

LEMMA WritePostRemainingGood ==
  ASSUME NEW sk, NEW c \in Good(1, sk), NEW g \in BOOLEAN
  PROVE  \A d \in WritePostRemaining(c, g) : d \in Good(1, sk)
<1>1. PostSend(c, c.fd) \in Good(1, sk)
  BY GoodIsConn, Members, PostSendInHandler
<1>2. \A d \in Close(c) : d \in Good(1, sk)
  BY CloseGood, Zenon DEF Close
<1> QED
  BY <1>1, <1>2 DEF WritePostRemaining

LEMMA WriteArmPolloutGood ==
  ASSUME NEW sk, NEW c \in Good(1, sk)
  PROVE  \A d \in WriteArmPollout(c) : d \in Good(1, sk)
<1> DEFINE a == ArmWriteTimeout(c)
           b == [a EXCEPT !.write_poll_armed = TRUE]
           d == [b EXCEPT !.refcnt = @ + 1, !.pl = @ + 1]
           e == [a EXCEPT !.refcnt = @ + 1, !.pl = @ + 1, !.write_poll_armed = TRUE]
<1>1. a \in Good(1, sk)
  BY DeadlineOpsGood
<1> HIDE DEF a
<1>2. b \in Good(1, sk)
  BY <1>1, SetPollArmed, Zenon
<1>3. e = d
  BY <1>1, GoodIsConn, Zenon DEF ConnRec
<1> HIDE DEF b
<1>4. b \in ConnRec
  BY <1>2, GoodIsConn
<1>5. d \in ConnRec
  <2>1. b.refcnt + 1 \in Nat /\ b.pl + 1 \in Nat
    BY <1>4, Members
  <2> QED
    BY <1>4, <2>1, PutMembers, Zenon
<1>6. /\ d.refcnt = b.refcnt + 1 /\ d.pl = b.pl + 1 /\ d.rd = b.rd /\ d.wr = b.wr
      /\ d.cl = b.cl /\ d.key = b.key /\ d.fd = b.fd /\ d.sock = b.sock
      /\ d.counted = b.counted /\ d.live = b.live
      /\ d.deadline_active = b.deadline_active
  BY <1>4 DEF ConnRec
<1> HIDE DEF d
<1>7. d.rd + d.wr + d.pl = b.rd + b.wr + b.pl + 1
  BY <1>4, <1>6, Members
<1>8. d \in Good(1, sk)
  BY <1>2, <1>5, <1>6, <1>7, Posted
<1>9. \A x \in Close(a) : x \in Good(1, sk)
  BY <1>1, CloseGood, Zenon DEF Close
<1>10. e \in Good(1, sk)
  BY <1>3, <1>8
<1> HIDE DEF e
<1>11. \A x \in WriteArmPollout(c) : x = c \/ x = e \/ x \in Close(a) \/ x = a
  BY DEF WriteArmPollout, a, e
<1> QED
  BY <1>1, <1>9, <1>10, <1>11

LEMMA ShutWrAndReadGood ==
  ASSUME NEW sk, NEW c \in Good(1, sk)
  PROVE  \A d \in ShutWrAndRead(c) : d \in Good(1, sk)
<1>1. [ClearWriteTimeout(c) EXCEPT !.shut = TRUE] \in Good(1, sk)
  BY DeadlineOpsGood, SetShut, Zenon
<1> QED
  BY <1>1, PostRecvPtrGood DEF ShutWrAndRead

LEMMA ConnResetRequestGood ==
  ASSUME NEW sk, NEW c \in Good(1, sk)
  PROVE  ConnResetRequest(c) \in Good(1, sk)
<1> DEFINE t == TxReset(c)
           a == [t EXCEPT !.phase = "start", !.too_big = FALSE, !.ka_idle = TRUE,
                          !.closing = FALSE]
           b == [a EXCEPT !.write_start = FALSE, !.noselect_streak = 0,
                          !.draining = FALSE]
<1>0. "start" \in Phase
  BY DEF Phase
<1>1. t \in Good(1, sk)
  BY TxResetGood
<1> HIDE DEF t
<1>2. a \in Good(1, sk)
  BY <1>0, <1>1, SetPhase, SetTooBig, SetKaIdle, SetClosing, Zenon
<1> HIDE DEF a
<1>3. b \in Good(1, sk)
  BY <1>2, SetWriteStart, SetStreak, SetDraining, Zenon
<1> QED
  BY <1>3, TwRescheduleGood DEF ConnResetRequest, a, t

LEMMA AwaitRequestGood ==
  ASSUME NEW sk, NEW S, \A x \in S : x \in Good(1, sk)
  PROVE  \A d \in AwaitRequest(S) : d \in Good(1, sk)
  BY PostRecvPtrGood, TwRescheduleGood DEF AwaitRequest

LEMMA StashFedGood ==
  ASSUME NEW sk, NEW x \in Good(1, sk), NEW drain \in BOOLEAN, NEW ie \in BOOLEAN
  PROVE  \A d \in StashFed(x, drain, ie) : d \in Good(1, sk)
<1>1. x.fd \in FdOrNone /\ x.stash \in Nat /\ x.stash <= StashCap
  BY GoodIsConn, Members, SizeAssumption
<1>2. \A left \in Unconsumed(x, x.stash) : left \in 0 .. StashCap
  BY <1>1, UnconsumedType, SizeAssumption
<1>3. \A y \in HttpApplyAction(x, x.fd, drain, ie) : y \in Good(1, sk)
  BY <1>1, HttpApplyActionGood
<1>4. \A left \in Unconsumed(x, x.stash) : \A y \in ApplyStash(x, drain, left, ie) :
        y \in Good(1, sk)
  BY <1>2, <1>3, SetStash DEF ApplyStash
<1>5. \A left \in Unconsumed(x, x.stash) :
        \A y \in AwaitRequest(ApplyStash(x, drain, left, ie)) : y \in Good(1, sk)
  BY <1>4, AwaitRequestGood
<1> QED
  BY <1>4, <1>5 DEF StashFed

LEMMA NextRequestGood ==
  ASSUME NEW sk, NEW c \in Good(1, sk), NEW drain \in BOOLEAN
  PROVE  \A d \in NextRequest(c, drain) : d \in Good(1, sk)
<1> DEFINE r == ConnResetRequest(ClearWriteTimeout(c))
<1>1. r \in Good(1, sk)
  BY DeadlineOpsGood, ConnResetRequestGood
<1> HIDE DEF r
<1>2. \A d \in AwaitRequest({r}) : d \in Good(1, sk)
  BY <1>1, AwaitRequestGood
<1>3. \A x \in HttpPipelineFeed(MarkActivity(r)) : x \in Good(1, sk)
  BY <1>1, DeadlineOpsGood, FeedGood
<1>4. \A x \in HttpPipelineFeed(MarkActivity(r)) :
        \A d \in StashFed(x, drain, TRUE) \cup StashFed(x, drain, FALSE) : d \in Good(1, sk)
  BY <1>3, StashFedGood, Zenon
<1> QED
  BY <1>2, <1>4 DEF NextRequest, r

LEMMA WriteOnFullResponseGood ==
  ASSUME NEW sk, NEW c \in Good(1, sk), NEW drain \in BOOLEAN
  PROVE  \A d \in WriteOnFullResponse(c, drain) : d \in Good(1, sk)
<1>1. \A d \in Close(ClearWriteTimeout(c)) : d \in Good(1, sk)
  BY DeadlineOpsGood, CloseGood, Zenon DEF Close
<1> QED
  BY <1>1, ShutWrAndReadGood, NextRequestGood DEF WriteOnFullResponse

LEMMA SendfileProgressGood ==
  ASSUME NEW sk, NEW c \in Good(1, sk), NEW drain \in BOOLEAN
  PROVE  \A d \in SendfileProgress(c, drain) : d \in Good(1, sk)
<1> DEFINE n == Smaller(c.file_rem, c.room)
           sent == FileSent(c, n)
           some == {k \in 0 .. n : k < c.file_rem}
<1>1. c \in ConnRec
  BY GoodIsConn
<1>2. c.file_rem \in 0 .. MaxFile /\ c.room \in 0 .. SndBuf
  BY <1>1, Members
<1>3. n \in Nat /\ n <= c.file_rem /\ n <= c.room
  BY <1>2, SizeAssumption DEF Smaller
<1> HIDE DEF n
<1>4. \A k \in 0 .. n : FileSent(c, k) \in Good(1, sk)
  <2> SUFFICES ASSUME NEW k \in 0 .. n PROVE FileSent(c, k) \in Good(1, sk)
    OBVIOUS
  <2>1. c.file_rem - k \in 0 .. MaxFile /\ c.room - k \in 0 .. SndBuf
    BY <1>2, <1>3, SizeAssumption
  <2> QED
    BY <2>1, SetFileRem, SetRoom, Zenon DEF FileSent
<1>5. sent \in Good(1, sk)
  BY <1>3, <1>4
<1> HIDE DEF sent
<1>6. \A k \in some : \A d \in Close(ClearWriteTimeout(FileSent(c, k))) : d \in Good(1, sk)
  BY <1>4, DeadlineOpsGood, CloseGood, Zenon DEF Close
<1> HIDE DEF some
<1>7. \A d \in WriteArmPollout(IF n > 0 THEN ArmWriteTimeout(sent) ELSE sent) :
        d \in Good(1, sk)
  BY <1>5, DeadlineOpsGood, WriteArmPolloutGood
<1>8. \A x \in CancelWritePoll(sent) : \A d \in WriteOnFullResponse(x, drain) :
        d \in Good(1, sk)
  BY <1>5, CancelWritePollGood, WriteOnFullResponseGood
<1> QED
  BY <1>6, <1>7, <1>8, WriteOnFullResponseGood DEF SendfileProgress, n, sent, some

LEMMA WriteAdvanceGood ==
  ASSUME NEW sk, NEW c \in Good(1, sk), NEW drain \in BOOLEAN,
         NEW n \in 1 .. Smaller(c.write_rem, c.room)
  PROVE  \A d \in WriteAdvance(c, drain, n) : d \in Good(1, sk)
<1> DEFINE moved == [c EXCEPT !.room = @ - n]
           armed == ArmWriteTimeout(moved)
           w == [armed EXCEPT !.write_rem = @ - n]
<1>1. c \in ConnRec
  BY GoodIsConn
<1>2. /\ c.write_rem \in 0 .. MaxSend /\ c.room \in 0 .. SndBuf
      /\ n <= c.write_rem /\ n <= c.room
  BY <1>1, Members, SizeAssumption DEF Smaller
<1>3. c.write_rem - n \in 0 .. MaxSend /\ c.room - n \in 0 .. SndBuf
  BY <1>2, SizeAssumption DEF Smaller
<1>4. moved \in Good(1, sk)
  BY <1>3, SetRoom, Zenon
<1>5. armed.write_rem = c.write_rem
  BY <1>1 DEF ArmWriteTimeout, TwReschedule, ConnRec
<1> HIDE DEF moved
<1>6. armed \in Good(1, sk)
  BY <1>4, DeadlineOpsGood
<1> HIDE DEF armed
<1>7. w \in Good(1, sk)
  BY <1>3, <1>5, <1>6, SetWriteRem
<1> HIDE DEF w
<1>8. \A d \in Close(ClearWriteTimeout(armed)) : d \in Good(1, sk)
  BY <1>6, DeadlineOpsGood, CloseGood DEF Close
<1>9. \A d \in WritePostRemaining(w, TRUE) : d \in Good(1, sk)
  BY <1>7, WritePostRemainingGood, Zenon
<1>10. \A x \in CancelWritePoll(w) : x \in Good(1, sk)
  BY <1>7, CancelWritePollGood
<1>11. \A x \in CancelWritePoll(w) :
         /\ \A d \in ShutWrAndRead(x) : d \in Good(1, sk)
         /\ \A d \in SendfileProgress(TxDiscard(x), drain) : d \in Good(1, sk)
         /\ \A d \in WriteOnFullResponse(x, drain) : d \in Good(1, sk)
  BY <1>10, ShutWrAndReadGood, TxDiscardGood, SendfileProgressGood, WriteOnFullResponseGood
<1> QED
  BY <1>8, <1>9, <1>11, Zenon DEF WriteAdvance, moved, armed, w

LEMMA WriteHandleCqeGood ==
  ASSUME NEW sk, NEW c \in Good(1, sk), NEW drain \in BOOLEAN, NEW res
  PROVE  \A d \in WriteHandleCqe(c, drain, res) : d \in Good(1, sk)
<1>1. \A d \in Close(ClearWriteTimeout(c)) : d \in Good(1, sk)
  BY DeadlineOpsGood, CloseGood, Zenon DEF Close
<1> QED
  BY <1>1, WriteAdvanceGood, WriteArmPolloutGood DEF WriteHandleCqe

LEMMA WriteReadyHandleCqeGood ==
  ASSUME NEW sk, NEW c \in Good(1, sk), NEW drain \in BOOLEAN
  PROVE  \A d \in WriteReadyHandleCqe(c, drain) : d \in Good(1, sk)
<1> DEFINE p == [c EXCEPT !.write_poll_armed = FALSE]
<1>1. p \in Good(1, sk)
  BY SetPollArmed, Zenon
<1> HIDE DEF p
<1> QED
  BY <1>1, SendfileProgressGood, WritePostRemainingGood, Zenon DEF WriteReadyHandleCqe, p

-----------------------------------------------------------------------------
\* Deadlines and the accept path: no completion, so no reference is held.

LEMMA KeptInStore ==
  \A c \in ConnRec :
    /\ \A v : [c EXCEPT !.deadline_active = v].key = c.key
    /\ \A v : [c EXCEPT !.closing = v].key = c.key
    /\ PrepareCloseAfterSend(c).key = c.key
  BY DEF ConnRec, PrepareCloseAfterSend, TwCancel

LEMMA ExpireGood ==
  ASSUME NEW sk, NEW c \in Good(0, sk), c.deadline_active
  PROVE  \A d \in Expire(c) : d \in Good(0, sk)
<1> DEFINE x == [c EXCEPT !.deadline_active = FALSE]
           t == TxBeginHeaders(x, "OTHER", FALSE, FALSE)
           u == [t EXCEPT !.closing = TRUE]
<1>1. c \in ConnRec /\ c.key # NoFd /\ c.fd \in FdOrNone
  BY Members DEF Good, Balance
<1>2. x \in Good(0, sk) /\ x.key # NoFd
  <2>1. c.deadline_kind \in DeadlineKind
    BY <1>1 DEF ConnRec
  <2>2. [c EXCEPT !.deadline_kind = c.deadline_kind, !.deadline_active = FALSE] \in Good(0, sk)
    BY <2>1, SetDeadline, Zenon
  <2>3. x = [c EXCEPT !.deadline_kind = c.deadline_kind, !.deadline_active = FALSE]
    BY <1>1, Zenon DEF ConnRec
  <2> QED
    BY <1>1, <2>2, <2>3, KeptInStore
<1> HIDE DEF x
<1>3. t \in Good(0, sk) /\ t.key # NoFd
  <2>1. "OTHER" \in RespKind
    BY DEF RespKind
  <2>2. t \in Good(0, sk)
    BY <1>2, <2>1, TxBeginHeadersGood, Zenon
  <2>3. t.key = x.key
    BY <1>2, GoodIsConn DEF t, TxBeginHeaders, ConnRec
  <2> QED
    BY <1>2, <2>2, <2>3
<1> HIDE DEF t
<1>4. u \in Good(0, sk) /\ u.key # NoFd
  BY <1>3, SetClosing, KeptInStore, GoodIsConn
<1> HIDE DEF u
<1>5. TwReschedule(PostSend(u, c.fd)) \in Good(0, sk)
  BY <1>1, <1>4, PostSendGood, TwRescheduleGood
<1>6. \A abortive \in BOOLEAN : \A d \in ScheduleOrSyncClose(x, abortive) : d \in Good(0, sk)
  BY <1>2, CloseGood
<1>7. \A d \in Close(x) : d \in Good(0, sk)
  BY <1>6, Zenon DEF Close
<1> QED
  BY <1>5, <1>6, <1>7 DEF Expire, x, t, u

LEMMA ConnInitGood ==
  ASSUME NEW f \in Fds
  PROVE  ConnInit(f) \in Good(0, f) /\ ConnInit(f).key # NoFd
<1> DEFINE b == [Blank EXCEPT !.live = TRUE, !.refcnt = 1, !.fd = f, !.key = f,
                              !.sock = f, !.room = SndBuf, !.counted = 1]
<1>1. f \in FdOrNone /\ f # NoFd /\ SndBuf \in 0 .. SndBuf
  BY FdsAssumption, SizeAssumption DEF FdOrNone, NoFd
<1>2. b \in ConnRec
  <2>1. [Blank EXCEPT !.live = TRUE, !.refcnt = 1, !.fd = f, !.key = f, !.sock = f] \in ConnRec
    BY <1>1, BlankType, PutMembers, Zenon
  <2>2. \A c \in ConnRec, v \in 0 .. SndBuf : [c EXCEPT !.room = v] \in ConnRec
    BY DEF ConnRec
  <2>3. [Blank EXCEPT !.live = TRUE, !.refcnt = 1, !.fd = f, !.key = f, !.sock = f,
                      !.room = SndBuf] \in ConnRec
    BY <1>1, <2>1, <2>2
  <2>4. 1 \in Int
    OBVIOUS
  <2> QED
    BY <2>3, <2>4, PutMembers
<1>3. /\ b.refcnt = 1 /\ b.rd = 0 /\ b.wr = 0 /\ b.pl = 0 /\ b.cl = 0
      /\ b.key = f /\ b.fd = f /\ b.sock = f /\ b.counted = 1
      /\ b.live = TRUE /\ b.deadline_active = FALSE
  BY DEF Blank
<1> HIDE DEF b
<1>4. b \in Good(0, f)
  BY <1>1, <1>2, <1>3 DEF Good, Balance, Owner
<1>5. TwReschedule(b).key = f
  BY <1>2, <1>3 DEF TwReschedule, ConnRec
<1> QED
  BY <1>1, <1>4, <1>5, TwRescheduleGood DEF ConnInit, b

LEMMA AcceptSuccessGood ==
  ASSUME NEW f \in Fds
  PROVE  \A d \in AcceptSuccess(f) : d \in Good(0, f)
<1> DEFINE c == ConnInit(f)
<1>1. c \in Good(0, f) /\ c.key # NoFd
  BY ConnInitGood
<1> HIDE DEF c
<1>2. \A d \in Close(c) : d \in Good(0, f)
  BY <1>1, CloseGood, Zenon DEF Close
<1>3. \A x \in PostRecvPtr(c) : x \in Good(0, f)
  BY <1>1, PostRecvPtrGood
<1>4. \A x \in PostRecvPtr(c) : x.key # NoFd
  <2>1. [c EXCEPT !.refcnt = @ + 1, !.rd = @ + 1, !.recv_armed = TRUE].key = c.key
    BY <1>1, GoodIsConn DEF ConnRec
  <2> QED
    BY <1>1, <2>1 DEF PostRecvPtr
<1>5. ASSUME NEW x \in PostRecvPtr(c) PROVE \A d \in Overload503(x) : d \in Good(0, f)
  <2> DEFINE t == TxBeginHeaders(x, "503", FALSE, FALSE)
             u == PrepareCloseAfterSend(t)
  <2>1. "503" \in RespKind
    BY DEF RespKind
  <2>2. t \in Good(0, f) /\ t.key # NoFd
    <3>1. t \in Good(0, f)
      BY <1>3, <2>1, TxBeginHeadersGood
    <3>2. t.key = x.key
      BY <1>3, GoodIsConn DEF t, TxBeginHeaders, ConnRec
    <3> QED
      BY <1>4, <3>1, <3>2
  <2> HIDE DEF t
  <2>3. u \in Good(0, f) /\ u.key # NoFd
    BY <2>2, DeadlineOpsGood, KeptInStore, GoodIsConn
  <2> HIDE DEF u
  <2>4. x.fd \in FdOrNone
    BY <1>3, GoodIsConn, Members
  <2>5. PostSend(u, x.fd) \in Good(0, f)
    BY <2>3, <2>4, PostSendGood
  <2>6. \A d \in Close(x) : d \in Good(0, f)
    BY <1>3, CloseGood, Zenon DEF Close
  <2> QED
    BY <2>5, <2>6, Zenon DEF Overload503, t, u
<1> QED
  BY <1>2, <1>3, <1>5 DEF AcceptSuccess, c

-----------------------------------------------------------------------------
\* The worker.

\* A completion arrives: the operation is over and its handler holds the
\* operation's reference.
LEMMA Arrived ==
  ASSUME NEW sk, NEW c \in Good(0, sk), NEW d \in ConnRec,
         d.refcnt = c.refcnt, d.live = c.live, d.key = c.key, d.fd = c.fd,
         d.sock = c.sock, d.counted = c.counted,
         d.deadline_active = c.deadline_active, d.cl <= c.cl, 
         d.key # NoFd \/ d.sock # NoFd => d.cl = c.cl,
         d.rd + d.wr + d.pl + d.cl + 1 = c.rd + c.wr + c.pl + c.cl
  PROVE  d \in Good(1, sk)
<1>1. c \in ConnRec /\ Balance(c, 0) /\ c.sock \in {sk, NoFd}
  BY DEF Good
<1>2. d.refcnt = Owner(d) + d.rd + d.wr + d.pl + d.cl + 1
  BY <1>1, Members DEF Balance, Owner
<1>3. d.cl <= 1
  BY <1>1, Members DEF Balance
<1>4. d.live <=> d.refcnt > 0
  BY <1>1 DEF Balance
<1>5. d.deadline_active => d.key # NoFd
  BY <1>1 DEF Balance
<1> QED
  BY <1>1, <1>2, <1>3, <1>4, <1>5 DEF Good, Balance, Owner

LEMMA ReadArrived ==
  ASSUME NEW sk, NEW c \in Good(0, sk), c.rd > 0
  PROVE  [c EXCEPT !.rd = @ - 1] \in Good(1, sk)
<1> DEFINE d == [c EXCEPT !.rd = @ - 1]
<1>1. c \in ConnRec /\ c.rd - 1 \in Nat
  BY GoodIsConn, Members
<1>2. d \in ConnRec
  BY <1>1, PutMembers
<1>3. /\ d.refcnt = c.refcnt /\ d.rd = c.rd - 1 /\ d.wr = c.wr /\ d.pl = c.pl
      /\ d.cl = c.cl /\ d.key = c.key /\ d.fd = c.fd /\ d.sock = c.sock
      /\ d.counted = c.counted /\ d.live = c.live
      /\ d.deadline_active = c.deadline_active
  BY <1>1 DEF ConnRec
<1> HIDE DEF d
<1>4. d.cl <= c.cl /\ d.rd + d.wr + d.pl + d.cl + 1 = c.rd + c.wr + c.pl + c.cl
  BY <1>1, <1>3, Members
<1>5. d \in Good(1, sk)
  BY <1>2, <1>3, <1>4, Arrived
<1> QED
  BY <1>5 DEF d

LEMMA WriteArrived ==
  ASSUME NEW sk, NEW c \in Good(0, sk), c.wr > 0
  PROVE  [c EXCEPT !.wr = @ - 1] \in Good(1, sk)
<1> DEFINE d == [c EXCEPT !.wr = @ - 1]
<1>1. c \in ConnRec /\ c.wr - 1 \in Nat
  BY GoodIsConn, Members
<1>2. d \in ConnRec
  BY <1>1, PutMembers
<1>3. /\ d.refcnt = c.refcnt /\ d.rd = c.rd /\ d.wr = c.wr - 1 /\ d.pl = c.pl
      /\ d.cl = c.cl /\ d.key = c.key /\ d.fd = c.fd /\ d.sock = c.sock
      /\ d.counted = c.counted /\ d.live = c.live
      /\ d.deadline_active = c.deadline_active
  BY <1>1 DEF ConnRec
<1> HIDE DEF d
<1>4. d.cl <= c.cl /\ d.rd + d.wr + d.pl + d.cl + 1 = c.rd + c.wr + c.pl + c.cl
  BY <1>1, <1>3, Members
<1>5. d \in Good(1, sk)
  BY <1>2, <1>3, <1>4, Arrived
<1> QED
  BY <1>5 DEF d

LEMMA PollArrived ==
  ASSUME NEW sk, NEW c \in Good(0, sk), c.pl > 0
  PROVE  [c EXCEPT !.pl = @ - 1] \in Good(1, sk)
<1> DEFINE d == [c EXCEPT !.pl = @ - 1]
<1>1. c \in ConnRec /\ c.pl - 1 \in Nat
  BY GoodIsConn, Members
<1>2. d \in ConnRec
  BY <1>1, PutMembers
<1>3. /\ d.refcnt = c.refcnt /\ d.rd = c.rd /\ d.wr = c.wr /\ d.pl = c.pl - 1
      /\ d.cl = c.cl /\ d.key = c.key /\ d.fd = c.fd /\ d.sock = c.sock
      /\ d.counted = c.counted /\ d.live = c.live
      /\ d.deadline_active = c.deadline_active
  BY <1>1 DEF ConnRec
<1> HIDE DEF d
<1>4. d.cl <= c.cl /\ d.rd + d.wr + d.pl + d.cl + 1 = c.rd + c.wr + c.pl + c.cl
  BY <1>1, <1>3, Members
<1>5. d \in Good(1, sk)
  BY <1>2, <1>3, <1>4, Arrived
<1> QED
  BY <1>5 DEF d

LEMMA CloseArrived ==
  ASSUME NEW sk, NEW c \in Good(0, sk), c.cl > 0, c.sock = NoFd
  PROVE  [c EXCEPT !.cl = @ - 1, !.fd = NoFd] \in Good(1, sk)
<1> DEFINE d == [c EXCEPT !.cl = @ - 1, !.fd = NoFd]
<1>1. c \in ConnRec /\ c.cl - 1 \in Nat /\ NoFd \in FdOrNone
  BY GoodIsConn, Members DEF FdOrNone
<1>2. c.fd = NoFd /\ c.key = NoFd
  BY <1>1, Members DEF Good, Balance
<1>3. d \in ConnRec
  BY <1>1, PutMembers, Zenon
<1>4. /\ d.refcnt = c.refcnt /\ d.rd = c.rd /\ d.wr = c.wr /\ d.pl = c.pl
      /\ d.cl = c.cl - 1 /\ d.key = c.key /\ d.fd = NoFd /\ d.sock = c.sock
      /\ d.counted = c.counted /\ d.live = c.live
      /\ d.deadline_active = c.deadline_active
  BY <1>1 DEF ConnRec
<1> HIDE DEF d
<1>5. d.cl <= c.cl /\ d.rd + d.wr + d.pl + d.cl + 1 = c.rd + c.wr + c.pl + c.cl
  BY <1>1, <1>4, Members
<1>6. d \in Good(1, sk)
  BY <1>2, <1>3, <1>4, <1>5, Arrived
<1> QED
  BY <1>6 DEF d

-----------------------------------------------------------------------------
\* The inductive invariant: every structure is good with no reference held,
\* and an open socket is in one structure only and not among the lost ones.
SocketsApart ==
  \A s \in Slots : conn[s].sock # NoFd =>
    /\ conn[s].sock \notin lost
    /\ \A t \in Slots \ {s} : conn[t].sock # conn[s].sock

WorkerInv ==
  /\ TypeOK
  /\ \A s \in Slots : conn[s] \in Good(0, conn[s].sock)
  /\ SocketsApart

\* One structure changes, and its socket stays, closes or is a fresh one.
LEMMA OneChanges ==
  ASSUME WorkerInv, NEW s \in Slots, NEW sk \in {conn[s].sock} \cup FreeFds,
         NEW d \in Good(0, sk), conn' = [conn EXCEPT ![s] = d],
         UNCHANGED <<is_draining, lost>>
  PROVE  WorkerInv'
<1>1. d \in ConnRec /\ d.sock \in {sk, NoFd}
  BY DEF Good
<1>2. TypeOK'
  BY <1>1 DEF WorkerInv, TypeOK
<1>3. \A t \in Slots : conn'[t] = IF t = s THEN d ELSE conn[t]
  BY DEF WorkerInv, TypeOK
<1>4. \A t \in Slots : conn'[t] \in Good(0, conn'[t].sock)
  <2>1. d \in Good(0, d.sock)
    BY DEF Good
  <2> QED
    BY <1>3, <2>1 DEF WorkerInv
<1>5. d.sock # NoFd => d.sock \notin lost /\ \A t \in Slots \ {s} : conn[t].sock # d.sock
  BY <1>1 DEF WorkerInv, SocketsApart, FreeFds
<1>6. SocketsApart'
  BY <1>3, <1>5 DEF WorkerInv, SocketsApart
<1> QED
  BY <1>2, <1>4, <1>6 DEF WorkerInv

LEMMA HandledKeeps ==
  ASSUME WorkerInv, NEW s \in Slots, NEW outcomes,
         \A c \in outcomes : c \in Good(1, conn[s].sock),
         Handled(s, outcomes), UNCHANGED <<is_draining, lost>>
  PROVE  WorkerInv'
<1>1. PICK c \in outcomes : conn' = [conn EXCEPT ![s] = ConnPut(c)]
  BY DEF Handled
<1>2. c \in Good(0 + 1, conn[s].sock)
  OBVIOUS
<1>3. ConnPut(c) \in Good(0, conn[s].sock)
  BY <1>2, ConnPutGood
<1> QED
  BY <1>1, <1>3, OneChanges, Zenon

LEMMA InitKeeps == Init => WorkerInv
<1> SUFFICES ASSUME Init PROVE WorkerInv
  OBVIOUS
<1>1. Blank \in Good(0, NoFd) /\ Blank.sock = NoFd
  BY BlankType DEF Blank, Good, Balance, Owner
<1>2. \A s \in Slots : conn[s] = Blank
  BY DEF Init
<1>3. TypeOK
  BY BlankType, Zenon DEF Init, TypeOK
<1> QED
  BY <1>1, <1>2, <1>3 DEF WorkerInv, SocketsApart

LEMMA NextKeeps == WorkerInv /\ [Next]_vars => WorkerInv'
<1> SUFFICES ASSUME WorkerInv, [Next]_vars PROVE WorkerInv'
  OBVIOUS
<1> DEFINE sk(s) == conn[s].sock
<1>0. \A s \in Slots : conn[s] \in Good(0, sk(s))
  BY DEF WorkerInv
<1>00. is_draining \in BOOLEAN
  BY DEF WorkerInv, TypeOK
<1>1. CASE AcceptFails
  <2>1. PICK f \in FreeFds : lost' = lost \cup {f}
    BY <1>1 DEF AcceptFails
  <2>2. conn' = conn /\ is_draining' = is_draining
    BY <1>1 DEF AcceptFails
  <2>3. TypeOK'
    BY <2>1, <2>2 DEF WorkerInv, TypeOK, FreeFds
  <2>4. SocketsApart'
    BY <2>1, <2>2 DEF WorkerInv, SocketsApart, FreeFds
  <2> QED
    BY <2>2, <2>3, <2>4 DEF WorkerInv
<1>2. CASE EnterDrain
  BY <1>2 DEF EnterDrain, WorkerInv, TypeOK, SocketsApart
<1>3. ASSUME NEW s \in Slots, Accept(s) PROVE WorkerInv'
  <2>0. PICK f \in FreeFds : \E c \in AcceptSuccess(f) : conn' = [conn EXCEPT ![s] = c]
    BY <1>3, Zenon DEF Accept
  <2>1. PICK c \in AcceptSuccess(f) : conn' = [conn EXCEPT ![s] = c]
    BY <2>0
  <2>2. f \in Fds
    BY DEF FreeFds
  <2>3. c \in Good(0, f)
    BY <2>2, AcceptSuccessGood
  <2> QED
    BY <1>3, <2>1, <2>3, OneChanges, Zenon DEF Accept
<1>4. ASSUME NEW s \in Slots, NEW res \in ReadResult, OpRead(s, res) PROVE WorkerInv'
  <2> DEFINE c == [conn[s] EXCEPT !.rd = @ - 1]
  <2>1. c \in Good(1, sk(s))
    BY <1>0, <1>4, ReadArrived DEF OpRead
  <2> HIDE DEF c
  <2>2. \A d \in ReadHandleCqe(c, is_draining, res) : d \in Good(1, sk(s))
    BY <1>00, <2>1, ReadHandleCqeGood
  <2>3. Handled(s, ReadHandleCqe(c, is_draining, res)) /\ UNCHANGED <<is_draining, lost>>
    BY <1>4 DEF OpRead, c
  <2> QED
    BY <2>2, <2>3, HandledKeeps
<1>5. ASSUME NEW s \in Slots, NEW res \in WriteResult, OpWrite(s, res) PROVE WorkerInv'
  <2> DEFINE c == [conn[s] EXCEPT !.wr = @ - 1]
  <2>1. c \in Good(1, sk(s))
    BY <1>0, <1>5, WriteArrived DEF OpWrite
  <2> HIDE DEF c
  <2>2. \A d \in WriteHandleCqe(c, is_draining, res) : d \in Good(1, sk(s))
    BY <1>00, <2>1, WriteHandleCqeGood
  <2>3. Handled(s, WriteHandleCqe(c, is_draining, res)) /\ UNCHANGED <<is_draining, lost>>
    BY <1>5 DEF OpWrite, c
  <2> QED
    BY <2>2, <2>3, HandledKeeps
<1>6. ASSUME NEW s \in Slots, OpWriteReady(s) PROVE WorkerInv'
  <2> DEFINE c == [conn[s] EXCEPT !.pl = @ - 1]
  <2>1. c \in Good(1, sk(s))
    BY <1>0, <1>6, PollArrived DEF OpWriteReady
  <2> HIDE DEF c
  <2>2. \A d \in WriteReadyHandleCqe(c, is_draining) : d \in Good(1, sk(s))
    BY <1>00, <2>1, WriteReadyHandleCqeGood
  <2>3. Handled(s, WriteReadyHandleCqe(c, is_draining)) /\ UNCHANGED <<is_draining, lost>>
    BY <1>6 DEF OpWriteReady, c
  <2> QED
    BY <2>2, <2>3, HandledKeeps
<1>7. ASSUME NEW s \in Slots, KernelClose(s) PROVE WorkerInv'
  <2> DEFINE c == conn[s]
             d == [c EXCEPT !.sock = NoFd]
  <2>1. c \in Good(0, sk(s)) /\ c \in ConnRec /\ c.cl > 0
    BY <1>0, <1>7, GoodIsConn DEF KernelClose
  <2>2. d \in ConnRec
    BY <2>1, PutMembers DEF FdOrNone
  <2> HIDE DEF c
  <2>3. /\ d.refcnt = c.refcnt /\ d.rd = c.rd /\ d.wr = c.wr /\ d.pl = c.pl
        /\ d.cl = c.cl /\ d.key = c.key /\ d.fd = c.fd /\ d.sock = NoFd
        /\ d.counted = c.counted /\ d.live = c.live
        /\ d.deadline_active = c.deadline_active
    BY <2>1 DEF ConnRec
  <2> HIDE DEF d
  <2>4. d.key = NoFd
    BY <2>1, <2>3, Members DEF Good, Balance
  <2>5. /\ d.live <=> d.refcnt > 0
        /\ d.deadline_active => d.key # NoFd
    BY <2>1, <2>3 DEF Good, Balance
  <2>6. d \in Good(0, sk(s))
    BY <2>1, <2>2, <2>3, <2>4, <2>5 DEF Good, Balance, Owner
  <2>7. conn' = [conn EXCEPT ![s] = d] /\ UNCHANGED <<is_draining, lost>>
    BY <1>7 DEF KernelClose, d, c
  <2> QED
    BY <2>6, <2>7, OneChanges, Zenon
<1>8. ASSUME NEW s \in Slots, OpClose(s) PROVE WorkerInv'
  <2> DEFINE d == [conn[s] EXCEPT !.cl = @ - 1, !.fd = NoFd]
  <2>1. d \in Good(1, sk(s))
    BY <1>0, <1>8, CloseArrived, Zenon DEF OpClose
  <2>2. Handled(s, {d}) /\ UNCHANGED <<is_draining, lost>>
    BY <1>8 DEF OpClose
  <2> HIDE DEF d
  <2> QED
    BY <2>1, <2>2, HandledKeeps
<1>9. ASSUME NEW s \in Slots, Tick(s) PROVE WorkerInv'
  <2>1. PICK d \in Expire(conn[s]) : conn' = [conn EXCEPT ![s] = d]
    BY <1>9, Zenon DEF Tick
  <2>2. d \in Good(0, sk(s))
    BY <1>0, <1>9, ExpireGood DEF Tick
  <2> QED
    BY <1>9, <2>1, <2>2, OneChanges, Zenon DEF Tick
<1>10. ASSUME NEW s \in Slots, PeerReads(s) PROVE WorkerInv'
  <2>1. SndBuf \in 0 .. SndBuf
    BY SizeAssumption
  <2>2. [conn[s] EXCEPT !.room = SndBuf] \in Good(0, sk(s))
    BY <1>0, <2>1, SetRoom
  <2>3. conn' = [conn EXCEPT ![s] = [conn[s] EXCEPT !.room = SndBuf]]
    BY <1>10 DEF PeerReads
  <2> QED
    BY <1>10, <2>2, <2>3, OneChanges, Zenon DEF PeerReads
<1>11. CASE UNCHANGED vars
  BY <1>11 DEF vars, WorkerInv, TypeOK, SocketsApart
<1> QED
  BY <1>1, <1>2, <1>3, <1>4, <1>5, <1>6, <1>7, <1>8, <1>9, <1>10, <1>11 DEF Next

LEMMA Invariance == Spec => []WorkerInv
  BY InitKeeps, NextKeeps, PTL DEF Spec

\* Every structure of a worker is well formed at all times: no counter
\* (refcnt, operations in flight, send-buffer room, stash length, response
\* bytes) ever leaves its range.
THEOREM TypeCorrect == Spec => []TypeOK
<1>1. WorkerInv => TypeOK
  BY DEF WorkerInv
<1> QED
  BY <1>1, Invariance, PTL

\* The reference count of a connection is exact, so conn_put recycles it when
\* and only when neither the store nor any operation refers to it.
THEOREM ReferencesExact == Spec => []RefExact
<1>1. WorkerInv => RefExact
  <2> SUFFICES ASSUME WorkerInv, NEW s \in Slots
               PROVE  LET c == conn[s] IN
                        /\ c.refcnt = Owner(c) + c.rd + c.wr + c.pl + c.cl
                        /\ c.live <=> c.refcnt > 0
    BY DEF RefExact
  <2> DEFINE c == conn[s]
  <2>1. c \in ConnRec /\ Balance(c, 0)
    BY DEF WorkerInv, Good
  <2> HIDE DEF c
  <2>2. c.refcnt = Owner(c) + c.rd + c.wr + c.pl + c.cl
    BY <2>1, Members DEF Balance, Owner
  <2>3. c.live <=> c.refcnt > 0
    BY <2>1 DEF Balance
  <2> QED
    BY <2>2, <2>3 DEF c
<1> QED
  BY <1>1, Invariance, PTL

\* An open descriptor has one owner, which schedule_or_sync_close can reach
\* or has already handed to the kernel's close.
THEOREM DescriptorsOwned == Spec => []DescriptorOwnership
<1>1. WorkerInv => DescriptorOwnership
  BY DEF WorkerInv, SocketsApart, Good, Balance, DescriptorOwnership
<1> QED
  BY <1>1, Invariance, PTL

\* tw_process_tick only ever meets connections that are in the store.
THEOREM WheelSound == Spec => []WheelHoldsOpen
<1>1. WorkerInv => WheelHoldsOpen
  BY DEF WorkerInv, Good, Balance, WheelHoldsOpen
<1> QED
  BY <1>1, Invariance, PTL

\* active_conns is incremented and decremented once per connection.
THEOREM ActiveCounted == Spec => []ActiveCountExact
<1>1. WorkerInv => ActiveCountExact
  BY DEF WorkerInv, Good, Balance, ActiveCountExact
<1> QED
  BY <1>1, Invariance, PTL
=============================================================================
