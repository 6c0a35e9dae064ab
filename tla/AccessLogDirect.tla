-------------------------- MODULE AccessLogDirect --------------------------
(***************************************************************************)
(* The access log in its default mode: every worker formats its lines into *)
(* a ring (access_log_direct_state) and writes them itself when there are  *)
(* enough of them, when the first one is old, or at shutdown.              *)
(*                                                                         *)
(* A worker whose number is not below the number of rings uses the first   *)
(* ring.  There are as many rings as the configuration file says workers;  *)
(* when it does not say, there is one ring and there are two workers.      *)
(* Nothing protects a ring: storing a line and counting it are two steps.  *)
(***************************************************************************)
EXTENDS Naturals, Sequences, FiniteSetsExt

CONSTANTS
  NumWorkers,
  NumRings,     \* g_access_log_direct_state_count
  Cap,          \* ACCESS_LOG_SW_RING_CAP
  FlushLines,   \* ACCESS_LOG_SW_FLUSH_LINES
  MaxLines,     \* the lines that a worker offers
  MayFail       \* formatting and writing may fail

ConstantsOK ==
  /\ NumWorkers \in Nat \ {0} /\ NumRings \in Nat \ {0} /\ NumRings <= NumWorkers
  /\ FlushLines \in Nat \ {0} /\ Cap \in Nat /\ Cap > FlushLines
  /\ MaxLines \in Nat /\ MayFail \in BOOLEAN

Workers == 1 .. NumWorkers
Rings == 1 .. NumRings
RingOf(w) == IF w > NumRings THEN 1 ELSE w

NoLine == <<0, 0>>
Lines == Workers \X (1 .. MaxLines)

VARIABLES
  st,        \* [Rings -> access_log_direct_state]
  filling,   \* the place in the ring that a worker has filled and not counted, or Cap
  offered,   \* how many lines each worker has offered
  written,   \* the lines in the file
  dropped,   \* the lines that were counted as dropped
  phase      \* "running", "stopping", "ended": the process

vars == <<st, filling, offered, written, dropped, phase>>

\* first_pending_ts_ms is "none" (zero), "young", or "old" once
\* ACCESS_LOG_SW_FLUSH_MAX_AGE_MS have passed.
NewRing == [slots |-> [p \in 0 .. Cap - 1 |-> NoLine], head |-> 0, tail |-> 0, count |-> 0,
            first |-> "none"]

Init ==
  /\ st = [r \in Rings |-> NewRing]
  /\ filling = [w \in Workers |-> Cap]
  /\ offered = [w \in Workers |-> 0]
  /\ written = <<>>
  /\ dropped = {}
  /\ phase = "running"

Pending(s) == [k \in 1 .. s.count |-> s.slots[(s.tail + k - 1) % Cap]]

\* access_log_direct_flush_state: the lines leave the ring, whether or not they
\* can be written.
FlushedTailLags(s) ==
  [s EXCEPT !.tail = (@ + Min({s.count, FlushLines - 1})) % Cap, !.count = 0, !.first = "none"]
Flushed(s) == [s EXCEPT !.tail = (@ + s.count) % Cap, !.count = 0, !.first = "none"]
WriteLines(lines) ==
  \/ /\ written' = written \o lines
     /\ UNCHANGED dropped
  \/ /\ MayFail
     /\ dropped' = dropped \cup Range(lines)
     /\ UNCHANGED written
access_log_direct_flush_state(r, s) ==
  IF s.count = 0 THEN st' = [st EXCEPT ![r] = s] /\ UNCHANGED <<written, dropped>>
  ELSE st' = [st EXCEPT ![r] = Flushed(s)] /\ WriteLines(Pending(s))

\* access_log_direct_append, up to the line in its slot; a full ring is flushed
\* first.
StoreLine(w, r) ==
  LET line == <<w, offered[w] + 1>>
  IN  /\ offered' = [offered EXCEPT ![w] = @ + 1]
      /\ \/ /\ st' = [st EXCEPT ![r].slots[st[r].head] = line]
            /\ filling' = [filling EXCEPT ![w] = st[r].head]
            /\ UNCHANGED dropped
         \/ /\ MayFail
            /\ dropped' = dropped \cup {line}
            /\ UNCHANGED <<st, filling>>
      /\ UNCHANGED written
FillSlot(w) ==
  /\ phase = "running" /\ filling[w] = Cap /\ offered[w] < MaxLines
  /\ LET r == RingOf(w)
     IN  IF st[r].count >= Cap
         THEN access_log_direct_flush_state(r, st[r]) /\ UNCHANGED <<filling, offered>>
         ELSE StoreLine(w, r)
  /\ UNCHANGED phase

\* The rest of access_log_direct_append.  ACCESS_LOG_SW_FLUSH_BYTES may be
\* reached at any line.
Counted(s) == [s EXCEPT !.head = (@ + 1) % Cap, !.count = @ + 1,
                        !.first = IF @ = "none" THEN "young" ELSE @]
FlushDue(s) == s.count >= FlushLines \/ s.first = "old"
CountLine(w) ==
  LET r == RingOf(w)
      s == Counted(st[r])
  IN  /\ filling[w] # Cap
      /\ filling' = [filling EXCEPT ![w] = Cap]
      /\ \/ access_log_direct_flush_state(r, s)
         \/ ~FlushDue(s) /\ st' = [st EXCEPT ![r] = s] /\ UNCHANGED <<written, dropped>>
      /\ UNCHANGED <<offered, phase>>

\* The time passes.
Elapse(r) ==
  /\ st[r].first = "young"
  /\ st' = [st EXCEPT ![r].first = "old"]
  /\ UNCHANGED <<filling, offered, written, dropped, phase>>

\* access_log_runtime_poll, from the worker's loop.
access_log_direct_maybe_flush_shard(w) ==
  LET r == RingOf(w)
  IN  /\ phase = "running" /\ filling[w] = Cap
      /\ st[r].count > 0 /\ st[r].first = "old"
      /\ access_log_direct_flush_state(r, st[r])
      /\ UNCHANGED <<filling, offered, phase>>

\* The workers have ended.
Stop ==
  /\ phase = "running" /\ \A w \in Workers : filling[w] = Cap
  /\ phase' = "stopping"
  /\ UNCHANGED <<st, filling, offered, written, dropped>>

\* access_log_direct_flush_all, ring by ring, and the end of the process.
FlushRing(r) ==
  /\ phase = "stopping" /\ st[r].count > 0 /\ \A q \in 1 .. r - 1 : st[q].count = 0
  /\ access_log_direct_flush_state(r, st[r])
  /\ UNCHANGED <<filling, offered, phase>>
Ends == phase = "stopping" /\ \A r \in Rings : st[r].count = 0
End ==
  /\ Ends
  /\ phase' = "ended"
  /\ UNCHANGED <<st, filling, offered, written, dropped>>

Poll == \E w \in Workers : access_log_direct_maybe_flush_shard(w)
Next ==
  \/ \E w \in Workers : FillSlot(w) \/ CountLine(w)
  \/ Poll \/ Stop \/ End
  \/ \E r \in Rings : Elapse(r) \/ FlushRing(r)
Spec == Init /\ [][Next]_vars

-----------------------------------------------------------------------------
TypeOK ==
  /\ \A r \in Rings :
       /\ st[r].slots \in [0 .. Cap - 1 -> Lines \cup {NoLine}]
       /\ st[r].head \in 0 .. Cap - 1 /\ st[r].tail \in 0 .. Cap - 1 /\ st[r].count \in 0 .. Cap
       /\ st[r].first \in {"none", "young", "old"}
  /\ filling \in [Workers -> 0 .. Cap]
  /\ offered \in [Workers -> 0 .. MaxLines]
  /\ dropped \subseteq Lines
  /\ phase \in {"running", "stopping", "ended"}

AllPending == UNION {Range(Pending(st[r])) : r \in Rings}
CountedLines == {l \in Lines : l[2] <= offered[l[1]] /\ ~(l[2] = offered[l[1]] /\ filling[l[1]] # Cap)}

\* Every line that a worker has finished is in the file, waits in a ring or
\* was counted as dropped; the file has no line twice and those of a worker in
\* their order (access_log_direct_append and access_log_direct_flush_state).
NoLineLost ==
  /\ CountedLines = Range(written) \cup AllPending \cup dropped
  /\ \A j, k \in DOMAIN written :
       j < k /\ written[j][1] = written[k][1] => written[j][2] < written[k][2]

\* Lines do not wait for ever, however few come (the age limit that
\* access_log_runtime_poll tests).
LinesAreFlushed == \A r \in Rings : st[r].count > 0 ~> st[r].count = 0

=============================================================================
