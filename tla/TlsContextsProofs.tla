------------------------- MODULE TlsContextsProofs -------------------------
(***************************************************************************)
(* A worker never uses a context the main thread has freed, for any number *)
(* of virtual hosts, connections, contexts and reloads.                    *)
(*                                                                         *)
(* ContextAlive is not inductive: that the context a worker has read is    *)
(* still owned follows from where the main thread is.  While a connection  *)
(* is being made the lock keeps handle as it was read, what a handle names *)
(* is owned, and what the main thread frees is never in a handle, since no *)
(* context is named twice.                                                 *)
(*                                                                         *)
(* ReloadExact holds between reloads only; the second half says what is    *)
(* registered, kept and made at each place of the main thread.             *)
(***************************************************************************)
EXTENDS TlsContexts, WellFoundedInduction, FiniteSetTheorems, TLAPS

\* The workers run.
Running == reload.at \notin {"init", "exit", "ended"}

\* What a handle or the array of a reload names is owned, and named once.
NamedOnce ==
  \A u, v \in Vhosts :
    /\ handle[u] # NULL =>
         /\ Owner \in holders[handle[u]]
         /\ u # v => handle[u] # handle[v]
         /\ handle[u] # new_ctx[v]
    /\ new_ctx[u] # NULL =>
         /\ Owner \in holders[new_ctx[u]]
         /\ u # v => new_ctx[u] # new_ctx[v]

\* How far the main thread has come.
Progress ==
  /\ Running => \A v \in Vhosts : handle[v] # NULL
  /\ reload.at = "init" => \A v \in Vhosts : v < reload.i => handle[v] # NULL
  /\ reload.at = "build" => \A v \in Vhosts : v < reload.i => new_ctx[v] # NULL
  /\ reload.at = "wrlock" => \A v \in Vhosts : new_ctx[v] # NULL
  /\ reload.at = "swap" => writer /\ \A v \in Vhosts : v >= reload.i => new_ctx[v] # NULL

\* What a connection has read.
Reading ==
  \A c \in Conns :
    /\ ssl[c].at = "locked" =>
         /\ Running /\ reload.at # "swap"
         /\ ssl[c].vhost \in Vhosts /\ ssl[c].seen = handle[ssl[c].vhost]
    /\ ssl[c].at = "found" => ssl[c].seen \in Contexts
    /\ ssl[c].at \in {"hello", "found", "done"} =>
         ssl[c].ctx \in Contexts /\ c \in holders[ssl[c].ctx]

IInv == TypeOK /\ NamedOnce /\ Progress /\ Reading

-----------------------------------------------------------------------------
LEMMA MinIsIn ==
  \A S \in SUBSET Nat : S # {} => Min(S) \in S
<1> SUFFICES ASSUME NEW S \in SUBSET Nat, S # {} PROVE Min(S) \in S
  OBVIOUS
<1> DEFINE R == {p \in Nat \X Nat : p[1] < p[2]}
<1>1. R = OpToRel(<, Nat)
  BY DEF OpToRel
<1>2. IsWellFoundedOn(R, Nat)
  BY <1>1, NatLessThanWellFounded
<1> HIDE DEF R
<1>3. PICK x \in S : \A y \in S : ~(<<y, x>> \in R)
  BY <1>2, WFMin
<1>4. \A a, b \in Nat : a < b => <<a, b>> \in R
  BY DEF R
<1>5. ASSUME NEW y \in S PROVE x <= y
  <2>1. x \in Nat /\ y \in Nat
    OBVIOUS
  <2>2. ~(y < x)
    <3>1. ~(<<y, x>> \in R)
      BY <1>3
    <3> QED BY <3>1, <2>1, <1>4, Zenon
  <2> QED BY <2>1, <2>2
<1> QED BY <1>5, Zenon DEF Min

\* What a search in the registry returns.
LEMMA FindIsTyped ==
  ASSUME TypeOK, NEW name, NEW port
  PROVE  Find(name, port) \in Contexts \union {NULL}
<1> DEFINE I == {j \in 1 .. Len(registry) :
                   registry[j].name = name /\ Port[registry[j].name] = port}
           i == IF I # {} THEN Min(I) ELSE 0
<1>1. Find(name, port) = IF i = 0 THEN NULL ELSE registry[i].ctx
  BY DEF Find, FirstOf
<1>2. I \in SUBSET Nat /\ I \subseteq 1 .. Len(registry)
  BY DEF TypeOK
<1>3. i # 0 => i \in 1 .. Len(registry)
  BY <1>2, MinIsIn, Zenon
<1> HIDE DEF i
<1>4. registry \in Seq(Entry)
  BY DEF TypeOK
<1>5. i # 0 => registry[i] \in Entry
  BY <1>3, <1>4
<1>6. i # 0 => registry[i].ctx \in Contexts
  BY <1>5 DEF Entry
<1> QED BY <1>1, <1>6

LEMMA UnregisteredIsTyped ==
  ASSUME TypeOK, NEW x
  PROVE  Unregistered(x) \in Seq(Entry)
<1> DEFINE I == {j \in 1 .. Len(registry) : registry[j].ctx = x}
           i == IF I # {} THEN Min(I) ELSE 0
<1>1. Unregistered(x) = IF i = 0 THEN registry
                        ELSE SubSeq([registry EXCEPT ![i] = registry[Len(registry)]],
                                    1, Len(registry) - 1)
  BY DEF Unregistered, FirstOf
<1>2. I \in SUBSET Nat /\ I \subseteq 1 .. Len(registry)
  BY DEF TypeOK
<1>3. i # 0 => i \in 1 .. Len(registry)
  BY <1>2, MinIsIn, Zenon
<1> HIDE DEF i
<1>4. registry \in Seq(Entry)
  BY DEF TypeOK
<1>5. CASE i = 0
  BY <1>1, <1>4, <1>5
<1>6. CASE i # 0
  <2> DEFINE n == Len(registry)
             r == [registry EXCEPT ![i] = registry[n]]
  <2>1. n \in Nat /\ n > 0 /\ registry[n] \in Entry
    BY <1>3, <1>4, <1>6
  <2>2. r \in Seq(Entry) /\ Len(r) = n
    BY <1>3, <1>4, <1>6, <2>1
  <2> HIDE DEF r, n
  <2>3. SubSeq(r, 1, n - 1) \in Seq(Entry)
    BY <2>1, <2>2
  <2> QED BY <1>1, <1>6, <2>3 DEF r, n
<1> QED BY <1>5, <1>6

-----------------------------------------------------------------------------
\* Freeing a context that no handle and no entry of the array names any more
\* takes the owner away from it and from no other.
LEMMA FreeKeepsTypes ==
  ASSUME TypeOK, NEW x \in Contexts \union {NULL}, Free(x)
  PROVE  /\ holders' \in [Contexts -> SUBSET (Conns \union {Owner})]
         /\ registry' \in Seq(Entry)
         /\ \A y \in Contexts : y # x => holders'[y] = holders[y]
         /\ \A y \in Contexts, c \in Conns : c \in holders[y] => c \in holders'[y]
<1>1. registry' \in Seq(Entry)
  BY UnregisteredIsTyped DEF Free, TypeOK
<1>2. holders \in [Contexts -> SUBSET (Conns \union {Owner})]
  BY DEF TypeOK
<1> QED BY <1>1, <1>2, TlsAssumption DEF Free

LEMMA StepIsTyped ==
  ASSUME TypeOK, NEW then \in {"idle", "wrlock", "free", "ended"}, Step(then)
  PROVE  /\ reload' \in [at : Place, i : Nat]
         /\ reload.i < NumVhosts => reload'.at = reload.at /\ reload'.i = reload.i + 1
         /\ ~(reload.i < NumVhosts) => reload'.at = then /\ reload'.i = 1
<1>1. reload \in [at : Place, i : Nat]
  BY DEF TypeOK
<1> QED BY <1>1, TlsAssumption DEF Step, At, Place

LEMMA BuildIsTyped ==
  ASSUME TypeOK, NEW v \in Vhosts, NEW x \in Contexts, Build(v, x)
  PROVE  /\ holders' \in [Contexts -> SUBSET (Conns \union {Owner})]
         /\ registry' \in Seq(Entry)
         /\ made' \in [Contexts -> Nat]
<1>1. [name |-> v, ctx |-> x] \in Entry
  BY DEF Entry
<1>2. registry \in Seq(Entry) /\ made \in [Contexts -> Nat] /\ version \in Nat
  BY DEF TypeOK
<1>3. holders \in [Contexts -> SUBSET (Conns \union {Owner})]
  BY DEF TypeOK
<1> QED BY <1>1, <1>2, <1>3 DEF Build

LEMMA InitHolds == Init => IInv
<1> SUFFICES ASSUME Init PROVE IInv
  OBVIOUS
<1>1. TypeOK
  <2>1. NoSsl \in SslState
    BY DEF NoSsl, SslState
  <2>2. <<>> \in Seq(Entry)
    OBVIOUS
  <2> QED BY <2>1, <2>2 DEF Init, TypeOK, At, Place
<1>2. NamedOnce
  BY DEF Init, NamedOnce
<1>3. Progress
  BY TlsAssumption DEF Init, Progress, Running, At, Vhosts
<1>4. Reading
  BY DEF Init, Reading, NoSsl
<1> QED BY <1>1, <1>2, <1>3, <1>4 DEF IInv

-----------------------------------------------------------------------------
(* The main thread *)

LEMMA InitBuildKeeps == IInv /\ InitBuild => IInv'
<1> SUFFICES ASSUME IInv, InitBuild PROVE IInv'
  OBVIOUS
<1>1. PICK x \in Contexts : Build(reload.i, x) /\ handle' = [handle EXCEPT ![reload.i] = x]
  BY DEF InitBuild
<1>2. reload.at = "init" /\ reload.i \in Vhosts /\ Step("idle")
  BY DEF InitBuild, On
<1>3. UNCHANGED <<new_ctx, writer, ssl, version>>
  BY DEF InitBuild
<1>4. TypeOK'
  BY <1>1, <1>2, <1>3, StepIsTyped, BuildIsTyped DEF IInv, TypeOK
<1>5. NamedOnce'
  BY <1>1, <1>2, <1>3, TlsAssumption DEF IInv, TypeOK, NamedOnce, Build
<1>6. Progress'
  <2>1. CASE reload.i < NumVhosts
    BY <1>1, <1>2, <1>3, <2>1, StepIsTyped, TlsAssumption
    DEF IInv, TypeOK, Progress, Running, Vhosts
  <2>2. CASE ~(reload.i < NumVhosts)
    BY <1>1, <1>2, <1>3, <2>2, StepIsTyped, TlsAssumption
    DEF IInv, TypeOK, Progress, Running, Vhosts
  <2> QED BY <2>1, <2>2
<1>7. Reading'
  BY <1>1, <1>2, <1>3 DEF IInv, TypeOK, Reading, Running, Build
<1> QED BY <1>4, <1>5, <1>6, <1>7 DEF IInv

LEMMA GotoKeeps ==
  /\ IInv /\ InitFails => IInv'
  /\ IInv /\ BeginExit => IInv'
  /\ IInv /\ Reload => IInv'
  /\ IInv /\ ReloadFails => IInv'
<1>1. ASSUME IInv, InitFails PROVE IInv'
  BY <1>1 DEF InitFails, On, IInv, TypeOK, NamedOnce, Progress, Reading, Running, At, Place
<1>2. ASSUME IInv, BeginExit PROVE IInv'
  BY <1>2 DEF BeginExit, IInv, TypeOK, NamedOnce, Progress, Reading, Running, At, Place
<1>3. ASSUME IInv, Reload PROVE IInv'
  BY <1>3 DEF Reload, IInv, TypeOK, NamedOnce, Progress, Reading, Running, At, Place, Vhosts
<1>4. ASSUME IInv, ReloadFails PROVE IInv'
  BY <1>4 DEF ReloadFails, On, IInv, TypeOK, NamedOnce, Progress, Reading, Running, At, Place
<1> QED BY <1>1, <1>2, <1>3, <1>4

LEMMA CleanupKeeps == IInv /\ Cleanup => IInv'
<1> SUFFICES ASSUME IInv, Cleanup PROVE IInv'
  OBVIOUS
<1> DEFINE x == handle[reload.i]
<1>1. /\ reload.at = "exit" /\ reload.i \in Vhosts /\ Step("ended") /\ Free(x)
      /\ handle' = [handle EXCEPT ![reload.i] = NULL]
      /\ UNCHANGED <<new_ctx, writer, ssl, made, version>>
  BY DEF Cleanup, On
<1>2. x \in Contexts \union {NULL}
  BY <1>1 DEF IInv, TypeOK
<1> HIDE DEF x
<1>3. TypeOK'
  BY <1>1, <1>2, StepIsTyped, FreeKeepsTypes DEF IInv, TypeOK
<1>4. NamedOnce'
  BY <1>1, <1>2, FreeKeepsTypes DEF IInv, TypeOK, NamedOnce, x
<1>5. Progress'
  BY <1>1, StepIsTyped DEF IInv, Progress, Running
<1>6. Reading'
  BY <1>1, <1>2, FreeKeepsTypes DEF IInv, Reading, Running
<1> QED BY <1>3, <1>4, <1>5, <1>6 DEF IInv

LEMMA ReloadBuildKeeps == IInv /\ ReloadBuild => IInv'
<1> SUFFICES ASSUME IInv, ReloadBuild PROVE IInv'
  OBVIOUS
<1>1. PICK x \in Contexts : Build(reload.i, x) /\ new_ctx' = [new_ctx EXCEPT ![reload.i] = x]
  BY DEF ReloadBuild
<1>2. reload.at = "build" /\ reload.i \in Vhosts /\ Step("wrlock")
  BY DEF ReloadBuild, On
<1>3. UNCHANGED <<handle, writer, ssl, version>>
  BY DEF ReloadBuild
<1>4. TypeOK'
  BY <1>1, <1>2, <1>3, StepIsTyped, BuildIsTyped DEF IInv, TypeOK
<1>5. NamedOnce'
  BY <1>1, <1>2, <1>3, TlsAssumption DEF IInv, TypeOK, NamedOnce, Build
<1>6. Progress'
  <2>1. CASE reload.i < NumVhosts
    BY SMTT(30), <1>1, <1>2, <1>3, <2>1, StepIsTyped, TlsAssumption
    DEF IInv, TypeOK, Progress, Running, Vhosts
  <2>2. CASE ~(reload.i < NumVhosts)
    BY <1>1, <1>2, <1>3, <2>2, StepIsTyped, TlsAssumption
    DEF IInv, TypeOK, Progress, Running, Vhosts
  <2> QED BY <2>1, <2>2
<1>7. Reading'
  BY <1>1, <1>2, <1>3, StepIsTyped DEF IInv, TypeOK, Reading, Running, Build
<1> QED BY <1>4, <1>5, <1>6, <1>7 DEF IInv

LEMMA WriteLockKeeps == IInv /\ WriteLock => IInv'
<1> SUFFICES ASSUME IInv, WriteLock PROVE IInv'
  OBVIOUS
<1>1. TypeOK' /\ NamedOnce' /\ Progress'
  BY DEF WriteLock, IInv, TypeOK, NamedOnce, Progress, Running, At, Place
<1>2. Reading'
  BY DEF WriteLock, Readers, IInv, Reading, Running, At
<1> QED BY <1>1, <1>2 DEF IInv

LEMMA SwapKeeps == IInv /\ Swap => IInv'
<1> SUFFICES ASSUME IInv, Swap PROVE IInv'
  OBVIOUS
<1>1. /\ reload.at = "swap" /\ reload.i \in Vhosts /\ Step("free")
      /\ handle' = [handle EXCEPT ![reload.i] = new_ctx[reload.i]]
      /\ new_ctx' = [new_ctx EXCEPT ![reload.i] = handle[reload.i]]
      /\ writer' = (reload.i < NumVhosts)
      /\ UNCHANGED <<holders, registry, ssl, made, version>>
  BY DEF Swap, On
<1>2. TypeOK'
  BY <1>1, StepIsTyped DEF IInv, TypeOK
<1>3. NamedOnce'
  BY <1>1 DEF IInv, TypeOK, NamedOnce
<1>4. Progress'
  <2>1. \A v \in Vhosts : handle'[v] # NULL
    BY <1>1 DEF IInv, TypeOK, Progress, Running, Vhosts
  <2>2. CASE reload.i < NumVhosts
    <3>1. reload'.at = "swap" /\ reload'.i = reload.i + 1
      BY <1>1, <2>2, StepIsTyped DEF IInv
    <3>2. \A v \in Vhosts : v >= reload.i + 1 => new_ctx'[v] # NULL
      BY <1>1, TlsAssumption DEF IInv, TypeOK, Progress, Vhosts
    <3> QED BY <1>1, <2>1, <2>2, <3>1, <3>2, Zenon DEF Progress
  <2>3. CASE ~(reload.i < NumVhosts)
    BY <1>1, <2>1, <2>3, StepIsTyped DEF IInv, Progress, Running
  <2> QED BY <2>2, <2>3
<1>5. Reading'
  BY <1>1 DEF IInv, Reading, Running
<1> QED BY <1>2, <1>3, <1>4, <1>5 DEF IInv

LEMMA FreeUnusedKeeps == IInv /\ FreeUnused => IInv'
<1> SUFFICES ASSUME IInv, FreeUnused PROVE IInv'
  OBVIOUS
<1> DEFINE x == new_ctx[reload.i]
<1>1. /\ reload.at = "free" /\ reload.i \in Vhosts /\ Step("idle") /\ Free(x)
      /\ new_ctx' = [new_ctx EXCEPT ![reload.i] = NULL]
      /\ UNCHANGED <<handle, writer, ssl, made, version>>
  BY DEF FreeUnused, On
<1>2. x \in Contexts \union {NULL}
  BY <1>1 DEF IInv, TypeOK
<1>3. \A v \in Vhosts : handle[v] # NULL => handle[v] # x
  BY <1>1 DEF IInv, NamedOnce
<1> HIDE DEF x
<1>4. TypeOK'
  BY <1>1, <1>2, StepIsTyped, FreeKeepsTypes DEF IInv, TypeOK
<1>5. NamedOnce'
  BY <1>1, <1>2, <1>3, FreeKeepsTypes DEF IInv, TypeOK, NamedOnce, x
<1>6. Progress'
  BY <1>1, StepIsTyped DEF IInv, Progress, Running
<1>7. Reading'
  BY <1>1, <1>2, StepIsTyped, FreeKeepsTypes DEF IInv, Reading, Running
<1> QED BY <1>4, <1>5, <1>6, <1>7 DEF IInv

-----------------------------------------------------------------------------
(* The workers *)

LEMMA AcceptKeeps ==
  ASSUME IInv, NEW c \in Conns, NEW v \in Vhosts, Running, Accept(c, v)
  PROVE  IInv'
<1>1. /\ ~writer /\ UNCHANGED <<handle, registry, reload, new_ctx, writer, made, version, holders>>
      /\ ssl' = [ssl EXCEPT ![c] = [at |-> "locked", vhost |-> v, ctx |-> NULL, seen |-> handle[v]]]
  BY DEF Accept, WorkerUnchanged
<1>2. [at |-> "locked", vhost |-> v, ctx |-> NULL, seen |-> handle[v]] \in SslState
  BY DEF IInv, TypeOK, SslState, Vhosts
<1>3. TypeOK'
  BY <1>1, <1>2 DEF IInv, TypeOK
<1>4. NamedOnce' /\ Progress'
  BY <1>1 DEF IInv, NamedOnce, Progress, Running
<1>5. Reading'
  BY <1>1 DEF IInv, TypeOK, Reading, Progress, Running
<1> QED BY <1>3, <1>4, <1>5 DEF IInv

\* A step of one connection that only adds it to a context's holders, or takes
\* it away from those it has left.
LEMMA ConnStepKeeps ==
  ASSUME IInv, NEW c \in Conns, WorkerUnchanged,
         NEW new \in SslState, ssl' = [ssl EXCEPT ![c] = new],
         new.at # "locked",
         new.at = "found" => new.seen \in Contexts,
         holders' \in [Contexts -> SUBSET (Conns \union {Owner})],
         new.at # "none" => new.ctx \in Contexts /\ c \in holders'[new.ctx],
         \A x \in Contexts : holders[x] \ {c} = holders'[x] \ {c}
  PROVE  IInv'
<1>1. TypeOK'
  BY DEF IInv, TypeOK, WorkerUnchanged
<1>2. \A x \in Contexts : Owner \in holders[x] => Owner \in holders'[x]
  BY TlsAssumption
<1>3. NamedOnce'
  BY <1>2 DEF IInv, TypeOK, NamedOnce, WorkerUnchanged
<1>4. Progress'
  BY DEF IInv, Progress, Running, WorkerUnchanged
<1>5. Reading'
  BY DEF IInv, TypeOK, Reading, Running, WorkerUnchanged, SslState
<1> QED BY <1>1, <1>3, <1>4, <1>5 DEF IInv

LEMMA NoSslKeeps ==
  ASSUME IInv, NEW c \in Conns, WorkerUnchanged, ssl' = [ssl EXCEPT ![c] = NoSsl],
         holders' \in [Contexts -> SUBSET (Conns \union {Owner})],
         \A x \in Contexts : holders[x] \ {c} = holders'[x] \ {c}
  PROVE  IInv'
<1>1. NoSsl \in SslState /\ NoSsl.at = "none"
  BY DEF NoSsl, SslState
<1> QED BY <1>1, ConnStepKeeps, Zenon

LEMMA TlsConnInitKeeps ==
  ASSUME IInv, NEW c \in Conns, TlsConnInit(c)
  PROVE  IInv'
<1>1. WorkerUnchanged /\ ssl[c].at = "locked"
  BY DEF TlsConnInit
<1>2. ssl \in [Conns -> SslState] /\ holders \in [Contexts -> SUBSET (Conns \union {Owner})]
  BY DEF IInv, TypeOK
<1>3. ssl[c].seen \in Contexts
  BY <1>1 DEF IInv, TypeOK, Reading, Progress, Running
<1>4. CASE /\ holders' = [holders EXCEPT ![ssl[c].seen] = @ \union {c}]
           /\ ssl' = [ssl EXCEPT ![c].at = "hello", ![c].ctx = ssl[c].seen, ![c].seen = NULL]
  <2> DEFINE new == [ssl[c] EXCEPT !.at = "hello", !.ctx = ssl[c].seen, !.seen = NULL]
  <2>1. ssl' = [ssl EXCEPT ![c] = new]
    BY <1>2, <1>4, Zenon
  <2>2. /\ new \in SslState /\ new.at = "hello" /\ new.ctx = ssl[c].seen
    BY <1>2, <1>3, Zenon DEF SslState
  <2>3. /\ holders' \in [Contexts -> SUBSET (Conns \union {Owner})]
        /\ c \in holders'[ssl[c].seen]
        /\ \A x \in Contexts : holders[x] \ {c} = holders'[x] \ {c}
    BY <1>2, <1>3, <1>4
  <2> HIDE DEF new
  <2> QED BY <1>1, <1>3, <2>1, <2>2, <2>3, ConnStepKeeps, Zenon
<1>5. CASE ssl' = [ssl EXCEPT ![c] = NoSsl] /\ UNCHANGED holders
  BY <1>1, <1>2, <1>5, NoSslKeeps, Zenon
<1> QED BY <1>4, <1>5 DEF TlsConnInit

LEMMA ServernameKeeps ==
  ASSUME IInv, NEW c \in Conns, NEW name, Servername(c, name)
  PROVE  IInv'
<1> DEFINE x == Find(name, Port[ssl[c].vhost])
           new == [ssl[c] EXCEPT !.at = IF x = NULL THEN "done" ELSE "found", !.seen = x]
<1>1. x \in Contexts \union {NULL}
  BY FindIsTyped DEF IInv
<1> HIDE DEF x
<1>2. WorkerUnchanged /\ UNCHANGED holders /\ ssl[c].at = "hello"
  BY DEF Servername
<1>3. ssl \in [Conns -> SslState] /\ holders \in [Contexts -> SUBSET (Conns \union {Owner})]
  BY DEF IInv, TypeOK
<1>4. ssl' = [ssl EXCEPT ![c] = new]
  BY <1>3, Zenon DEF Servername, x
<1>5. /\ new \in SslState /\ new.at \in {"found", "done"} /\ new.ctx = ssl[c].ctx
      /\ new.at = "found" => new.seen \in Contexts
  BY <1>1, <1>3 DEF SslState
<1>6. ssl[c].ctx \in Contexts /\ c \in holders'[ssl[c].ctx]
  BY <1>2 DEF IInv, Reading
<1> HIDE DEF new
<1> QED BY Zenon, <1>2, <1>3, <1>4, <1>5, <1>6, ConnStepKeeps

LEMMA SwitchKeeps ==
  ASSUME IInv, NEW c \in Conns, Switch(c)
  PROVE  IInv'
<1> DEFINE new == [ssl[c] EXCEPT !.at = "done", !.ctx = ssl[c].seen, !.seen = NULL]
<1>1. WorkerUnchanged /\ ssl[c].at = "found"
  BY DEF Switch
<1>2. ssl \in [Conns -> SslState] /\ holders \in [Contexts -> SUBSET (Conns \union {Owner})]
  BY DEF IInv, TypeOK
<1>3. ssl[c].seen \in Contexts
  BY <1>1 DEF IInv, Reading
<1>4. ssl' = [ssl EXCEPT ![c] = new]
  BY <1>2, Zenon DEF Switch
<1>5. new \in SslState /\ new.at = "done" /\ new.ctx = ssl[c].seen
  BY Zenon, <1>2, <1>3 DEF SslState
<1>6. /\ holders' \in [Contexts -> SUBSET (Conns \union {Owner})]
      /\ c \in holders'[ssl[c].seen]
      /\ \A x \in Contexts : holders[x] \ {c} = holders'[x] \ {c}
  BY <1>2, <1>3 DEF Switch, Unheld
<1> HIDE DEF new
<1> QED BY <1>1, <1>3, <1>4, <1>5, <1>6, ConnStepKeeps, Zenon

LEMMA TlsConnDestroyKeeps ==
  ASSUME IInv, NEW c \in Conns, TlsConnDestroy(c)
  PROVE  IInv'
<1>1. holders \in [Contexts -> SUBSET (Conns \union {Owner})]
  BY DEF IInv, TypeOK
<1>2. /\ holders' \in [Contexts -> SUBSET (Conns \union {Owner})]
      /\ \A x \in Contexts : holders[x] \ {c} = holders'[x] \ {c}
  BY <1>1 DEF TlsConnDestroy, Unheld
<1> QED BY <1>2, NoSslKeeps, Zenon DEF TlsConnDestroy

-----------------------------------------------------------------------------
LEMMA NextKeeps == IInv /\ [Next]_vars => IInv'
<1> SUFFICES ASSUME IInv, [Next]_vars PROVE IInv'
  OBVIOUS
<1>1. CASE Main
  BY <1>1, InitBuildKeeps, GotoKeeps, CleanupKeeps, ReloadBuildKeeps, WriteLockKeeps,
     SwapKeeps, FreeUnusedKeeps DEF Main
<1>2. ASSUME NEW c \in Conns, Worker(c) PROVE IInv'
  <2>1. Running
    BY <1>2 DEF Worker, Running
  <2> QED BY <1>2, <2>1, AcceptKeeps, TlsConnInitKeeps, ServernameKeeps, SwitchKeeps,
             TlsConnDestroyKeeps DEF Worker
<1>3. CASE UNCHANGED vars
  BY <1>3 DEF vars, IInv, TypeOK, NamedOnce, Progress, Reading, Running
<1> QED BY <1>1, <1>2, <1>3 DEF Next

\* Whatever the number of virtual hosts, connections and reloads, a worker makes
\* a connection only from a context that is still owned, and a connection's
\* context lives as long as the connection (tls_reload_vhost_contexts against
\* worker_accept_success).
THEOREM ContextsLive == Spec => []ContextAlive
<1>1. IInv => ContextAlive
  BY SMTT(30) DEF IInv, TypeOK, Reading, Progress, NamedOnce, ContextAlive
<1> QED BY <1>1, InitHolds, NextKeeps, PTL DEF Spec

-----------------------------------------------------------------------------
(* What a reload leaves behind *)

\* x is the context of v, or the one that a reload made or replaced.
Named(v, x) == x = handle[v] \/ x = new_ctx[v]

\* The registry and the ownership say exactly what the handles and the array of
\* the main thread say.
Registered ==
  /\ Range(registry) = {e \in Entry : Named(e.name, e.ctx)}
  /\ \A j, k \in 1 .. Len(registry) : registry[j].ctx = registry[k].ctx => j = k
  /\ \A x \in Contexts :
       Owner \in holders[x] => \E v \in Vhosts : Named(v, x)

\* What the main thread has not made yet, or has freed.
Remaining ==
  /\ reload.at = "init" => \A v \in Vhosts : v >= reload.i => handle[v] = NULL
  /\ reload.at \in {"init", "idle", "exit", "ended"} => \A v \in Vhosts : new_ctx[v] = NULL
  /\ reload.at = "build" => \A v \in Vhosts : v >= reload.i => new_ctx[v] = NULL
  /\ reload.at = "free" => \A v \in Vhosts : v < reload.i => new_ctx[v] = NULL
  /\ reload.at = "exit" => \A v \in Vhosts : v < reload.i => handle[v] = NULL
  /\ reload.at = "ended" => \A v \in Vhosts : handle[v] = NULL

\* Which reload a context comes from.
Versions ==
  /\ reload.at = "init" =>
       version = 0 /\ \A v \in Vhosts : handle[v] # NULL => made[handle[v]] = 0
  /\ reload.at \in {"idle", "build", "wrlock", "free"} =>
       \A u, v \in Vhosts : made[handle[u]] = made[handle[v]]
  /\ reload.at \in {"build", "wrlock"} =>
       \A v \in Vhosts : new_ctx[v] # NULL => made[new_ctx[v]] = version
  /\ reload.at = "swap" =>
       \A v \in Vhosts : /\ v < reload.i => made[handle[v]] = version
                         /\ v >= reload.i => made[new_ctx[v]] = version

Exact == IInv /\ Registered /\ Remaining /\ Versions

\* tls_sni_unregister_ctx takes out the entry of the context and no other, and
\* keeps the others apart although it moves the last one.
LEMMA UnregisteredExact ==
  ASSUME TypeOK, Registered, NEW x
  PROVE  /\ Range(Unregistered(x)) = {e \in Range(registry) : e.ctx # x}
         /\ \A j, k \in 1 .. Len(Unregistered(x)) :
              Unregistered(x)[j].ctx = Unregistered(x)[k].ctx => j = k
<1> DEFINE I == {j \in 1 .. Len(registry) : registry[j].ctx = x}
           i == IF I # {} THEN Min(I) ELSE 0
           n == Len(registry)
           s == Unregistered(x)
<1>1. s = IF i = 0 THEN registry ELSE SubSeq([registry EXCEPT ![i] = registry[n]], 1, n - 1)
  BY DEF Unregistered, FirstOf
<1>2. I \in SUBSET Nat /\ I \subseteq 1 .. n
  BY DEF TypeOK
<1>3. IF I = {} THEN i = 0 ELSE i \in I
  BY <1>2, MinIsIn
<1>4. registry \in Seq(Entry) /\ n \in Nat /\ DOMAIN registry = 1 .. n
  BY DEF TypeOK
<1>5. \A j, k \in 1 .. n : registry[j].ctx = registry[k].ctx => j = k
  BY DEF Registered
<1> HIDE DEF i, s
<1>6. CASE I = {}
  <2>1. s = registry
    BY <1>1, <1>3, <1>6
  <2>2. Range(s) = {e \in Range(registry) : e.ctx # x}
    BY <1>4, <1>6, <2>1 DEF Range
  <2> QED BY <1>5, <2>1, <2>2 DEF s
<1>7. CASE I # {}
  <2>1. i \in 1 .. n /\ registry[i].ctx = x
    BY <1>3, <1>7
  <2>2. s = SubSeq([registry EXCEPT ![i] = registry[n]], 1, n - 1)
    BY <1>1, <2>1
  <2>3. /\ Len(s) = n - 1 /\ DOMAIN s = 1 .. n - 1
        /\ \A j \in 1 .. n - 1 : s[j] = registry[IF j = i THEN n ELSE j]
    BY <1>4, <2>1, <2>2
  <2>4. ASSUME NEW e \in Range(s) PROVE e \in Range(registry) /\ e.ctx # x
    <3>1. PICK j \in 1 .. n - 1 : e = s[j]
      BY <2>3 DEF Range
    <3>2. PICK k \in 1 .. n : k # i /\ e = registry[k]
      BY <1>4, <2>1, <2>3, <3>1
    <3> QED BY <1>4, <1>5, <2>1, <3>2 DEF Range
  <2>5. ASSUME NEW e \in Range(registry), e.ctx # x PROVE e \in Range(s)
    <3>1. PICK k \in 1 .. n : e = registry[k]
      BY <1>4 DEF Range
    <3>2. PICK j \in 1 .. n - 1 : e = s[j]
      BY <1>4, <2>1, <2>3, <2>5, <3>1
    <3> QED BY <2>3, <3>2 DEF Range
  <2>6. ASSUME NEW j \in 1 .. n - 1, NEW k \in 1 .. n - 1, s[j].ctx = s[k].ctx PROVE j = k
    BY <1>4, <1>5, <2>1, <2>3, <2>6
  <2> QED BY <2>3, <2>4, <2>5, <2>6 DEF s
<1> QED BY <1>6, <1>7

\* A context is freed that is named no more: its entry goes, and its owner.
LEMMA FreeExact ==
  ASSUME IInv, Registered, NEW x \in Contexts \union {NULL}, Free(x),
         \A u \in Vhosts, y \in Contexts : Named(u, y)' <=> Named(u, y) /\ y # x
  PROVE  Registered'
<1>1. TypeOK
  BY DEF IInv
<1>2. CASE x = NULL
  <2>1. UNCHANGED <<holders, registry>>
    BY <1>2 DEF Free
  <2>2. \A e \in Entry : e.name \in Vhosts /\ e.ctx \in Contexts /\ e.ctx # x
    BY <1>2, TlsAssumption DEF Entry
  <2>3. Range(registry') = {e \in Entry : Named(e.name, e.ctx)'}
    BY <2>1, <2>2 DEF Registered
  <2>4. \A y \in Contexts : Owner \in holders'[y] => \E u \in Vhosts : Named(u, y)'
    BY Zenon, <1>2, <2>1, TlsAssumption DEF Registered
  <2> QED BY <2>1, <2>3, <2>4 DEF Registered
<1>3. CASE x # NULL
  <2>1. /\ registry' = Unregistered(x)
        /\ holders' = [holders EXCEPT ![x] = @ \ {Owner}]
    BY <1>3 DEF Free
  <2>2. Range(registry') = {e \in Entry : Named(e.name, e.ctx) /\ e.ctx # x}
    BY <1>1, <2>1, UnregisteredExact DEF Registered
  <2>3. \A e \in Entry : e.ctx \in Contexts /\ e.name \in Vhosts
    BY DEF Entry
  <2>4. Range(registry') = {e \in Entry : Named(e.name, e.ctx)'}
    BY <2>2, <2>3
  <2>5. \A y \in Contexts : Owner \in holders'[y] => y # x /\ Owner \in holders[y]
    BY <1>1, <2>1, Zenon DEF TypeOK
  <2>6. \A y \in Contexts : Owner \in holders'[y] => \E u \in Vhosts : Named(u, y)'
    BY <2>5 DEF Registered
  <2> QED BY <1>1, <2>1, <2>4, <2>6, UnregisteredExact DEF Registered
<1> QED BY <1>2, <1>3

\* A new context is registered and owned, where there was none.
LEMMA BuildExact ==
  ASSUME IInv, Registered, NEW v \in Vhosts, NEW x \in Contexts, Build(v, x),
         \A u \in Vhosts, y \in Contexts : Named(u, y)' <=> Named(u, y) \/ (u = v /\ y = x)
  PROVE  Registered' /\ \A u \in Vhosts : handle[u] # x /\ new_ctx[u] # x
<1> DEFINE new == [name |-> v, ctx |-> x]
           n == Len(registry)
<1>1. \A u \in Vhosts : handle[u] # x /\ new_ctx[u] # x
  BY TlsAssumption DEF IInv, NamedOnce, Build
<1>2. /\ registry \in Seq(Entry) /\ n \in Nat /\ DOMAIN registry = 1 .. n
      /\ holders \in [Contexts -> SUBSET (Conns \union {Owner})]
  BY DEF IInv, TypeOK
<1>3. new \in Entry /\ new.name = v /\ new.ctx = x
  BY DEF Entry
<1>4. /\ Len(registry') = n + 1 /\ DOMAIN registry' = 1 .. n + 1
      /\ \A j \in 1 .. n : registry'[j] = registry[j]
      /\ registry'[n + 1] = new
  BY <1>2, <1>3 DEF Build
<1>5. \A e \in Entry : /\ e.ctx \in Contexts /\ e.name \in Vhosts
                       /\ e.name = v /\ e.ctx = x => e = new
  BY DEF Entry
<1> HIDE DEF new
<1>6. Range(registry') = Range(registry) \union {new}
  BY <1>2, <1>4 DEF Range
<1>7. Range(registry') = {e \in Entry : Named(e.name, e.ctx)'}
  <2>1. ASSUME NEW e \in Range(registry')
        PROVE  e \in Entry /\ Named(e.name, e.ctx)'
    BY <1>3, <1>5, <1>6, <2>1 DEF Registered
  <2>2. ASSUME NEW e \in Entry, Named(e.name, e.ctx)'
        PROVE  e \in Range(registry')
    BY <1>3, <1>5, <1>6, <2>2 DEF Registered
  <2> QED BY <2>1, <2>2
<1>8. \A j \in 1 .. n : registry[j].ctx # x
  <2> SUFFICES ASSUME NEW j \in 1 .. n PROVE registry[j].ctx # x
    OBVIOUS
  <2>1. registry[j] \in Range(registry)
    BY <1>2 DEF Range
  <2> QED BY <1>1, <1>5, <2>1 DEF Registered, Named
<1>9. \A j, k \in 1 .. Len(registry') : registry'[j].ctx = registry'[k].ctx => j = k
  BY <1>2, <1>3, <1>4, <1>8 DEF Registered
<1>10. \A y \in Contexts : Owner \in holders'[y] => \E u \in Vhosts : Named(u, y)'
  BY <1>2 DEF Build, Registered
<1> QED BY Zenon, <1>1, <1>7, <1>9, <1>10 DEF Registered

LEMMA InitIsExact == Init => Exact
<1> SUFFICES ASSUME Init PROVE Exact
  OBVIOUS
<1>1. IInv
  BY InitHolds
<1>2. Registered
  <2>1. Range(registry) = {}
    BY DEF Init, Range
  <2>2. \A e \in Entry : ~Named(e.name, e.ctx)
    BY TlsAssumption DEF Init, Named, Entry
  <2> QED BY <2>1, <2>2 DEF Init, Registered
<1>3. Remaining /\ Versions
  BY DEF Init, Remaining, Versions, At
<1> QED BY <1>1, <1>2, <1>3 DEF Exact

LEMMA InitBuildExact == Exact /\ InitBuild => Exact'
<1> SUFFICES ASSUME Exact, InitBuild PROVE Exact'
  OBVIOUS
<1>1. PICK x \in Contexts : Build(reload.i, x) /\ handle' = [handle EXCEPT ![reload.i] = x]
  BY Zenon DEF InitBuild
<1>2. /\ reload.at = "init" /\ reload.i \in Vhosts /\ Step("idle")
      /\ UNCHANGED <<new_ctx, writer, ssl, version>>
  BY DEF InitBuild, On
<1>3. TypeOK /\ TypeOK' /\ IInv'
  BY InitBuildKeeps DEF Exact, IInv
<1>4. handle[reload.i] = NULL
  BY <1>2 DEF Exact, Remaining, Vhosts
<1>5. \A u \in Vhosts, y \in Contexts :
        Named(u, y)' <=> Named(u, y) \/ (u = reload.i /\ y = x)
  BY <1>1, <1>2, <1>3, <1>4, TlsAssumption, Zenon DEF TypeOK, Named
<1>6. Registered' /\ \A u \in Vhosts : handle[u] # x /\ new_ctx[u] # x
  BY <1>1, <1>2, <1>5, BuildExact, Zenon DEF Exact
<1>7. Remaining'
  BY <1>1, <1>2, <1>3, StepIsTyped, TlsAssumption DEF Exact, Remaining, TypeOK, Vhosts
<1>8. made' = [made EXCEPT ![x] = version]
  BY <1>1 DEF Build
<1>9. \A u \in Vhosts : handle'[u] # NULL => made'[handle'[u]] = 0
  BY <1>1, <1>2, <1>3, <1>6, <1>8 DEF Exact, Versions, TypeOK
<1>10. ~(reload.i < NumVhosts) => \A u \in Vhosts : handle'[u] # NULL
  BY <1>2, <1>3, StepIsTyped DEF IInv, Progress, Running
<1>11. Versions'
  BY <1>2, <1>3, <1>9, <1>10, StepIsTyped DEF Exact, Versions
<1> QED BY <1>3, <1>6, <1>7, <1>11 DEF Exact

LEMMA GotoExact ==
  /\ Exact /\ InitFails => Exact'
  /\ Exact /\ BeginExit => Exact'
  /\ Exact /\ Reload => Exact'
  /\ Exact /\ ReloadFails => Exact'
  /\ Exact /\ WriteLock => Exact'
<1>1. Exact /\ UNCHANGED <<handle, holders, registry, new_ctx>> => Registered'
  BY SMTT(30) DEF Exact, Registered, Named
<1>0. \A v \in Vhosts : v \in Nat /\ v >= 1 /\ ~(v < 1)
  BY TlsAssumption DEF Vhosts
<1>2. ASSUME Exact, InitFails PROVE Exact'
  <2>1. /\ reload.at = "init" /\ reload'.at = "exit" /\ reload'.i = 1
        /\ UNCHANGED <<handle, holders, registry, new_ctx, made, version>>
    BY <1>2 DEF InitFails, On, At
  <2>2. IInv'
    BY <1>2, GotoKeeps, Zenon DEF Exact
  <2>3. Remaining'
    BY <1>0, <1>2, <2>1 DEF Exact, Remaining
  <2>4. Versions'
    BY <1>0, <1>2, <2>1 DEF Exact, Versions
  <2> QED BY <1>1, <1>2, <2>1, <2>2, <2>3, <2>4, Zenon DEF Exact
<1>3. ASSUME Exact, BeginExit PROVE Exact'
  <2>1. /\ reload.at = "idle" /\ reload'.at = "exit" /\ reload'.i = 1
        /\ UNCHANGED <<handle, holders, registry, new_ctx, made, version>>
    BY <1>3 DEF BeginExit, At
  <2>2. IInv'
    BY <1>3, GotoKeeps, Zenon DEF Exact
  <2>3. Remaining'
    BY <1>0, <1>3, <2>1 DEF Exact, Remaining
  <2>4. Versions'
    BY <1>0, <1>3, <2>1 DEF Exact, Versions
  <2> QED BY <1>1, <1>3, <2>1, <2>2, <2>3, <2>4, Zenon DEF Exact
<1>4. ASSUME Exact, Reload PROVE Exact'
  <2>1. /\ reload.at = "idle" /\ reload'.at = "build" /\ reload'.i = 1
        /\ UNCHANGED <<handle, holders, registry, new_ctx, made>>
    BY <1>4 DEF Reload, At
  <2>2. IInv'
    BY <1>4, GotoKeeps, Zenon DEF Exact
  <2>3. Remaining'
    BY <1>0, <1>4, <2>1 DEF Exact, Remaining
  <2>4. Versions'
    <3>1. \A v \in Vhosts : new_ctx[v] = NULL
      BY <1>4, <2>1 DEF Exact, Remaining
    <3> QED BY <1>0, <1>4, <2>1, <3>1 DEF Exact, Versions
  <2> QED BY <1>1, <1>4, <2>1, <2>2, <2>3, <2>4, Zenon DEF Exact
<1>5. ASSUME Exact, ReloadFails PROVE Exact'
  <2>1. /\ reload.at = "build" /\ reload'.at = "free" /\ reload'.i = 1
        /\ UNCHANGED <<handle, holders, registry, new_ctx, made, version>>
    BY <1>5 DEF ReloadFails, On, At
  <2>2. IInv'
    BY <1>5, GotoKeeps, Zenon DEF Exact
  <2>3. Remaining'
    BY <1>0, <1>5, <2>1 DEF Exact, Remaining
  <2>4. Versions'
    BY <1>0, <1>5, <2>1 DEF Exact, Versions
  <2> QED BY <1>1, <1>5, <2>1, <2>2, <2>3, <2>4, Zenon DEF Exact
<1>6. ASSUME Exact, WriteLock PROVE Exact'
  <2>1. /\ reload.at = "wrlock" /\ reload'.at = "swap" /\ reload'.i = 1
        /\ UNCHANGED <<handle, holders, registry, new_ctx, made, version>>
    BY <1>6 DEF WriteLock, At
  <2>2. IInv'
    BY <1>6, WriteLockKeeps, Zenon DEF Exact
  <2>3. Remaining'
    BY <1>0, <1>6, <2>1 DEF Exact, Remaining
  <2>4. Versions'
    <3>1. \A v \in Vhosts : new_ctx[v] # NULL
      BY <1>6, <2>1 DEF Exact, IInv, Progress
    <3> QED BY <1>0, <1>6, <2>1, <3>1 DEF Exact, Versions
  <2> QED BY <1>1, <1>6, <2>1, <2>2, <2>3, <2>4, Zenon DEF Exact
<1> QED BY <1>2, <1>3, <1>4, <1>5, <1>6, Zenon

LEMMA CleanupExact == Exact /\ Cleanup => Exact'
<1> SUFFICES ASSUME Exact, Cleanup PROVE Exact'
  OBVIOUS
<1> DEFINE x == handle[reload.i]
<1>1. /\ reload.at = "exit" /\ reload.i \in Vhosts /\ Step("ended") /\ Free(x)
      /\ handle' = [handle EXCEPT ![reload.i] = NULL]
      /\ UNCHANGED <<new_ctx, writer, ssl, made, version>>
  BY DEF Cleanup, On
<1>2. TypeOK /\ IInv' /\ x \in Contexts \union {NULL}
  BY <1>1, CleanupKeeps, Zenon DEF Exact, IInv, TypeOK
<1>3. \A u \in Vhosts : new_ctx[u] = NULL
  BY <1>1, Zenon DEF Exact, Remaining
<1>4. \A u \in Vhosts, y \in Contexts : Named(u, y)' <=> Named(u, y) /\ y # x
  BY <1>1, <1>2, <1>3, TlsAssumption DEF Exact, IInv, TypeOK, NamedOnce, Named
<1>5. Registered'
  BY <1>1, <1>2, <1>4, FreeExact, Zenon DEF Exact
<1> HIDE DEF x
<1>6. Remaining'
  BY <1>1, <1>2, StepIsTyped, TlsAssumption, SMTT(30) DEF Exact, Remaining, TypeOK, Vhosts
<1>7. Versions'
  BY <1>1, <1>2, StepIsTyped DEF Versions
<1> QED BY <1>2, <1>5, <1>6, <1>7 DEF Exact

LEMMA ReloadBuildExact == Exact /\ ReloadBuild => Exact'
<1> SUFFICES ASSUME Exact, ReloadBuild PROVE Exact'
  OBVIOUS
<1>1. PICK x \in Contexts : Build(reload.i, x) /\ new_ctx' = [new_ctx EXCEPT ![reload.i] = x]
  BY Zenon DEF ReloadBuild
<1>2. /\ reload.at = "build" /\ reload.i \in Vhosts /\ Step("wrlock")
      /\ UNCHANGED <<handle, writer, ssl, version>>
  BY DEF ReloadBuild, On
<1>3. TypeOK /\ TypeOK' /\ IInv'
  BY Zenon, ReloadBuildKeeps DEF Exact, IInv
<1>4. new_ctx[reload.i] = NULL
  <2>1. Remaining /\ reload.i \in Nat
    BY <1>2 DEF Exact, Vhosts
  <2>2. reload.i >= reload.i
    BY <2>1
  <2> QED BY <1>2, <2>1, <2>2, Zenon DEF Remaining
<1>5. \A u \in Vhosts, y \in Contexts :
        Named(u, y)' <=> Named(u, y) \/ (u = reload.i /\ y = x)
  BY <1>1, <1>2, <1>3, <1>4, TlsAssumption, Zenon DEF TypeOK, Named
<1>6. Registered' /\ \A u \in Vhosts : handle[u] # x /\ new_ctx[u] # x
  BY <1>1, <1>2, <1>5, BuildExact, Zenon DEF Exact
<1>7. Remaining'
  BY <1>1, <1>2, <1>3, StepIsTyped, TlsAssumption DEF Exact, Remaining, TypeOK, Vhosts
<1>8. made' = [made EXCEPT ![x] = version]
  BY <1>1, Zenon DEF Build
<1>9. \A u \in Vhosts : handle[u] \in Contexts /\ made'[handle'[u]] = made[handle[u]]
  BY <1>2, <1>3, <1>6, <1>8, Zenon DEF Exact, IInv, Progress, Running, TypeOK
<1>10. \A u \in Vhosts : new_ctx'[u] # NULL => made'[new_ctx'[u]] = version
  BY <1>1, <1>2, <1>3, <1>6, <1>8 DEF Exact, Versions, TypeOK
<1>11. Versions'
  <2>1. Versions
    BY Zenon DEF Exact
  <2>2. reload'.at \in {"build", "wrlock"}
    BY <1>2, <1>3, StepIsTyped
  <2>3. \A u, v \in Vhosts : made'[handle'[u]] = made'[handle'[v]]
    BY <1>2, <1>9, <2>1 DEF Versions
  <2> QED BY <1>2, <1>10, <2>2, <2>3 DEF Versions
<1> QED BY <1>3, <1>6, <1>7, <1>11 DEF Exact

LEMMA SwapExact == Exact /\ Swap => Exact'
<1> SUFFICES ASSUME Exact, Swap PROVE Exact'
  OBVIOUS
<1>1. /\ reload.at = "swap" /\ reload.i \in Vhosts /\ Step("free")
      /\ handle' = [handle EXCEPT ![reload.i] = new_ctx[reload.i]]
      /\ new_ctx' = [new_ctx EXCEPT ![reload.i] = handle[reload.i]]
      /\ UNCHANGED <<holders, registry, ssl, made, version>>
  BY DEF Swap, On
<1>2. TypeOK /\ IInv'
  BY SwapKeeps DEF Exact, IInv
<1>3. \A u \in Vhosts, y \in Contexts : Named(u, y)' <=> Named(u, y)
  BY <1>1, <1>2, Zenon DEF TypeOK, Named
<1>4. Registered'
  <2>1. \A e \in Entry : e.name \in Vhosts /\ e.ctx \in Contexts
    BY DEF Entry
  <2>2. Range(registry') = {e \in Entry : Named(e.name, e.ctx)'}
    BY Zenon, <1>1, <1>3, <2>1 DEF Exact, Registered
  <2>3. \A y \in Contexts : Owner \in holders'[y] => \E u \in Vhosts : Named(u, y)'
    BY <1>1, <1>3 DEF Exact, Registered
  <2> QED BY Zenon, <1>1, <2>2, <2>3 DEF Exact, Registered
<1>5. Remaining'
  BY <1>1, <1>2, StepIsTyped, TlsAssumption DEF Remaining, TypeOK, Vhosts
<1>6. \A u \in Vhosts : u <= reload.i => made'[handle'[u]] = version'
  BY <1>1, <1>2 DEF Exact, Versions, TypeOK, Vhosts
<1>7. \A u \in Vhosts : u > reload.i => made'[new_ctx'[u]] = version'
  BY <1>1, <1>2, SMTT(30) DEF Exact, Versions, TypeOK, Vhosts
<1>8. Versions'
  BY <1>1, <1>2, <1>6, <1>7, StepIsTyped, TlsAssumption DEF Versions, Vhosts
<1> QED BY <1>2, <1>4, <1>5, <1>8 DEF Exact

LEMMA FreeUnusedExact == Exact /\ FreeUnused => Exact'
<1> SUFFICES ASSUME Exact, FreeUnused PROVE Exact'
  OBVIOUS
<1> DEFINE x == new_ctx[reload.i]
<1>1. /\ reload.at = "free" /\ reload.i \in Vhosts /\ Step("idle") /\ Free(x)
      /\ new_ctx' = [new_ctx EXCEPT ![reload.i] = NULL]
      /\ UNCHANGED <<handle, writer, ssl, made, version>>
  BY DEF FreeUnused, On
<1>2. TypeOK /\ IInv' /\ x \in Contexts \union {NULL}
  BY <1>1, FreeUnusedKeeps, Zenon DEF Exact, IInv, TypeOK
<1>3. \A u \in Vhosts, y \in Contexts : Named(u, y)' <=> Named(u, y) /\ y # x
  BY <1>1, <1>2, TlsAssumption DEF Exact, IInv, TypeOK, NamedOnce, Named
<1>4. Registered'
  BY <1>1, <1>2, <1>3, FreeExact, Zenon DEF Exact
<1> HIDE DEF x
<1>5. Remaining'
  BY <1>1, <1>2, StepIsTyped, TlsAssumption DEF Exact, Remaining, TypeOK, Vhosts
<1>6. Versions'
  BY <1>1, <1>2, StepIsTyped, Zenon DEF Exact, Versions
<1> QED BY <1>2, <1>4, <1>5, <1>6 DEF Exact

\* A worker neither owns a context nor names or registers one.
LEMMA WorkerExact ==
  ASSUME Exact, NEW c \in Conns, Worker(c)
  PROVE  Exact'
<1>1. IInv'
  BY NextKeeps, Zenon DEF Exact, Next
<1>2. WorkerUnchanged
  BY Zenon DEF Worker, Accept, TlsConnInit, Servername, Switch, TlsConnDestroy
<1>3. \A x \in Contexts : Owner \in holders'[x] => Owner \in holders[x]
  <2>1. holders \in [Contexts -> SUBSET (Conns \union {Owner})] /\ c # Owner
    BY Zenon, TlsAssumption DEF Exact, IInv, TypeOK
  <2>2. CASE UNCHANGED holders
    BY <2>2
  <2>3. CASE \E y : holders' = [holders EXCEPT ![y] = @ \union {c}]
    BY <2>1, <2>3
  <2>4. CASE holders' = Unheld(c)
    BY <2>1, <2>4 DEF Unheld
  <2>5. CASE \E y : holders' = [Unheld(c) EXCEPT ![y] = @ \union {c}]
    BY <2>1, <2>5 DEF Unheld
  <2> QED BY <2>2, <2>3, <2>4, <2>5, Zenon
      DEF Worker, Accept, TlsConnInit, Servername, Switch, TlsConnDestroy
<1>4. Registered'
  BY <1>2, <1>3, Zenon DEF Exact, Registered, Named, WorkerUnchanged
<1>5. Remaining' /\ Versions'
  BY <1>2 DEF Exact, Remaining, Versions, WorkerUnchanged
<1> QED BY <1>1, <1>4, <1>5 DEF Exact

LEMMA NextIsExact == Exact /\ [Next]_vars => Exact'
<1> SUFFICES ASSUME Exact, [Next]_vars PROVE Exact'
  OBVIOUS
<1>1. CASE Main
  BY <1>1, InitBuildExact, GotoExact, CleanupExact, ReloadBuildExact, SwapExact,
     FreeUnusedExact DEF Main
<1>2. ASSUME NEW c \in Conns, Worker(c) PROVE Exact'
  BY <1>2, WorkerExact
<1>3. CASE UNCHANGED vars
  <2>1. IInv'
    BY <1>3, NextKeeps DEF Exact
  <2> QED BY <1>3, <2>1, Zenon DEF vars, Exact, Registered, Remaining, Versions, Named
<1> QED BY <1>1, <1>2, <1>3 DEF Next

LEMMA SeqIs ==
  ASSUME NEW S, NEW q \in Seq(S)
  PROVE  Len(q) \in Nat /\ DOMAIN q = 1 .. Len(q)
  OBVIOUS

\* A list without repetition of the contexts of all virtual hosts is as long as
\* there are virtual hosts.
LEMMA AsManyEntries ==
  ASSUME TypeOK, Registered,
         \A v \in Vhosts : handle[v] # NULL,
         \A u, v \in Vhosts : u # v => handle[u] # handle[v],
         Range(registry) = {[name |-> v, ctx |-> handle[v]] : v \in Vhosts}
  PROVE  Len(registry) = NumVhosts
<1> DEFINE n == Len(registry)
           R == Range(registry)
           f == [j \in 1 .. n |-> registry[j]]
           g == [v \in 1 .. NumVhosts |-> [name |-> v, ctx |-> handle[v]]]
<1>1. registry \in Seq(Entry) /\ n \in Nat /\ DOMAIN registry = 1 .. n
  <2>1. registry \in Seq(Entry)
    BY Zenon DEF TypeOK
  <2> QED BY <2>1, SeqIs, Zenon
<1>2. f \in Bijection(1 .. n, R)
  <2>1. f \in [1 .. n -> R] /\ \A y \in R : \E j \in 1 .. n : f[j] = y
    BY <1>1 DEF Range
  <2>2. \A j, k \in 1 .. n : f[j] = f[k] => j = k
    BY Zenon, <1>1 DEF Registered
  <2> HIDE DEF f, R
  <2> QED BY <2>1, <2>2 DEF Bijection, Injection, Surjection, IsInjective
<1>3. g \in Bijection(1 .. NumVhosts, R)
  <2>1. g \in [1 .. NumVhosts -> R] /\ \A y \in R : \E j \in 1 .. NumVhosts : g[j] = y
    BY DEF Vhosts
  <2>2. \A j, k \in 1 .. NumVhosts : g[j] = g[k] => j = k
    OBVIOUS
  <2> HIDE DEF g, R
  <2> QED BY <2>1, <2>2 DEF Bijection, Injection, Surjection, IsInjective
<1> HIDE DEF f, g, R
<1>4. Cardinality(R) = n
  BY <1>1, <1>2, FS_CountingElements DEF ExistsBijection
<1>5. Cardinality(R) = NumVhosts
  BY <1>3, TlsAssumption, FS_CountingElements DEF ExistsBijection
<1> QED BY <1>4, <1>5, Zenon

\* Whatever the number of virtual hosts and of reloads, and whichever of them
\* fail, between reloads the contexts of all virtual hosts come from one reload,
\* the registry holds each of them once under its name and nothing else, and no
\* other context is owned; at the end nothing is (tls_init_vhost_contexts,
\* tls_reload_vhost_contexts, tls_sni_unregister_ctx).
THEOREM ReloadsExact == Spec => []ReloadExact
<1>1. ASSUME Exact PROVE ReloadExact
  <2>1. CASE reload.at = "idle"
    <3>1. \A v \in Vhosts : handle[v] # NULL /\ new_ctx[v] = NULL
      BY <1>1, <2>1 DEF Exact, IInv, Progress, Running, Remaining
    <3>2. \A v, u \in Vhosts : made[handle[v]] = made[handle[u]] /\ (v # u => handle[v] # handle[u])
      BY <1>1, <2>1, <3>1 DEF Exact, IInv, NamedOnce, Versions
    <3>3. \A v \in Vhosts : handle[v] \in Contexts /\ Owner \in holders[handle[v]]
      BY <1>1, <3>1 DEF Exact, IInv, TypeOK, NamedOnce
    <3>4. Range(registry) = {[name |-> v, ctx |-> handle[v]] : v \in Vhosts}
      <4>1. ASSUME NEW e \in Range(registry)
            PROVE  e \in {[name |-> v, ctx |-> handle[v]] : v \in Vhosts}
        BY SMTT(30), <1>1, <3>1, TlsAssumption DEF Exact, Registered, Named, Entry
      <4>2. ASSUME NEW v \in Vhosts PROVE [name |-> v, ctx |-> handle[v]] \in Range(registry)
        BY <1>1, <3>3 DEF Exact, Registered, Named, Entry
      <4> QED BY <4>1, <4>2
    <3>5. Len(registry) = NumVhosts
      BY <1>1, <3>1, <3>2, <3>4, AsManyEntries DEF Exact, IInv
    <3>6. {x \in Contexts : Owner \in holders[x]} = {handle[v] : v \in Vhosts}
      BY <1>1, <3>1, <3>3, TlsAssumption DEF Exact, Registered, Named
    <3> QED BY <2>1, <3>1, <3>2, <3>4, <3>5, <3>6 DEF ReloadExact
  <2>2. CASE reload.at = "ended"
    <3>1. \A v \in Vhosts, x \in Contexts : ~Named(v, x)
      BY <1>1, <2>2, TlsAssumption DEF Exact, Remaining, Named
    <3>2. Range(registry) = {}
      BY <1>1, <3>1 DEF Exact, Registered, Entry
    <3>3. registry = <<>>
      <4>1. registry \in Seq(Entry)
        BY <1>1 DEF Exact, IInv, TypeOK
      <4>2. ~(1 \in DOMAIN registry)
        BY <3>2, Zenon DEF Range
      <4> QED BY <4>1, <4>2
    <3>4. \A x \in Contexts : Owner \notin holders[x]
      BY <1>1, <3>1 DEF Exact, Registered
    <3> QED BY <2>2, <3>3, <3>4 DEF ReloadExact
  <2> QED BY <2>1, <2>2, Zenon DEF ReloadExact
<1> QED BY <1>1, InitIsExact, NextIsExact, PTL DEF Spec
=============================================================================
