---------------------------- MODULE TlsContexts ----------------------------
(***************************************************************************)
(* The TLS contexts of the virtual hosts: built when the process starts,   *)
(* replaced by the main thread on SIGHUP while the workers accept          *)
(* connections with them, and found by name in a registry of their own     *)
(* during a handshake.                                                     *)
(*                                                                         *)
(* OpenSSL counts the references to a context; here a context has a set of *)
(* holders, the tls_ctx that owns it and the connections whose SSL object  *)
(* was made from it, and is freed when the set becomes empty.              *)
(***************************************************************************)
EXTENDS Naturals, Sequences, FiniteSetsExt

CONSTANTS
  NumVhosts,     \* virtual hosts with TLS
  Port,          \* [1 .. NumVhosts -> their ports]
  Conns,         \* connections
  Contexts,      \* addresses of contexts
  NULL,
  Owner,         \* stands for the tls_ctx structure among the holders
  SniMax,        \* TLS_SNI_MAX_CTX
  MaxReloads     \* bound: reloads

ASSUME TlsAssumption ==
  /\ NumVhosts \in Nat /\ SniMax \in Nat /\ MaxReloads \in Nat
  /\ NULL \notin Contexts /\ Owner \notin Conns

Vhosts == 1 .. NumVhosts

VARIABLES
  handle,     \* [Vhosts -> tls_ctx_handle]
  holders,    \* [Contexts -> who keeps it]
  registry,   \* g_tls_sni_entries
  reload,     \* what the main thread does, and for which virtual host
  new_ctx,    \* [Vhosts -> the local array of tls_reload_vhost_contexts]
  writer,     \* g_tls_ctx_lock is held for writing
  ssl,        \* [Conns -> the connection's SSL object and what it is doing]
  made,       \* [Contexts -> the reload that built it]
  version     \* how many reloads have begun

vars == <<handle, holders, registry, reload, new_ctx, writer, ssl, made, version>>

NoSsl == [at |-> "none", vhost |-> 1, ctx |-> NULL, seen |-> NULL]
Readers == {c \in Conns : ssl[c].at = "locked"}
At(where, i) == [at |-> where, i |-> i]

Init ==
  /\ handle = [v \in Vhosts |-> NULL]
  /\ holders = [x \in Contexts |-> {}]
  /\ registry = <<>>
  /\ reload = At("init", 1)
  /\ new_ctx = [v \in Vhosts |-> NULL]
  /\ writer = FALSE
  /\ ssl = [c \in Conns |-> NoSsl]
  /\ made = [x \in Contexts |-> 0]
  /\ version = 0

-----------------------------------------------------------------------------
\* tls_ctx_build_for_vhost: a context that no one holds is taken and registered.
\* It fails for its files at any time, and when the registry is full.
Build(v, x) ==
  /\ holders[x] = {} /\ Len(registry) < SniMax
  /\ holders' = [holders EXCEPT ![x] = {Owner}]
  /\ registry' = Append(registry, [name |-> v, ctx |-> x])
  /\ made' = [made EXCEPT ![x] = version]

\* The first of these places of the registry, 0 when there is none.
FirstOf(places) == IF places # {} THEN Min(places) ELSE 0

UnregisteredLast(x) == SubSeq(registry, 1, Len(registry) - 1)
\* tls_sni_unregister_ctx: the last entry takes the place of the one removed.
Unregistered(x) ==
  LET n == Len(registry)
      i == FirstOf({j \in 1 .. n : registry[j].ctx = x})
  IN  IF i = 0 THEN registry ELSE SubSeq([registry EXCEPT ![i] = registry[n]], 1, n - 1)

\* tls_ctx_free, for a structure that may be NULL
Free(x) ==
  IF x = NULL THEN UNCHANGED <<holders, registry>>
  ELSE /\ registry' = Unregistered(x)
       /\ holders' = [holders EXCEPT ![x] = @ \ {Owner}]

\* The next virtual host, or what follows the last one.
Step(then) ==
  reload' = IF reload.i < NumVhosts THEN [reload EXCEPT !.i = @ + 1] ELSE At(then, 1)
On(where) == reload.at = where /\ reload.i \in Vhosts

-----------------------------------------------------------------------------
(* The main thread: tls_init_vhost_contexts, tls_reload_vhost_contexts *)

InitBuild ==
  /\ On("init")
  /\ \E x \in Contexts : Build(reload.i, x) /\ handle' = [handle EXCEPT ![reload.i] = x]
  /\ Step("idle")
  /\ UNCHANGED <<new_ctx, writer, ssl, version>>

\* A failure at the start: the contexts that were built are freed and the
\* process ends.  The same loop frees them when the process ends normally
\* (cleanup_loaded_config), after the workers.
InitFails ==
  /\ On("init")
  /\ reload' = At("exit", 1)
  /\ UNCHANGED <<handle, holders, registry, new_ctx, writer, ssl, made, version>>
BeginExit ==
  /\ reload.at = "idle" /\ \A c \in Conns : ssl[c].at \notin {"locked", "found"}
  /\ reload' = At("exit", 1)
  /\ UNCHANGED <<handle, holders, registry, new_ctx, writer, ssl, made, version>>
Cleanup ==
  /\ On("exit")
  /\ Free(handle[reload.i])
  /\ handle' = [handle EXCEPT ![reload.i] = NULL]
  /\ Step("ended")
  /\ UNCHANGED <<new_ctx, writer, ssl, made, version>>

Reload ==
  /\ reload.at = "idle" /\ version < MaxReloads
  /\ version' = version + 1
  /\ reload' = At("build", 1)
  /\ UNCHANGED <<handle, holders, registry, new_ctx, writer, ssl, made>>

ReloadBuild ==
  /\ On("build")
  /\ \E x \in Contexts : Build(reload.i, x) /\ new_ctx' = [new_ctx EXCEPT ![reload.i] = x]
  /\ Step("wrlock")
  /\ UNCHANGED <<handle, writer, ssl, version>>

ReloadFails ==
  /\ On("build")
  /\ reload' = At("free", 1)
  /\ UNCHANGED <<handle, holders, registry, new_ctx, writer, ssl, made, version>>

SwapUnlocked ==
  /\ reload.at = "wrlock"
  /\ writer' = FALSE
  /\ reload' = At("swap", 1)
  /\ UNCHANGED <<handle, holders, registry, new_ctx, ssl, made, version>>
WriteLock ==
  /\ reload.at = "wrlock" /\ Readers = {}
  /\ writer' = TRUE
  /\ reload' = At("swap", 1)
  /\ UNCHANGED <<handle, holders, registry, new_ctx, ssl, made, version>>

\* The lock is released after the last one.
Swap ==
  /\ On("swap")
  /\ handle' = [handle EXCEPT ![reload.i] = new_ctx[reload.i]]
  /\ new_ctx' = [new_ctx EXCEPT ![reload.i] = handle[reload.i]]
  /\ Step("free")
  /\ writer' = (reload.i < NumVhosts)
  /\ UNCHANGED <<holders, registry, ssl, made, version>>

\* What the array holds is freed: the old contexts, or the new ones of a
\* reload that failed.
FreeUnused ==
  /\ On("free")
  /\ Free(new_ctx[reload.i])
  /\ new_ctx' = [new_ctx EXCEPT ![reload.i] = NULL]
  /\ Step("idle")
  /\ UNCHANGED <<handle, writer, ssl, made, version>>

Main ==
  \/ InitBuild \/ InitFails \/ BeginExit \/ Cleanup
  \/ Reload \/ ReloadBuild \/ ReloadFails \/ WriteLock \/ Swap \/ FreeUnused

-----------------------------------------------------------------------------
(* A worker: the accept, tls_conn_init and the servername callback *)

Unheld(c) == [x \in Contexts |-> holders[x] \ {c}]
WorkerUnchanged == UNCHANGED <<handle, registry, reload, new_ctx, writer, made, version>>

\* tls_ctx_rdlock, and the handle is read.
Accept(c, v) ==
  /\ ssl[c].at = "none"
  /\ ~writer
  /\ ssl' = [ssl EXCEPT ![c] = [at |-> "locked", vhost |-> v, ctx |-> NULL, seen |-> handle[v]]]
  /\ WorkerUnchanged /\ UNCHANGED holders

\* tls_conn_init, whose SSL_new takes a reference, and tls_ctx_unlock; or it fails.
TlsConnInit(c) ==
  /\ ssl[c].at = "locked"
  /\ \/ /\ holders' = [holders EXCEPT ![ssl[c].seen] = @ \union {c}]
        /\ ssl' = [ssl EXCEPT ![c].at = "hello", ![c].ctx = ssl[c].seen, ![c].seen = NULL]
     \/ ssl' = [ssl EXCEPT ![c] = NoSsl] /\ UNCHANGED holders
  /\ WorkerUnchanged

\* tls_sni_find_ctx
Find(name, port) ==
  LET i == FirstOf({j \in 1 .. Len(registry) :
                      registry[j].name = name /\ Port[registry[j].name] = port})
  IN  IF i = 0 THEN NULL ELSE registry[i].ctx

\* tls_servername_cb: without a name, or with one that is not found, the context
\* stays; one that is found is used in a step of its own.
Servername(c, name) ==
  LET x == Find(name, Port[ssl[c].vhost]) IN
  /\ ssl[c].at = "hello"
  /\ ssl' = [ssl EXCEPT ![c].at = IF x = NULL THEN "done" ELSE "found", ![c].seen = x]
  /\ WorkerUnchanged /\ UNCHANGED holders

\* SSL_set_SSL_CTX moves the reference.  On a context that was freed in the
\* meantime its behaviour is undefined, and the model follows it no further.
Switch(c) ==
  /\ ssl[c].at = "found" /\ holders[ssl[c].seen] # {}
  /\ holders' = [Unheld(c) EXCEPT ![ssl[c].seen] = @ \union {c}]
  /\ ssl' = [ssl EXCEPT ![c].at = "done", ![c].ctx = ssl[c].seen, ![c].seen = NULL]
  /\ WorkerUnchanged

\* tls_conn_destroy
TlsConnDestroy(c) ==
  /\ ssl[c].at \in {"hello", "done"}
  /\ holders' = Unheld(c)
  /\ ssl' = [ssl EXCEPT ![c] = NoSsl]
  /\ WorkerUnchanged

\* The workers run from the end of the initialization until they are joined.
Worker(c) ==
  /\ reload.at \notin {"init", "exit", "ended"}
  /\ \/ \E v \in Vhosts : Accept(c, v)
     \/ TlsConnInit(c) \/ Switch(c) \/ TlsConnDestroy(c)
     \/ \E name \in 0 .. NumVhosts : Servername(c, name)

Next == Main \/ \E c \in Conns : Worker(c)
Spec == Init /\ [][Next]_vars

-----------------------------------------------------------------------------
Entry == [name : Vhosts, ctx : Contexts]
Place == {"init", "idle", "build", "wrlock", "swap", "free", "exit", "ended"}
SslState == [at : {"none", "locked", "hello", "found", "done"}, vhost : Nat,
             ctx : Contexts \union {NULL}, seen : Contexts \union {NULL}]
TypeOK ==
  /\ handle \in [Vhosts -> Contexts \union {NULL}]
  /\ new_ctx \in [Vhosts -> Contexts \union {NULL}]
  /\ holders \in [Contexts -> SUBSET (Conns \union {Owner})]
  /\ registry \in Seq(Entry)
  /\ reload \in [at : Place, i : Nat]
  /\ writer \in BOOLEAN
  /\ ssl \in [Conns -> SslState]
  /\ made \in [Contexts -> Nat] /\ version \in Nat

\* A worker never makes a connection from a context that the main thread has
\* freed, and a connection's context lives as long as the connection
\* (tls_ctx_rdlock in lamseryn.c against tls_reload_vhost_contexts, which frees
\* the old contexts after it has released the lock).
ContextAlive ==
  \A c \in Conns :
    /\ ssl[c].at = "locked" => ssl[c].seen \in Contexts /\ Owner \in holders[ssl[c].seen]
    /\ ssl[c].at \in {"hello", "found", "done"} =>
         ssl[c].ctx \in Contexts /\ c \in holders[ssl[c].ctx]

\* The same of a context that was found by name; the registry has no lock.
SniTargetAlive == \A c \in Conns : ssl[c].at = "found" => holders[ssl[c].seen] # {}

\* Between reloads, whether they succeeded or failed, the contexts of all
\* virtual hosts come from one reload, each is registered once under its name,
\* and no other context is kept but by the connections that use it
\* (tls_reload_vhost_contexts and the registry edited by every build and free).
ReloadExact ==
  /\ reload.at = "idle" =>
       /\ \A v \in Vhosts : handle[v] # NULL
       /\ \A v, u \in Vhosts : made[handle[v]] = made[handle[u]] /\ (v # u => handle[v] # handle[u])
       /\ Range(registry) = {[name |-> v, ctx |-> handle[v]] : v \in Vhosts}
       /\ Len(registry) = NumVhosts
       /\ {x \in Contexts : Owner \in holders[x]} = {handle[v] : v \in Vhosts}
  /\ reload.at = "ended" => registry = <<>> /\ \A x \in Contexts : Owner \notin holders[x]
=============================================================================
