------------------------------- MODULE Config -------------------------------
(***************************************************************************)
(* config_load_ini: an INI file is read line by line into a candidate      *)
(* configuration, checked, its routes attached to their hosts, its         *)
(* document roots and credential files opened, and the whole committed     *)
(* over the configuration in use, or dropped.                              *)
(*                                                                         *)
(* A line is [section, name, key, val].  The value "bad" is any value the  *)
(* parser of its key refuses.  A block of memory or a descriptor is        *)
(* <<load, kind, host, number>>; heap is the set of those not yet freed.   *)
(***************************************************************************)
EXTENDS RoutePolicy, Naturals

CONSTANTS
  Sources,       \* the files considered, see TypeOK
  Text,          \* the characters of the names used as path prefixes
  HeaderLine,    \* the [name, value] of the lines used as header settings
  Numeric,       \* the numeric address of the bind values that resolve
  Address,       \* the [addr, zone] of a numeric address, zone "" when none
  LinkLocal,     \* the link-local addresses
  Sockets,       \* the [addr, scope, port] connections are accepted on
  MaxVhosts,     \* CFG_MAX_VHOSTS
  MaxRoutes,     \* CFG_MAX_ROUTES
  FirstCap,      \* route slots of the first parse buffer
  Paths,         \* the normalised paths requests ask for
  MaxHeaders     \* header lines a host or a route takes of each kind

VARIABLES
  source,        \* the source of this process's files (rigid)
  phase,         \* where config_load_ini is
  file,          \* the lines read by the current load
  ini_fatal, rc, \* the parser's verdicts
  next, pctx,    \* the candidate and the parse context
  at,            \* the host whose files are opened next
  cfg,           \* the configuration in use
  applied,       \* the lines cfg was made from
  result,        \* what the last load returned
  loads,         \* loads so far
  heap

vars == <<source, phase, file, ini_fatal, rc, next, pctx, at, cfg, applied, result,
          loads, heap>>
parsing == <<source, phase, at, cfg, applied, result, loads>>

Block(kind, host, n) == <<loads, kind, host, n>>

\* Whether an allocation can fail in this source.
Outcomes == IF source.oom THEN BOOLEAN ELSE {TRUE}

-----------------------------------------------------------------------------
(* The keys, by what becomes of a value their parser refuses. *)

GlobalFatal ==
  {"io_uring_sqpoll_cpu", "tcp_defer_accept_sec", "workers", "listen_backlog",
   "shutdown_grace_ms", "default_max_body_bytes", "max_header_bytes",
   "access_log_sample", "access_log_min_status"}
GlobalLenient ==
  {"log_level", "log_categories", "queue_depth", "io_uring_sqpoll", "pre_accepts",
   "initial_idle_timeout_ms", "keepalive_idle_close_ms", "header_timeout_ms",
   "body_timeout_ms", "write_timeout_ms", "drain_timeout_ms", "accept_backoff_ms",
   "default_max_header_fields", "tls", "tls_session_tickets", "tls_session_cache",
   "wake_pipe_mode", "access_log_enabled", "access_log_format"}
GlobalText ==
  {"tls_cert_file", "tls_key_file", "tls_min_version", "tls_ciphers",
   "tls_ciphersuites", "access_log_path"}
GlobalKeys == GlobalFatal \cup GlobalLenient \cup GlobalText

VhostText ==
  {"bind", "docroot", "tls_cert_file", "tls_key_file", "tls_min_version",
   "tls_ciphers", "tls_ciphersuites"}
VhostRefused == {"port", "max_header_fields"}
VhostLenient ==
  {"tls", "tls_session_tickets", "tls_session_cache", "compression_dynamic",
   "compression_dynamic_max_bytes", "compression_dynamic_min_bytes",
   "compression_dynamic_effort", "index", "auth_basic_file", "auth_realm"}
VhostKeys == VhostText \cup VhostRefused \cup VhostLenient
Features == {"static", "compression", "range", "conditional"}

-----------------------------------------------------------------------------
(* Sections. *)

NoGlobals == [k \in GlobalKeys |-> Unset]
Defaults == [g |-> NoGlobals, vhosts |-> <<>>, route_rules |-> {}, gen |-> 0]
NoContext == [routes |-> <<>>, cap |-> 0]

NewVhost(name, g) ==
  [name |-> name,
   set |-> [k \in VhostKeys |->
              IF k # "max_header_fields" THEN Unset
              ELSE IF g["default_max_header_fields"] # Unset
                   THEN g["default_max_header_fields"] ELSE "100"],
   features |-> {}, auth_enabled |-> FALSE,
   security_headers |-> NoSecurity, cors |-> NoCors, custom_headers |-> <<>>,
   route_rules |-> <<>>, owns |-> {}]

NewRoute(name) ==
  [name |-> name, vhost_name |-> Unset, rule |-> NoRule]

Find(seq, name) == SelectInSeq(seq, LAMBDA s : s.name = name)

\* The candidate with the host of a section, which is there or is appended.
EnsureVhost(name) ==
  IF Find(next.vhosts, name) # 0 THEN next
  ELSE [next EXCEPT !.vhosts = Append(@, NewVhost(name, next.g))]

\* Section names that are too long, and sections that are too many, are fatal.
NoVhost(name) ==
  name = "bad" \/ (Find(next.vhosts, name) = 0 /\ Len(next.vhosts) >= MaxVhosts)

\* The parse buffer doubles until it holds one route more.
GrownCap ==
  LET first == IF pctx.cap > 0 THEN pctx.cap ELSE FirstCap
      double == IF first > Len(pctx.routes) THEN first ELSE 2 * first
  IN IF double > MaxRoutes THEN MaxRoutes ELSE double

MustGrow(name) == Find(pctx.routes, name) = 0 /\ Len(pctx.routes) + 1 > pctx.cap
NoRoute(name) ==
  name = "bad" \/ (Find(pctx.routes, name) = 0 /\ Len(pctx.routes) >= MaxRoutes)

Buffers(cap) ==
  IF cap = 0 THEN {} ELSE {Block("routes", "", cap), Block("rules", "", cap)}

EnsureRoute(name) ==
  IF Find(pctx.routes, name) # 0 THEN pctx
  ELSE [routes |-> Append(pctx.routes, NewRoute(name)),
        cap |-> IF MustGrow(name) THEN GrownCap ELSE pctx.cap]

-----------------------------------------------------------------------------
(* What one line of a section does. *)

ToggleSecurity(sec, val) ==
  IF val = "bad" THEN sec
  ELSE [sec EXCEPT !.enabled = (val = "true"), !.enabled_set = TRUE]

AddSecurityHeader(sec, val) ==
  IF val = "bad" \/ Len(sec.headers) >= MaxHeaders THEN sec
  ELSE [sec EXCEPT !.headers = Append(@, HeaderLine[val]), !.enabled = TRUE]

\* A [route] line whose value is not fatal.
RouteLine(r, key, val) ==
  CASE key = "security_headers" ->
         [r EXCEPT !.rule.security_headers = ToggleSecurity(@, val)]
    [] key = "security_header_set" ->
         [r EXCEPT !.rule.security_headers = AddSecurityHeader(@, val)]
    [] val = "bad" -> r
    [] val # "bad" /\ key = "vhost" -> [r EXCEPT !.vhost_name = val]
    [] val # "bad" /\ key = "path_prefix" -> [r EXCEPT !.rule.path_prefix = Text[val]]
    [] val # "bad" /\ key = "auth" -> [r EXCEPT !.rule.auth_mode = val]
    [] val # "bad" /\ key \in {"max_body_bytes", "inherit_security_headers"} ->
         [r EXCEPT !.rule[key] = val]
    [] val # "bad" /\ key \in CorsKeys -> [r EXCEPT !.rule.cors[key] = val]
    [] OTHER -> r

\* The block a [vhost] line allocates when the host has none yet.
Needs(key) ==
  IF key \in {"security_headers", "security_header_set"} THEN {"security_headers"}
  ELSE IF key \in CorsKeys THEN {"cors"} ELSE {}

Toggle(set, elt, val) == IF val = "true" THEN set \cup {elt} ELSE set \ {elt}

\* A [vhost] line that is not refused; the host already owns what it needs.
VhostLine(vh, key, val) ==
  CASE key = "security_headers" -> [vh EXCEPT !.security_headers = ToggleSecurity(@, val)]
    [] key = "security_header_set" ->
         [vh EXCEPT !.security_headers = AddSecurityHeader(@, val)]
    [] key \in VhostText -> [vh EXCEPT !.set[key] = val]
    [] val = "bad" -> vh
    [] val # "bad" /\ key \in VhostRefused \cup VhostLenient -> [vh EXCEPT !.set[key] = val]
    [] val # "bad" /\ key \in Features -> [vh EXCEPT !.features = Toggle(@, key, val)]
    [] val # "bad" /\ key = "auth" ->
         [vh EXCEPT !.features = Toggle(@, "auth", val), !.auth_enabled = (val = "true")]
    [] val # "bad" /\ key \in CorsKeys ->
         [vh EXCEPT !.cors[key] = val, !.features = @ \cup {"cors"}]
    [] val # "bad" /\ key = "header_set" /\ Len(vh.custom_headers) < MaxHeaders ->
         [vh EXCEPT !.custom_headers = Append(@, HeaderLine[val])]
    [] OTHER -> vh

-----------------------------------------------------------------------------
(* on_kv.  Once ini_fatal is set it returns at once, so the remaining lines *)
(* are read with the end of the file.                                       *)

Reading(line, section) ==
  /\ phase = "parse" /\ ~ini_fatal
  /\ line.section = section
  /\ file' = Append(file, line)
  /\ UNCHANGED parsing

Fatal == ini_fatal' = TRUE /\ rc' = "line" /\ UNCHANGED <<next, pctx>>

OnGlobals(line) ==
  /\ Reading(line, "globals")
  /\ IF line.val = "bad" /\ line.key \in GlobalFatal THEN Fatal
     ELSE /\ next' = IF \/ line.key \notin GlobalKeys
                        \/ line.val = "bad" /\ line.key \in GlobalLenient
                     THEN next
                     ELSE [next EXCEPT !.g[line.key] = line.val]
          /\ UNCHANGED <<ini_fatal, rc, pctx>>
  /\ UNCHANGED heap

\* ok: the two allocations of ensure_route_capacity, if it makes them, succeed.
OnRoute(line, ok) ==
  /\ Reading(line, "route")
  /\ ok \/ (MustGrow(line.name) /\ ~NoRoute(line.name))
  /\ IF NoRoute(line.name) \/ ~ok
     THEN Fatal /\ UNCHANGED heap
     ELSE LET grown == EnsureRoute(line.name)
              i == Find(grown.routes, line.name)
              fatal == line.val = "bad" /\ line.key \in {"auth", "max_body_bytes"}
          IN /\ pctx' = IF fatal THEN grown
                        ELSE [grown EXCEPT !.routes[i] = RouteLine(@, line.key, line.val)]
             /\ heap' = (heap \ Buffers(pctx.cap)) \cup Buffers(grown.cap)
             /\ ini_fatal' = fatal
             /\ rc' = IF fatal THEN "line" ELSE rc
             /\ UNCHANGED next

\* ok: the allocation of the policy or of the header line succeeds.
OnVhost(line, ok) ==
  /\ Reading(line, "vhost")
  /\ IF NoVhost(line.name) THEN ok /\ Fatal /\ UNCHANGED heap
     ELSE LET there == EnsureVhost(line.name)
              i == Find(there.vhosts, line.name)
              vh == there.vhosts[i]
              new == Needs(line.key) \ vh.owns
              made == [vh EXCEPT !.owns = @ \cup new]
              done == VhostLine(made, line.key, line.val)
              added == Len(done.custom_headers) > Len(vh.custom_headers)
          IN /\ ok \/ new # {} \/ added
             /\ next' = [there EXCEPT !.vhosts[i] = IF ok THEN done ELSE vh]
             /\ heap' = IF ~ok THEN heap
                        ELSE heap \cup {Block(k, line.name, 0) : k \in new}
                             \cup IF added THEN {Block("header", line.name,
                                                       Len(done.custom_headers))} ELSE {}
             /\ ini_fatal' = (~ok /\ new # {})
             /\ rc' = IF ini_fatal' \/ (line.val = "bad" /\ line.key \in VhostRefused)
                      THEN "line" ELSE rc
             /\ UNCHANGED pctx

-----------------------------------------------------------------------------
(* config_load_ini before and after the parser. *)

Returned(r) ==
  /\ phase' = "idle" /\ result' = r
  /\ next' = Defaults /\ pctx' = NoContext /\ file' = <<>> /\ at' = 0
  /\ UNCHANGED <<source, loads>>

\* failed: the allocation that fails, if one does.
BeginLoad(failed) ==
  /\ phase = "idle" /\ loads < source.loads
  /\ loads' = loads + 1
  /\ failed = "none" \/ source.oom
  /\ ini_fatal' = FALSE /\ rc' = "ok"
  /\ IF failed = "none"
     THEN /\ phase' = "parse" /\ next' = [Defaults EXCEPT !.gen = loads']
          /\ heap' = heap \cup {<<loads', "next", "", 0>>, <<loads', "pctx", "", 0>>}
          /\ UNCHANGED result
     ELSE result' = "failed" /\ UNCHANGED <<phase, next, heap>>
  /\ UNCHANGED <<source, file, pctx, at, cfg, applied>>

Goto(p) ==
  /\ phase' = p
  /\ UNCHANGED <<source, file, ini_fatal, rc, pctx, cfg, applied, result, loads>>

EndOfFile ==
  /\ phase = "parse"
  /\ Goto(IF ini_fatal \/ rc # "ok" THEN "fail" ELSE "validate")
  /\ UNCHANGED <<next, at, heap>>

WildcardBind(b) == b \in {Unset, "*"}

\* The vhost key, else the global one.
Effective(vh, key) == IF vh.set[key] # Unset THEN vh.set[key] ELSE next.g[key]

StarWithCredentials(c) ==
  /\ c["cors"] = "true" /\ c["cors_allow_credentials"] = "true"
  /\ c["cors_allow_origin"] = "*"

\* Binds to numeric addresses, then the checks on each host alone.
Validate ==
  LET vhosts == next.vhosts
      numeric(vh) == IF WildcardBind(vh.set["bind"]) THEN vh
                     ELSE [vh EXCEPT !.set["bind"] = Numeric[@]]
      unresolved == \E i \in DOMAIN vhosts :
                      /\ ~WildcardBind(vhosts[i].set["bind"])
                      /\ vhosts[i].set["bind"] \notin DOMAIN Numeric
      invalid(vh) == \/ /\ Effective(vh, "tls") = "true"
                        /\ \E k \in {"tls_cert_file", "tls_key_file"} :
                             Effective(vh, k) = Unset
                     \/ StarWithCredentials(vh.cors)
  IN /\ phase = "validate"
     /\ IF unresolved THEN Goto("fail") /\ UNCHANGED next
        ELSE /\ next' = [next EXCEPT !.vhosts = [i \in DOMAIN vhosts |-> numeric(vhosts[i])]]
             /\ Goto(IF \E i \in DOMAIN vhosts : invalid(vhosts[i])
                     THEN "fail" ELSE "resolve")
     /\ UNCHANGED <<at, heap>>

-----------------------------------------------------------------------------
(* config_resolve_routes. *)

HostOf(r) == Find(next.vhosts, r.vhost_name)

MovesBehindByOrder(prev, key) == prev > key
\* Whether the route at position prev of a host's list moves behind the one
\* being inserted: positions in pctx.routes are the declaration ordinals.
MovesBehind(prev, key) ==
  LET plen == Len(pctx.routes[prev].rule.path_prefix)
      klen == Len(pctx.routes[key].rule.path_prefix)
  IN plen < klen \/ (plen = klen /\ prev > key)

InsertRoute(sorted, key) ==
  LET stays == {p \in DOMAIN sorted : ~MovesBehind(sorted[p], key)}
  IN InsertAt(sorted, Max({0} \cup stays) + 1, key)

\* The declaration ordinals of a host's routes, sorted.
RouteIndex(h) ==
  FoldLeft(InsertRoute, <<>>,
           SelectSeq([i \in DOMAIN pctx.routes |-> i],
                     LAMBDA i : HostOf(pctx.routes[i]) = h))

HasCorsPolicy(rule) == \E k \in CorsKeys : rule.cors[k] # Unset

Attached(h) ==
  LET rules == [j \in DOMAIN RouteIndex(h) |-> pctx.routes[RouteIndex(h)[j]].rule]
      all == Range(rules)
  IN [next.vhosts[h] EXCEPT
        !.route_rules = rules,
        !.owns = @ \cup (IF rules = <<>> THEN {} ELSE {"route_rules"}),
        !.features = @ \cup (IF \E r \in all : r.auth_mode = "require" THEN {"auth"} ELSE {})
                       \cup (IF \E r \in all : HasCorsPolicy(r) THEN {"cors"} ELSE {})]

RouteInvalidAlone(r) ==
  \/ r.vhost_name = Unset \/ r.rule.path_prefix = <<>>
  \/ Head(r.rule.path_prefix) # "/"
  \/ HostOf(r) = 0
  \/ StarWithCredentials(r.rule.cors)
RouteInvalid(r) ==
  \/ r.vhost_name = Unset \/ r.rule.path_prefix = <<>>
  \/ Head(r.rule.path_prefix) # "/"
  \/ HostOf(r) = 0
  \/ StarWithCredentials(EffectiveCors(next.vhosts[HostOf(r)], r.rule))

\* granted: how many of the allocations succeed, in the order index, resolved
\* rules, one list per host with routes.
ResolveRoutes(granted) ==
  LET routes == pctx.routes
      early == IF routes = <<>> THEN 1 ELSE 2
      listed == {h \in DOMAIN next.vhosts : \E i \in DOMAIN routes : HostOf(routes[i]) = h}
      total == early + Cardinality(listed)
      done == {h \in listed : Cardinality({g \in listed : g <= h}) + early <= granted}
  IN /\ phase = "resolve"
     /\ granted \in (IF source.oom THEN 0..total ELSE {total})
     /\ IF granted < early \/ \E i \in DOMAIN routes : RouteInvalid(routes[i])
        THEN Goto("fail") /\ UNCHANGED <<next, at, heap>>
        ELSE /\ next' = [next EXCEPT
                   !.vhosts = [h \in DOMAIN @ |->
                                 IF h \in done \/ h \notin listed THEN Attached(h) ELSE @[h]],
                   !.route_rules = IF routes = <<>> THEN {} ELSE {"resolved"}]
             /\ heap' = heap \cup {Block("route_rules", next.vhosts[h].name, 0) : h \in done}
                             \cup {Block(k, "", 0) : k \in next'.route_rules}
             /\ Goto(IF granted < total THEN "fail" ELSE "open")
             /\ at' = 1

-----------------------------------------------------------------------------
(* Opening, committing, dropping. *)

\* One host: its document root opens or not, its credentials load or not.
OpenVhost(opens, usable) ==
  LET vh == next.vhosts[at]
      root == IF vh.set["docroot"] # Unset /\ opens THEN {"docroot_fd"} ELSE {}
      wanted == vh.set["auth_basic_file"] # Unset /\ "auth" \in vh.features
      store == IF wanted /\ usable THEN {"auth_store"} ELSE {}
  IN /\ phase = "open" /\ at <= Len(next.vhosts)
     /\ opens \/ vh.set["docroot"] # Unset
     /\ usable \/ wanted
     /\ next' = [next EXCEPT !.vhosts[at].owns = @ \cup root \cup store]
     /\ heap' = heap \cup {Block(k, vh.name, 0) : k \in root \cup store}
     /\ at' = at + 1
     /\ Goto(IF wanted /\ ~usable THEN "fail" ELSE "open")

CheckRequire ==
  /\ phase = "open" /\ at > Len(next.vhosts)
  /\ Goto(IF \E i \in DOMAIN next.vhosts :
              /\ "auth_store" \notin next.vhosts[i].owns
              /\ \E j \in DOMAIN next.vhosts[i].route_rules :
                   next.vhosts[i].route_rules[j].auth_mode = "require"
          THEN "fail" ELSE "commit")
  /\ UNCHANGED <<next, at, heap>>

RuntimeStateNoRules(c) ==
  UNION {{<<c.gen, k, vh.name, 0>> : k \in vh.owns}
         \cup {<<c.gen, "header", vh.name, n>> : n \in 1..Len(vh.custom_headers)}
         : vh \in Range(c.vhosts)}
\* What cleanup_vhost_runtime_state closes and frees.
RuntimeState(c) ==
  UNION {{<<c.gen, k, vh.name, 0>> : k \in vh.owns}
         \cup {<<c.gen, "header", vh.name, n>> : n \in 1..Len(vh.custom_headers)}
         : vh \in Range(c.vhosts)}
  \cup {<<c.gen, k, "", 0>> : k \in c.route_rules}

ParserState == Buffers(pctx.cap) \cup {Block("pctx", "", 0), Block("next", "", 0)}

Commit ==
  /\ phase = "commit"
  /\ heap' = heap \ (RuntimeState(cfg) \cup ParserState)
  /\ cfg' = next /\ applied' = file
  /\ Returned("ok") /\ UNCHANGED <<ini_fatal, rc>>

FailInPlace ==
  /\ phase = "fail"
  /\ heap' = heap \ (RuntimeState(cfg) \cup ParserState)
  /\ cfg' = next
  /\ Returned("failed") /\ UNCHANGED <<ini_fatal, rc, applied>>
Fail ==
  /\ phase = "fail"
  /\ heap' = heap \ (RuntimeState(next) \cup ParserState)
  /\ Returned("failed") /\ UNCHANGED <<ini_fatal, rc, cfg, applied>>

\* What main does with the configuration before it returns.
CleanupLoadedConfig ==
  /\ phase = "idle" /\ loads > 0
  /\ phase' = "exited"
  /\ heap' = heap \ RuntimeState(cfg)
  /\ cfg' = [cfg EXCEPT !.route_rules = {},
                        !.vhosts = [i \in DOMAIN @ |-> [@[i] EXCEPT !.owns = {},
                                      !.custom_headers = <<>>, !.route_rules = <<>>,
                                      !.cors = NoCors, !.security_headers = NoSecurity]]]
  /\ UNCHANGED <<source, file, ini_fatal, rc, next, pctx, at, applied, result, loads>>

\* vhost_for_fd: the hosts, none or one, that answer on a socket.
VhostForFd(sock) ==
  LET on(i) == cfg.vhosts[i].set["port"] = sock.port
      bind(i) == cfg.vhosts[i].set["bind"]
      exact == {i \in DOMAIN cfg.vhosts :
                  /\ on(i) /\ ~WildcardBind(bind(i))
                  /\ Address[bind(i)].addr = sock.addr
                  /\ sock.addr \in LinkLocal => Address[bind(i)].zone = sock.scope}
      wild == {i \in DOMAIN cfg.vhosts : on(i) /\ WildcardBind(bind(i))}
  IN {cfg.vhosts[i] : i \in IF exact # {} THEN {Min(exact)}
                            ELSE IF wild # {} THEN {Min(wild)} ELSE {}}

-----------------------------------------------------------------------------

Init ==
  /\ source \in Sources
  /\ phase = "idle" /\ file = <<>> /\ ini_fatal = FALSE /\ rc = "ok"
  /\ next = Defaults /\ pctx = NoContext /\ at = 0
  /\ cfg = Defaults /\ applied = <<>> /\ result = "none" /\ loads = 0
  /\ heap = {}

\* The lines that can come next: a source's first lines, then up to more
\* others (named bound).
NextLines ==
  IF Len(file) < Len(source.first) THEN {source.first[Len(file) + 1]}
  ELSE IF Len(file) < Len(source.first) + source.more THEN source.lines ELSE {}

Next ==
  \/ \E failed \in {"none", "next", "pctx"} : BeginLoad(failed)
  \/ \E line \in NextLines : OnGlobals(line)
  \/ \E line \in NextLines, ok \in Outcomes : OnRoute(line, ok)
  \/ \E line \in NextLines, ok \in Outcomes : OnVhost(line, ok)
  \/ EndOfFile
  \/ Validate
  \/ \E granted \in 0..(2 + MaxVhosts) : ResolveRoutes(granted)
  \/ \E opens, usable \in BOOLEAN : OpenVhost(opens, usable)
  \/ CheckRequire
  \/ Commit
  \/ Fail
  \/ CleanupLoadedConfig

Spec == Init /\ [][Next]_vars

-----------------------------------------------------------------------------
(* Properties. *)

Flow == <<"idle", "parse", "validate", "resolve", "open", "commit", "fail", "exited">>

TypeOK ==
  /\ source \in Sources
  /\ \A s \in Sources :
       DOMAIN s = {"first", "lines", "more", "loads", "oom"} /\ s.oom \in BOOLEAN
  /\ phase \in Range(Flow) /\ result \in {"none", "ok", "failed"}
  /\ ini_fatal \in BOOLEAN /\ rc \in {"ok", "line"}
  /\ Len(next.vhosts) <= MaxVhosts /\ Len(pctx.routes) <= pctx.cap /\ pctx.cap <= MaxRoutes

\* What a configuration points at.
Referenced(c) ==
  UNION {{<<c.gen, k, vh.name, 0>> : k \in vh.owns} : vh \in Range(c.vhosts)}
  \cup UNION {{<<c.gen, "header", vh.name, n>> : n \in DOMAIN vh.custom_headers}
              : vh \in Range(c.vhosts)}
  \cup (IF c.route_rules = {} THEN {} ELSE {<<c.gen, "resolved", "", 0>>})

\* The configuration in use never points at memory or a descriptor that has
\* been freed, whatever a load is doing or failed at, and between loads
\* nothing else is allocated: every early return and goto fail of
\* config_load_ini gives back what it took.
HeapExact ==
  /\ Referenced(cfg) \subseteq heap
  /\ phase \in {"idle", "exited"} => heap = Referenced(cfg)
  /\ phase = "exited" => heap = {}

\* "Build candidate configuration off to the side and commit only on success":
\* a step changes the configuration in use only when it makes the load return
\* 0, so a load refused at any stage leaves the old one as it was.
LoadIsAtomic ==
  [][cfg' # cfg => \/ phase' = "idle" /\ result' = "ok" /\ cfg' = next
                   \/ phase' = "exited"]_vars

Lines(section, name, key) ==
  SelectSeq(applied, LAMBDA l : /\ l.section = section /\ l.name = name
                                /\ l.key = key /\ l.val # "bad")

\* The value a file gives a key: that of the last line that is not refused.
Written(section, name, key) ==
  LET ls == Lines(section, name, key) IN IF ls = <<>> THEN Unset ELSE Last(ls).val

\* The route the documentation says a path belongs to: the longest of the
\* host's prefixes that match, the first declared among equals.
MeantRoute(host, path) ==
  LET declared(r) == SelectInSeq(applied, LAMBDA l : l.section = "route" /\ l.name = r)
      prefix(r) == Text[Written("route", r, "path_prefix")]
      hits == {r \in {l.name : l \in {l \in Range(applied) : l.section = "route"}} :
                 /\ Written("route", r, "vhost") = host
                 /\ PathPrefixMatches(path, prefix(r))}
      best == {r \in hits : \A o \in hits :
                 \/ Len(prefix(o)) < Len(prefix(r))
                 \/ Len(prefix(o)) = Len(prefix(r)) /\ declared(r) <= declared(o)}
  IN IF hits = {} THEN Unset ELSE CHOOSE r \in best : TRUE

\* The host the documentation says answers on a socket: one bound to that
\* address, else one bound to all; the first declared of several.
MeantHost(sock) ==
  LET named == SelectSeq(applied, LAMBDA l : l.section = "vhost")
      on(h) == Written("vhost", h, "port") = sock.port
      bind(h) == Written("vhost", h, "bind")
      bound(h) == /\ ~WildcardBind(bind(h)) /\ Address[Numeric[bind(h)]].addr = sock.addr
                  /\ \/ sock.addr \notin LinkLocal
                     \/ Address[Numeric[bind(h)]].zone = sock.scope
      exact == SelectSeq(named, LAMBDA l : on(l.name) /\ bound(l.name))
      wild == SelectSeq(named, LAMBDA l : on(l.name) /\ WildcardBind(bind(l.name)))
  IN Head(exact \o wild).name

\* Whether the file asks for credentials at a path of a host.
Protected(host, path) ==
  LET route == MeantRoute(host, path)
      mode == IF route = Unset THEN Unset ELSE Written("route", route, "auth")
  IN CASE mode = "require" -> TRUE
       [] mode = "disable" -> FALSE
       [] OTHER -> /\ Written("vhost", host, "auth") = "true"
                   /\ Written("vhost", host, "auth_basic_file") # Unset

InUse == phase = "idle" /\ result = "ok"

Requests(path) ==
  {[method |-> "GET", path |-> path, headers |-> hdrs, credentials |-> c, file |-> "opens"]
     : hdrs \in {{}, {"authorization"}}, c \in {"right", "wrong"}}

\* Credentials are asked for exactly where the file says so: on a socket of
\* the host the file binds to it, at a protected
\* path a request without the right ones gets a 401 (or the 500 of headers
\* that do not fit), and any other request is let through.  The code keeps
\* the decision in three places (auth_enabled, the feature bit, the store)
\* that vhost and route lines set in any order.
AccessAsConfigured ==
  InUse =>
    \A sock \in Sockets, path \in Paths :
      \A vh \in VhostForFd(sock) :
        \A guarded \in {Protected(MeantHost(sock), path)}, req \in Requests(path) :
          LET status == DispatchOk(vh, req)
              refused == /\ guarded
                         /\ ~("authorization" \in req.headers /\ req.credentials = "right")
          IN IF refused THEN status = IF ExtraHeadersFail(vh, path) THEN "500" ELSE "401"
             ELSE status # "401"

\* Where a header line of this name comes from for a path: typed CORS, then
\* the route's security headers, then the host's, then its header_set lines.
MeantHeader(vh, path, name) ==
  LET rr == ResolveRouteRule(vh, path)
      off == rr.security_headers.enabled_set /\ ~rr.security_headers.enabled
      named(hs) == SelectSeq(hs, LAMBDA h : h.name = name)
      cors == named(CorsHeaders(EffectiveCors(vh, rr)))
      route == IF off THEN <<>> ELSE named(rr.security_headers.headers)
      host == IF \/ off \/ ~vh.security_headers.enabled
                 \/ rr.inherit_security_headers = "false"
              THEN <<>> ELSE named(vh.security_headers.headers)
      custom == named(vh.custom_headers)
  IN IF cors # <<>> THEN {Last(cors)}
     ELSE IF route # <<>> THEN {Last(route)}
     ELSE IF host # <<>> THEN {Last(host)}
     ELSE IF custom # <<>> THEN {Head(custom)} ELSE {}

\* "route > vhost > built-in default": a response carries each header name at
\* most once, with the value of the highest level that sets it, whatever the
\* order the levels were written and collected in.
HeadersByPrecedence ==
  InUse =>
    \A vh \in Range(cfg.vhosts), path \in Paths :
      \A ctx \in {CollectHeaders(vh, path)} :
        LET names == {h.name : h \in Range(HeaderLine) \cup Range(ctx.hdrs)}
        IN ~ctx.overflow =>
             \A n \in names :
               /\ Cardinality({i \in DOMAIN ctx.hdrs : ctx.hdrs[i].name = n}) <= 1
               /\ {h \in Range(ctx.hdrs) : h.name = n} = MeantHeader(vh, path, n)

\* "cors_allow_origin = * cannot be combined with cors_allow_credentials":
\* no path of an accepted configuration gets both, although origin and
\* credentials can come from different sections that are never looked at
\* together until a request picks its route.
NoWildcardWithCredentials ==
  InUse =>
    \A vh \in Range(cfg.vhosts), path \in Paths \cup {<<>>} :
      LET hdrs == Range(CorsHeaders(EffectiveCors(vh, ResolveRouteRule(vh, path))))
      IN ~(/\ [name |-> "Allow-Origin", value |-> "*"] \in hdrs
           /\ [name |-> "Allow-Credentials", value |-> "true"] \in hdrs)

\* "CORS preflight (OPTIONS) is supported when effective CORS is enabled and
\* required preflight request headers are present": the policy meant is that
\* of the route the path belongs to.
PreflightAsConfigured ==
  InUse =>
    \A vh \in Range(cfg.vhosts), path \in Paths :
      LET rr == ResolveRouteRule(vh, path)
          c == EffectiveCors(vh, rr)
          req == [method |-> "OPTIONS", path |-> path, credentials |-> "wrong",
                  headers |-> {"origin", "access-control-request-method"},
                  file |-> "opens"]
      IN c["cors"] = "true" /\ c["cors_allow_origin"] # Unset
           => DispatchOk(vh, req) = "204"

=============================================================================
