---------------------------- MODULE ConfigSources ----------------------------
(***************************************************************************)
(* Configuration files for small instances of Config.  A source has first  *)
(* lines that every file begins with and lines of which up to more follow  *)
(* in any order; the process loads up to loads files of it.                *)
(***************************************************************************)
EXTENDS Sequences

L(s, n, k, v) == [section |-> s, name |-> n, key |-> k, val |-> v]
V(k, v) == L("vhost", "v", k, v)
W(k, v) == L("vhost", "w", k, v)
R(n, k, v) == L("route", n, k, v)

MCText == [root |-> <<"/">>, a |-> <<"/", "a">>, ab |-> <<"/", "a", "/", "b">>]
MCPaths == {<<"/">>, <<"/", "a">>, <<"/", "a", "b">>, <<"/", "a", "/", "b">>}
MCHeaderLine == [x1 |-> [name |-> "X", value |-> "1"], x2 |-> [name |-> "X", value |-> "2"],
                 y1 |-> [name |-> "Y", value |-> "1"], y2 |-> [name |-> "Y", value |-> "2"]]
MCNumeric == [localhost |-> "lo", lo |-> "lo", ll1 |-> "ll1", ll |-> "ll"]
MCAddress == [lo |-> [addr |-> "lo", zone |-> ""], ll1 |-> [addr |-> "ll", zone |-> "1"],
              ll |-> [addr |-> "ll", zone |-> ""]]
MCSockets == [addr : {"lo", "ll"}, scope : {"1"}, port : {"80"}]

Src(first, lines, more, n, oom) ==
  [first |-> first, lines |-> lines, more |-> more, loads |-> n, oom |-> oom]

Host == <<V("static", "true"), V("docroot", "d"), V("port", "80")>>
Routes == <<R("r", "vhost", "v"), R("r", "path_prefix", "a"), R("s", "vhost", "v")>>

\* Who may enter: host and routes switch authentication in any order.
Auth ==
  Src(Routes \o Host,
      {V("auth", "true"), V("auth", "false"), V("auth_basic_file", "f")}
      \cup {R("r", "auth", m) : m \in {"require", "disable", "bad"}}
      \cup {R("s", "auth", m) : m \in {"require", "disable"}}
      \cup {R("s", "path_prefix", p) : p \in {"root", "a", "ab"}}, 4, 1, FALSE)

\* CORS split between a host and two routes.
Cors ==
  Src(Host \o Routes \o <<R("s", "path_prefix", "ab")>>,
      {V("cors", "true"), V("cors_allow_origin", "*"), V("cors_allow_credentials", "true"),
       V("cors_allow_credentials", "bad"), R("r", "cors", "true"), R("r", "cors", "false"),
       R("r", "cors_allow_origin", "*"), R("r", "cors_allow_origin", "o"),
       R("s", "cors_allow_credentials", "true"), R("s", "cors_max_age_seconds", "9")},
      3, 1, FALSE)

\* Header lines of all levels, up to and beyond what fits.
Headers ==
  Src(Host \o Routes \o <<R("s", "path_prefix", "ab"), V("cors", "true")>>,
      {V("security_header_set", "x1"), V("security_headers", "false"),
       V("header_set", "x2"), V("header_set", "y1"), R("r", "security_header_set", "x2"),
       R("r", "security_header_set", "y2"), R("r", "security_headers", "false"),
       R("r", "inherit_security_headers", "false"), V("cors_allow_origin", "o")}, 3, 1, FALSE)

\* Two hosts and their addresses.
Hosts ==
  Src(<<V("port", "80")>> \o <<W("port", "80"), W("auth", "true"), W("auth_basic_file", "f")>>,
      {V("bind", b) : b \in {"*", "localhost", "ll1", "nowhere"}}
      \cup {W("bind", b) : b \in {"lo", "ll"}} \cup {W("port", "81"), V("port", "bad")},
      3, 1, FALSE)

\* Loads over loads, with every allocation failing.
Loads ==
  Src(<<V("docroot", "d"), V("header_set", "x1"), V("cors", "true"), R("r", "vhost", "v"),
        R("r", "path_prefix", "a")>>,
      {V("security_headers", "bad"), V("tls", "true"), R("s", "vhost", "v"),
       R("r", "auth", "require"), V("auth_basic_file", "f"), W("static", "true"),
       L("vhost", "x", "static", "true"), L("vhost", "bad", "static", "true"),
       R("t", "vhost", "v"), R("bad", "vhost", "v"), L("globals", "", "workers", "bad")},
      2, 2, TRUE)

MCSources == {Auth, Cors, Headers, Hosts, Loads}
=============================================================================
