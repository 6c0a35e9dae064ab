----------------------------- MODULE RoutePolicy -----------------------------
(***************************************************************************)
(* How a parsed request is answered by the virtual host it came to: which  *)
(* route rule applies, which CORS policy and response headers follow from  *)
(* it (policy_headers_shared.h), whether credentials are asked for         *)
(* (request_handlers.c, auth.c) and in which order request_dispatch_ok     *)
(* tries preflight, authentication, static files and the terminal status.  *)
(*                                                                         *)
(* A path is a sequence of characters, <<>> being the NULL of path_norm.   *)
(* vh.owns names the pointers and descriptors of a host that are set.      *)
(* A setting that is absent is Unset; switches are "true" and "false".     *)
(***************************************************************************)
EXTENDS SequencesExt

CONSTANTS
  HdrMax,      \* POLICY_SHARED_HDR_MAX: header lines a policy context holds
  ExtraCap     \* header lines that fit the 1024 bytes of an extra-header block

Unset == "unset"

\* The fields of struct cors_policy, each with its _set flag.
CorsKeys == {"cors", "cors_allow_origin", "cors_allow_methods", "cors_allow_headers",
             "cors_allow_credentials", "cors_max_age_seconds"}
NoCors == [k \in CorsKeys |-> Unset]

NoSecurity == [enabled |-> FALSE, enabled_set |-> FALSE, headers |-> <<>>]

\* A rule as memset leaves it; it also stands for the absence of a rule, which
\* every function below treats the same way.
NoRule ==
  [path_prefix |-> <<>>, auth_mode |-> "inherit", max_body_bytes |-> Unset,
   inherit_security_headers |-> Unset, security_headers |-> NoSecurity, cors |-> NoCors]

-----------------------------------------------------------------------------
(* Route resolution. *)

PathPrefixMatches(path, prefix) ==
  /\ prefix # <<>> /\ path # <<>>
  /\ IF prefix = <<"/">>
     THEN path[1] = "/"
     ELSE /\ IsPrefix(prefix, path)
          /\ \/ Len(path) = Len(prefix)
             \/ Last(prefix) = "/"
             \/ path[Len(prefix) + 1] = "/"

\* The first rule of the host's list that matches.
ResolveRouteRule(vh, path) ==
  LET hits == {i \in DOMAIN vh.route_rules :
                 PathPrefixMatches(path, vh.route_rules[i].path_prefix)}
  IN IF hits = {} THEN NoRule ELSE vh.route_rules[Min(hits)]

EffectiveCors(vh, rr) ==
  [k \in CorsKeys |-> IF rr.cors[k] # Unset THEN rr.cors[k] ELSE vh.cors[k]]

-----------------------------------------------------------------------------
(* The header lines a response carries. *)

Given(cond, name, value) == IF cond THEN <<[name |-> name, value |-> value]>> ELSE <<>>

CorsHeaders(c) ==
  IF c["cors"] # "true" THEN <<>>
  ELSE Given(c["cors_allow_origin"] # Unset, "Allow-Origin", c["cors_allow_origin"])
       \o Given(c["cors_allow_origin"] \notin {Unset, "*"}, "Vary", "Origin")
       \o Given(c["cors_allow_methods"] # Unset, "Allow-Methods", c["cors_allow_methods"])
       \o Given(c["cors_allow_headers"] # Unset, "Allow-Headers", c["cors_allow_headers"])
       \o Given(c["cors_allow_credentials"] = "true", "Allow-Credentials", "true")
       \o Given(c["cors_max_age_seconds"] \notin {Unset, "0"}, "Max-Age",
                c["cors_max_age_seconds"])

\* Position of a header of that name in the context, or 0.
HeaderFind(ctx, name) == SelectInSeq(ctx.hdrs, LAMBDA h : h.name = name)

\* A later typed header replaces the earlier line of its name.
HeaderUpsert(ctx, h) ==
  LET i == HeaderFind(ctx, h.name)
  IN IF i # 0 THEN [ctx EXCEPT !.hdrs[i] = h]
     ELSE IF Len(ctx.hdrs) >= HdrMax THEN [ctx EXCEPT !.overflow = TRUE]
     ELSE [ctx EXCEPT !.hdrs = Append(@, h)]

AppendCustom(ctx, h) ==
  IF Len(ctx.hdrs) >= HdrMax THEN [ctx EXCEPT !.overflow = TRUE]
  ELSE [ctx EXCEPT !.hdrs = Append(@, h)]
\* A custom line never replaces a typed one.
AppendCustomIfUnique(ctx, h) ==
  IF Len(ctx.hdrs) >= HdrMax THEN [ctx EXCEPT !.overflow = TRUE]
  ELSE IF HeaderFind(ctx, h.name) # 0 THEN ctx
  ELSE [ctx EXCEPT !.hdrs = Append(@, h)]

CollectHeaders(vh, path) ==
  LET rr == ResolveRouteRule(vh, path)
      sec == rr.security_headers
      inherited == IF rr.inherit_security_headers # "false" /\ vh.security_headers.enabled
                   THEN vh.security_headers.headers ELSE <<>>
      base == FoldLeft(HeaderUpsert, [hdrs |-> <<>>, overflow |-> FALSE], inherited)
      routed == IF sec.enabled_set /\ ~sec.enabled THEN [base EXCEPT !.hdrs = <<>>]
                ELSE FoldLeft(HeaderUpsert, base, sec.headers)
      cors == FoldLeft(HeaderUpsert, routed, CorsHeaders(EffectiveCors(vh, rr)))
  IN FoldLeft(AppendCustomIfUnique, cors, vh.custom_headers)

\* The block of extra headers of an error response, or the failure that turns
\* the response into a 500.
ExtraHeadersFail(vh, path) ==
  LET ctx == CollectHeaders(vh, path) IN ctx.overflow \/ Len(ctx.hdrs) > ExtraCap

-----------------------------------------------------------------------------
(* What the parser keeps of a request. *)

\* Request headers stored for a host with these features.
StoreMask(features) ==
  {"host", "connection"}
  \cup (IF "compression" \in features THEN {"accept-encoding"} ELSE {})
  \cup (IF "range" \in features THEN {"range", "if-range"} ELSE {})
  \cup (IF "conditional" \in features THEN {"if-modified-since", "if-none-match"} ELSE {})
  \cup (IF "auth" \in features THEN {"authorization", "cookie"} ELSE {})
  \cup (IF "cors" \in features
        THEN {"origin", "access-control-request-method", "access-control-request-headers"}
        ELSE {})

\* on_headers_complete stops before the path for every other method.
PathNorm(req) == IF req.method \in {"GET", "HEAD"} THEN req.path ELSE <<>>

Stored(vh, req, hdr) == hdr \in StoreMask(vh.features) /\ hdr \in req.headers

-----------------------------------------------------------------------------
(* Authentication. *)

\* auth_basic_check: 0 is "allow", 1 is "401", -1 is "500".
BasicCheck(vh, req) ==
  IF "auth_store" \notin vh.owns THEN "allow"
  ELSE IF Stored(vh, req, "authorization") /\ req.credentials = "right" THEN "allow"
  ELSE IF ExtraHeadersFail(vh, PathNorm(req)) THEN "500"
  ELSE "401"

CheckEffectiveAuth(vh, req) ==
  LET mode == ResolveRouteRule(vh, PathNorm(req)).auth_mode
  IN IF mode = "disable" THEN "allow"
     ELSE IF mode = "require" /\ "auth_store" \notin vh.owns THEN "500"
     ELSE IF mode = "inherit" /\ ~vh.auth_enabled THEN "allow"
     ELSE BasicCheck(vh, req)

-----------------------------------------------------------------------------
(* Dispatch. *)

\* request_try_cors_preflight: "no" is 0.
TryCorsPreflight(vh, req) ==
  LET c == EffectiveCors(vh, ResolveRouteRule(vh, PathNorm(req)))
  IN IF \/ req.method # "OPTIONS" \/ c["cors"] # "true"
        \/ ~Stored(vh, req, "origin")
        \/ ~Stored(vh, req, "access-control-request-method")
     THEN "no"
     ELSE IF c["cors_allow_origin"] = Unset THEN "500" ELSE "204"

TryStatic(vh, req) ==
  /\ req.method \in {"GET", "HEAD"}
  /\ "static" \in vh.features /\ "docroot_fd" \in vh.owns
  /\ PathNorm(req) # <<>>

\* stage_header_response_send: policy headers that do not fit make it a 500.
HeaderResponse(vh, req, status) ==
  IF ExtraHeadersFail(vh, PathNorm(req)) THEN "500" ELSE status

DispatchOk(vh, req) ==
  LET preflight == TryCorsPreflight(vh, req)
      auth == CheckEffectiveAuth(vh, req)
  IN CASE preflight = "204" -> "204"
       [] preflight = "500" -> HeaderResponse(vh, req, "500")
       [] preflight = "no" /\ auth = "401" -> "401"
       [] preflight = "no" /\ auth = "500" -> HeaderResponse(vh, req, "500")
       [] preflight = "no" /\ auth = "allow" ->
            IF req.method \notin {"GET", "HEAD"} THEN HeaderResponse(vh, req, "405")
            ELSE IF ~TryStatic(vh, req) THEN HeaderResponse(vh, req, "404")
            ELSE IF req.file # "opens" THEN HeaderResponse(vh, req, req.file)
            ELSE IF CollectHeaders(vh, PathNorm(req)).overflow THEN "500" ELSE "200"

=============================================================================
