----------------------------- MODULE MCService -----------------------------
(***************************************************************************)
(* What a request is served from, one part at a time: the configuration,   *)
(* the TLS contexts, the request's headers, path and memory, the files of  *)
(* a document root and, when it was served, the queues of the access log.  *)
(* The parts share no variable; the ones that are not chosen stay at rest. *)
(***************************************************************************)
EXTENDS HttpRange, TlsContexts, ConfigSources

CONSTANTS Chars, MaxLen

VARIABLES
  part,
  disk, size, req, pc, fd, open, fsz, enc, hdr, rr, resp,
  value, br, parsed,                                  \* a Range value and what it is read as
  source, phase, file, ini_fatal, rc, next, pctx, at, cfg, applied, result, loads, heap,
  request, span, h1, complete,
  chunk, list, cache, blocks,
  target, path,
  entries, prod_head, cons_tail, wake, stop, workers, log_writer, main, offered, written, dropped

-----------------------------------------------------------------------------
(* Files: one that is replaced while it is served; reads and headers that  *)
(* fail; and Range values, every one of up to MaxLen characters over Chars *)

\* No range, an open one, a closed one, a suffix.
SomeRanges == {NoRange, Valid(FALSE, 1, UINT64_MAX), Valid(FALSE, 0, 2), Valid(TRUE, 3, 0)}
\* None, and that of a small first file.
SomeTags == {[ino |-> 0, n |-> 0], [ino |-> 1, n |-> 2]}

Replaced == INSTANCE StaticServe WITH
  Sizes <- {0, 2, 4}, SendfileMin <- 3, DynMin <- 2, DynMax <- 4,
  RangeHdrs <- SomeRanges, ClientTags <- SomeTags, MaxChanges <- 1, Faults <- {}
Failing == INSTANCE StaticServe WITH
  Sizes <- {0, 2, 4}, SendfileMin <- 3, DynMin <- 2, DynMax <- 4,
  RangeHdrs <- SomeRanges, ClientTags <- SomeTags, MaxChanges <- 0,
  Faults <- {"read", "headers", "policy", "ce"}

serving == <<disk, size, req, pc, fd, open, fsz, enc, hdr, rr, resp>>
NotServing ==
  /\ disk = [identity |-> 0, br |-> 0, gzip |-> 0] /\ size = <<>> /\ req = <<>> /\ pc = "none"
  /\ fd = 0 /\ open = 0 /\ fsz = 0 /\ enc = "identity" /\ hdr = <<>> /\ rr = Unsatisfiable
  /\ resp = <<>>

ranging == <<value, br, parsed>>
NotRanging == value = <<>> /\ br = NoRange /\ parsed = TRUE
ParseInit ==
  /\ value \in UNION {[1 .. n -> Chars] : n \in 1 .. MaxLen}
  /\ br = NoRange /\ parsed = FALSE
Parse ==
  /\ ~parsed
  /\ br' = http_range_parse(value)
  /\ parsed' = TRUE
  /\ UNCHANGED value

-----------------------------------------------------------------------------
(* The configuration *)

Configured == INSTANCE Config WITH
  Sources <- MCSources, Text <- MCText, Paths <- MCPaths, HeaderLine <- MCHeaderLine,
  Numeric <- MCNumeric, Address <- MCAddress, LinkLocal <- {"ll"}, Sockets <- MCSockets,
  MaxVhosts <- 2, MaxRoutes <- 2, FirstCap <- 1, MaxHeaders <- 2, HdrMax <- 3, ExtraCap <- 2

configuring == <<source, phase, file, ini_fatal, rc, next, pctx, at, cfg, applied, result,
                 loads, heap>>
NotConfiguring ==
  /\ source = <<>> /\ phase = "idle" /\ file = <<>> /\ ini_fatal = FALSE /\ rc = "ok"
  /\ next = <<>> /\ pctx = <<>> /\ at = 0 /\ cfg = <<>> /\ applied = <<>> /\ result = "none"
  /\ loads = 0 /\ heap = {}

-----------------------------------------------------------------------------
(* Headers: stored ones, framing ones, ones that are too long, in requests *)
(* of up to three headers, or four of two names                            *)

Header(n, v) == [name |-> n, value |-> v]
StoredLines == {Header(<<"H", "o">>, <<"a", "H">>), Header(<<"o", "r">>, <<"b">>)}
HeaderLines == StoredLines \union
  {Header(<<"h", "o">>, <<"b", "a", "a", "b">>), Header(<<"h", "o", "o", "o", "o">>, <<"a">>),
   Header(<<"c", "l">>, <<"4", "1">>), Header(<<"c", "l">>, <<" ", "7", " ">>),
   Header(<<"c", "l">>, <<"9", "9">>), Header(<<"t", "e">>, <<"c", "h", ",", "b">>),
   Header(<<"e", "x">>, <<"1", "0">>), Header(<<"e", "x">>, <<"1">>)}
UpTo(n, S) == UNION {[1 .. k -> S] : k \in 0 .. n}
SomeRequests ==
  [target : {<<"/">>, <<"/", "a", "b">>, <<"/", "a", "b", "c", "d", "e">>},
   headers : UpTo(2, HeaderLines)]
  \union [target : {<<"/">>}, headers : UpTo(3, HeaderLines) \union [1 .. 4 -> StoredLines]]

Headed == INSTANCE HeaderList WITH
  at <- span, Requests <- SomeRequests, Stored <- {<<"h", "o">>, <<"o", "r">>},
  NameCap <- 4, LowCap <- 4, RawCap <- 3, TargetMax <- 5, TargetFirst <- 2,
  HdrsMax <- 2, HdrsFirst <- 1, FieldsMax <- 3, MaxNumber <- 50, AllocOutcomes <- BOOLEAN

heading == <<request, span, h1, complete>>
NotHeading == request = <<>> /\ span = <<>> /\ h1 = <<>> /\ complete = FALSE

-----------------------------------------------------------------------------
(* Memory and paths *)

Arena == INSTANCE ReqArena WITH
  Conns <- {"a", "b"}, Chunks <- 1 .. 3, ChunkMin <- 4, RetainMax <- 6, CacheCap <- 1,
  Sizes <- {1, 4, 6}, Aligns <- {1, 2}, MaxBlocks <- 3
allocating == <<chunk, list, cache, blocks>>

\* Dots and slashes; escapes, whole and broken, of dots, slashes and zero bytes.
SomeTargets ==
  {<<47>> \o s : s \in UpTo(7, {47, 46, 97})}
  \union {<<47>> \o s : s \in UpTo(4, {37, 50, 101, 70, 48, 46, 47})}
  \union {<<47, 37, 50, 101>> \o s \o <<47, 97>> : s \in UpTo(3, {37, 50, 101, 46, 47, 63})}
  \union {<<>>, <<97, 47>>, <<63>>}
Located == INSTANCE UrlPath WITH Targets <- SomeTargets, PathMax <- 9, SegCap <- 3
locating == <<target, path>>
NotLocating == target = <<>> /\ path = Located!NotYet

contexts == <<handle, holders, registry, reload, new_ctx, writer, ssl, made, version>>

(* The access log of two workers *)

Logged == INSTANCE AccessLogQueue WITH
  NumWorkers <- 2, Cap <- 3, BatchMax <- 2, MaxLines <- 3, MayFail <- TRUE, writer <- log_writer
logging == <<entries, prod_head, cons_tail, wake, stop, workers, log_writer, main, offered,
             written, dropped>>

ASSUME PartsOK ==
  /\ Replaced!ConstantsOK /\ Failing!ConstantsOK
  /\ Headed!ConstantsOK /\ Arena!ConstantsOK /\ Located!ConstantsOK /\ Logged!ConstantsOK

-----------------------------------------------------------------------------
MCPort == <<443, 443>>

ServiceInit ==
  /\ Init /\ Arena!Init /\ Logged!Init
  /\ \/ /\ part = "replaced" /\ Replaced!Init
        /\ NotRanging /\ NotConfiguring /\ NotHeading /\ NotLocating
     \/ /\ part = "failing" /\ Failing!Init
        /\ NotRanging /\ NotConfiguring /\ NotHeading /\ NotLocating
     \/ /\ part = "range" /\ ParseInit
        /\ NotServing /\ NotConfiguring /\ NotHeading /\ NotLocating
     \/ /\ part = "config" /\ Configured!Init
        /\ NotServing /\ NotRanging /\ NotHeading /\ NotLocating
     \/ /\ part = "headers" /\ Headed!Init
        /\ NotServing /\ NotRanging /\ NotConfiguring /\ NotLocating
     \/ /\ part = "path" /\ Located!Init
        /\ NotServing /\ NotRanging /\ NotConfiguring /\ NotHeading
     \/ /\ part \in {"arena", "contexts", "log"}
        /\ NotServing /\ NotRanging /\ NotConfiguring /\ NotHeading /\ NotLocating

ServiceNext ==
  /\ UNCHANGED part
  /\ \/ /\ part = "replaced" /\ Replaced!Next
        /\ UNCHANGED <<ranging, configuring, heading, allocating, locating, contexts, logging>>
     \/ /\ part = "failing" /\ Failing!Next
        /\ UNCHANGED <<ranging, configuring, heading, allocating, locating, contexts, logging>>
     \/ /\ part = "range" /\ Parse
        /\ UNCHANGED <<serving, configuring, heading, allocating, locating, contexts, logging>>
     \/ /\ part = "config" /\ Configured!Next
        /\ UNCHANGED <<serving, ranging, heading, allocating, locating, contexts, logging>>
     \/ /\ part = "headers" /\ Headed!Next
        /\ UNCHANGED <<serving, ranging, configuring, allocating, locating, contexts, logging>>
     \/ /\ part = "arena" /\ Arena!Next
        /\ UNCHANGED <<serving, ranging, configuring, heading, locating, contexts, logging>>
     \/ /\ part = "path" /\ Located!Next
        /\ UNCHANGED <<serving, ranging, configuring, heading, allocating, contexts, logging>>
     \/ /\ part = "contexts" /\ Next
        /\ UNCHANGED <<serving, ranging, configuring, heading, allocating, locating, logging>>
     \/ /\ part = "log" /\ Logged!Next
        /\ UNCHANGED <<serving, ranging, configuring, heading, allocating, locating, contexts>>

ServiceSpec ==
  ServiceInit /\ [][ServiceNext]_<<part, serving, ranging, configuring, heading, allocating,
                                   locating, contexts, logging>>

-----------------------------------------------------------------------------
Serving(P, Q) == CASE part = "replaced" -> P [] part = "failing" -> Q [] OTHER -> TRUE

\* Every descriptor the handler opened is closed once the response is sent.
DescriptorsClosed == Serving(Replaced!DescriptorsClosed, Failing!DescriptorsClosed)

\* The Content-Encoding of a response is the encoding of its bytes, and a
\* complete 200 carries all of the version its ETag names, also when the file is
\* replaced meanwhile.
BodyAsAnnounced ==
  part = "replaced" => Replaced!EncodingAsAnnounced /\ Replaced!WholeVersion

\* A range that is answered is answered with its bytes, of the version that
\* If-Range asks for, whatever fails.
RangeAsAsked == Serving(Replaced!RangeAsAsked, Failing!RangeAsAsked)

\* http_range_parse accepts exactly the single ranges of the grammar whose
\* numbers fit in 64 bits, after optional spaces, and reads their numbers
\* right; everything else is no range ("Multi-range and syntactically invalid
\* Range values fall back to 200 full response").
ParsesTheGrammar ==
  part = "range" /\ parsed =>
    LET Cuts(p, d) == <<SubSeq(value, p, d - 1), SubSeq(value, d + 1, Len(value))>>
        Splits == {pd \in (1 .. Len(value)) \X (1 .. Len(value)) :
                     /\ \A i \in 1 .. pd[1] - 1 : value[i] = Space
                     /\ value[pd[1]] # Space
                     /\ pd[1] <= pd[2] /\ value[pd[2]] = Dash
                     /\ LET s == Cuts(pd[1], pd[2]) IN Grammar(s[1], s[2])}
    IN br = IF Splits = {} THEN NoRange
            ELSE LET pd == CHOOSE x \in Splits : TRUE
                     s == Cuts(pd[1], pd[2])
                 IN Meaning(s[1], s[2])

\* A load of the configuration, whatever it fails at, neither leaks nor frees
\* what the configuration in use points at.
HeapExact == part = "config" => Configured!HeapExact

\* A load changes the configuration in use when it succeeds, and then wholly.
LoadIsAtomic ==
  [][part = "config" /\ cfg' # cfg =>
       \/ phase' = "idle" /\ result' = "ok" /\ cfg' = next
       \/ phase' = "exited"]_configuring

\* Credentials are asked for exactly where the file says so.
AccessAsConfigured == part = "config" => Configured!AccessAsConfigured

\* A response carries each header once, from the highest level that sets it.
HeadersByPrecedence == part = "config" => Configured!HeadersByPrecedence

\* No path gets any origin and credentials, whichever sections they come from.
NoWildcardWithCredentials == part = "config" => Configured!NoWildcardWithCredentials

\* The server sees the request that was sent, however it was cut into buffers.
SeenAsSent == part = "headers" => Headed!SeenAsSent

\* No two requests are given the same memory, nor one of them memory that was
\* freed or is in the cache.
MemoryIsOwn == part = "arena" => Arena!MemoryIsOwn

\* A target is resolved to the path it means, decoded once, or refused.
PathAsMeant == part = "path" => Located!PathAsMeant

\* The writer's file has the lines of each worker once, in order, and none that
\* was counted as dropped; when the writer has ended, every line was written or
\* counted.
LinesInOrder == part = "log" => Logged!LinesInOrder /\ Logged!ShutdownWritesAll
=============================================================================
