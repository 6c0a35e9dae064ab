----------------------------- MODULE StaticServe -----------------------------
(***************************************************************************)
(* Serving a static file: static_serve_try_prepare_docroot_response from   *)
(* the opening of the file to the response staged for sending, and the     *)
(* sending of the body, while other processes replace files of the         *)
(* docroot.                                                                *)
(*                                                                         *)
(* A file is an inode; a name of the docroot holds an inode or NoFile.     *)
(* The body of a response is a run of bytes of one inode, either raw or    *)
(* compressed by the server.                                               *)
(***************************************************************************)
EXTENDS HttpRange

CONSTANTS
  Sizes,         \* sizes of the files
  SendfileMin,   \* SENDFILE_MIN_BYTES
  DynMin, DynMax,\* compression_dynamic_min_bytes, compression_dynamic_max_bytes
  RangeHdrs,     \* ranges a request may carry, parsed; NoRange is an invalid one
  ClientTags,    \* ETags a client may send in If-Range and If-None-Match
  MaxChanges,    \* how many times files of the docroot are replaced
  Faults         \* what may fail: a subset of FaultKinds

\* malloc of the body, read of the file, building of the headers, policy headers
\* that do not fit, a Content-Encoding header that does not fit.
FaultKinds == {"malloc", "read", "headers", "policy", "ce"}

ConstantsOK ==
  /\ Sizes \subseteq Nat
  /\ SendfileMin \in Nat /\ DynMin \in Nat /\ DynMax \in Nat /\ MaxChanges \in Nat
  /\ Faults \subseteq FaultKinds /\ DynMin > 0

\* Inodes 1.. hold plain files; each precompressed sibling has one inode.
Plain == 1 .. 1 + MaxChanges
Sibling == [br |-> 2 + MaxChanges, gzip |-> 3 + MaxChanges]
Dir == 4 + MaxChanges
NoFile == 0
Inodes == 1 .. Dir
Encodings == {"br", "gzip"}
EncodingOf(ino) ==
  IF \E e \in Encodings : Sibling[e] = ino THEN CHOOSE e \in Encodings : Sibling[e] = ino
  ELSE "identity"
SiblingSize == 1

\* The inode and the size stand for what the ETag is made of.
Tag(i, n) == [ino |-> i, n |-> n]
NoTag == Tag(NoFile, 0)

Requests ==
  [method : {"GET", "HEAD"}, tls : BOOLEAN, accepted : SUBSET Encodings,
   slash : BOOLEAN, dynamic : BOOLEAN, has_range : BOOLEAN, range : RangeHdrs,
   if_range : ClientTags, none_match : ClientTags]

VARIABLES
  disk,      \* the inode under each name of the docroot, or NoFile
  size,      \* [Inodes -> Nat]: bytes of each inode
  req,       \* the request
  pc,        \* the next step of the handler
  fd,        \* the inode the local fd refers to, or NoFile for -1
  open,      \* how many descriptors are open
  fsz,       \* the local fsz
  enc,       \* serving_enc: "identity" for 0
  hdr,       \* validator_hdrs: the ETag and the Content-Encoding in it
  rr,        \* the resolved range, or Unsatisfiable outside the range path
  resp       \* the response staged, or NoResp

vars == <<disk, size, req, pc, fd, open, fsz, enc, hdr, rr, resp>>
env == <<disk, size, req>>
locals == <<fsz, enc, hdr, rr>>

NoBody == [ino |-> NoFile, how |-> "raw", from |-> 0, n |-> 0]
NoHdr == [tag |-> NoTag, ce |-> "identity"]
NoResp == [status |-> 0, clen |-> 0, hdr |-> NoHdr, body |-> NoBody, file |-> FALSE, sent |-> 0]

Init ==
  /\ disk \in [identity : {NoFile, 1, Dir}, br : {NoFile, Sibling.br},
               gzip : {NoFile, Sibling.gzip}]
  /\ \E s \in [Plain -> Sizes] :
       size = [i \in Inodes |-> IF i \in Plain THEN s[i] ELSE IF i = Dir THEN 0 ELSE SiblingSize]
  /\ req \in {r \in Requests : ~r.has_range => r.range = NoRange /\ r.if_range = NoTag}
  /\ pc = "open" /\ fd = NoFile /\ open = 0
  /\ fsz = 0 /\ enc = "identity" /\ hdr = NoHdr /\ rr = Unsatisfiable
  /\ resp = NoResp

\* Another process replaces the file under its name; who has the old one open
\* keeps it.
Replace ==
  /\ disk.identity \in Plain /\ disk.identity + 1 \in Plain
  /\ pc # "sent"
  /\ disk' = [disk EXCEPT !.identity = @ + 1]
  /\ UNCHANGED <<size, req, pc, fd, open, fsz, enc, hdr, rr, resp>>

\* The function ends: fd is closed, and either r is staged or the dispatcher
\* answers with an error response.
Fallback == [NoResp EXCEPT !.status = 404]
Bare(status) == [NoResp EXCEPT !.status = status, !.hdr = hdr]
Return(r) ==
  /\ open' = open - (IF fd # NoFile THEN 1 ELSE 0)
  /\ fd' = NoFile
  /\ resp' = r
  /\ pc' = "send"
  /\ UNCHANGED locals

\* A response without a body; its headers may fail to be built.
ReturnHeaders(r) == Return(r) \/ ("headers" \in Faults /\ Return(Fallback))

\* static_serve_openat_beneath_nofollow and fstat.  A directory is redirected
\* to its name with a slash.
Open ==
  /\ pc = "open"
  /\ IF disk.identity \in Plain
     THEN /\ fd' = disk.identity /\ open' = open + 1
          /\ fsz' = size[disk.identity]
          /\ pc' = "probe"
          /\ UNCHANGED <<enc, hdr, rr, resp>>
     ELSE IF disk.identity = Dir /\ ~req.slash THEN ReturnHeaders([NoResp EXCEPT !.status = 301])
     ELSE Return(Fallback)
  /\ UNCHANGED env

\* The sibling to serve: one the client accepts, brotli first, never for a
\* range.
Usable == IF req.has_range THEN {} ELSE {e \in req.accepted : disk[e] # NoFile}
Preferred == IF "br" \in Usable THEN "br" ELSE "gzip"

\* The probe for a sibling, and static_serve_assemble_extra_headers_ex, which
\* writes the validators and the encoding of the file chosen.
Probe_early ==
  /\ pc = "probe"
  /\ IF Usable # {}
     THEN fd' = disk[Preferred] /\ fsz' = size[disk[Preferred]] /\ enc' = Preferred
     ELSE UNCHANGED <<fd, fsz, enc>>
  /\ hdr' = [tag |-> Tag(fd, fsz), ce |-> enc']
  /\ pc' = "choose"
  /\ UNCHANGED <<open, rr, resp>> /\ UNCHANGED env
Probe ==
  /\ pc = "probe"
  /\ IF Usable # {}
     THEN fd' = disk[Preferred] /\ fsz' = size[disk[Preferred]] /\ enc' = Preferred
     ELSE UNCHANGED <<fd, fsz, enc>>
  /\ hdr' = [tag |-> Tag(fd', fsz'), ce |-> enc']
  /\ pc' = "choose"
  /\ UNCHANGED <<open, rr, resp>> /\ UNCHANGED env

\* The Content-Encoding header does not fit: the plain file is opened again.
ProbeUnfit ==
  /\ pc = "probe" /\ "ce" \in Faults /\ Usable # {}
  /\ IF disk.identity \in Plain
     THEN /\ fd' = disk.identity /\ fsz' = size[disk.identity]
          /\ hdr' = [tag |-> Tag(disk[Preferred], size[disk[Preferred]]), ce |-> "identity"]
          /\ pc' = "choose"
          /\ UNCHANGED <<open, enc, rr, resp>>
     ELSE Return(Fallback)
  /\ UNCHANGED env

\* static_serve_if_range_matches, for a tag.
if_range_ignored == TRUE
if_range_matches == req.if_range \in {NoTag, hdr.tag}
\* static_serve_check_not_modified, for a tag.
not_modified == req.none_match # NoTag /\ req.none_match = hdr.tag

dyn_eligible ==
  /\ enc = "identity" /\ req.dynamic /\ req.method = "GET"
  /\ ~req.has_range /\ req.accepted # {}
  /\ fsz \in DynMin .. DynMax

\* request_build_static_serve_plan for n bytes, with sendfile ruled out for TLS
\* and for compression.
Mode(n, compress) ==
  IF req.method = "HEAD" THEN "head"
  ELSE IF n \in 1 .. SendfileMin - 1 \/ req.tls \/ compress THEN "read" ELSE "sendfile"

\* The decisions that follow, in the code's order: policy headers that do not
\* fit, not modified, a range, the whole file.
Choose ==
  /\ pc = "choose"
  /\ \/ "policy" \in Faults /\ Return([NoResp EXCEPT !.status = 500])
     \/ not_modified /\ ReturnHeaders(Bare(304))
     \/ /\ ~not_modified
        /\ LET ranged == req.has_range /\ req.method = "GET" /\ req.range.valid /\ if_range_matches
               range == http_range_resolve(req.range, fsz)
           IN IF ranged /\ ~range.satisfiable THEN ReturnHeaders(Bare(416))
              ELSE /\ rr' = IF ranged THEN range ELSE rr
                   /\ pc' = IF ranged THEN Mode(range.length, FALSE) ELSE Mode(fsz, dyn_eligible)
                   /\ UNCHANGED <<fd, open, fsz, enc, hdr, resp>>
  /\ UNCHANGED env

ServeHead ==
  /\ pc = "head"
  /\ ReturnHeaders([Bare(200) EXCEPT !.clen = fsz])
  /\ UNCHANGED env

Partial == rr.satisfiable
From == IF Partial THEN rr.start ELSE 0
Bytes == IF Partial THEN rr.length ELSE fsz

\* The file, or the range, is read into memory, compressed where that makes it
\* smaller, and staged.
ReadWhole ==
  /\ pc = "read"
  /\ \E e \in {"identity"} \cup (IF dyn_eligible THEN req.accepted ELSE {}) :
       LET n == IF e = "identity" THEN Bytes ELSE fsz - 1
       IN Return([Bare(IF Partial THEN 206 ELSE 200) EXCEPT
                    !.clen = n,
                    !.hdr.ce = IF e = "identity" THEN @ ELSE e,
                    !.body = [ino |-> fd, how |-> IF e = "identity" THEN "raw" ELSE e,
                              from |-> From, n |-> n]])
  /\ UNCHANGED env

\* Something failed.  TLS gives up; else the file is opened by its name again
\* for sendfile.  A failed malloc leaves fd open: a range goes on with it, a
\* whole file overwrites it.  Headers that could not be built leave the size
\* and the encoding of the compressed body behind.
ReadFails ==
  /\ pc = "read"
  /\ \E fault \in Faults \cap {"malloc", "read", "headers"} :
       IF req.tls THEN Return(Fallback)
       ELSE /\ pc' = "sendfile"
            /\ IF fault = "malloc" /\ Partial THEN UNCHANGED <<fd, open>>
               ELSE /\ fd' = disk.identity
                    /\ open' = open + (IF fault = "malloc" THEN 1 ELSE 0)
            /\ IF fault = "headers" /\ dyn_eligible
               THEN \/ UNCHANGED <<fsz, enc>>
                    \/ fsz' = fsz - 1 /\ enc' \in req.accepted
               ELSE UNCHANGED <<fsz, enc>>
            /\ UNCHANGED <<hdr, rr, resp>>
  /\ UNCHANGED env

\* The response is staged with the file attached to it.
Sendfile_leak ==
  /\ pc = "sendfile"
  /\ resp' = [Bare(IF Partial THEN 206 ELSE 200) EXCEPT
                !.clen = Bytes,
                !.body = IF Bytes = 0 THEN NoBody
                         ELSE [ino |-> fd, how |-> "raw", from |-> From, n |-> Bytes],
                !.file = Bytes > 0]
  /\ fd' = NoFile
  /\ pc' = "send"
  /\ UNCHANGED <<open, locals, env>>
Sendfile ==
  /\ pc = "sendfile"
  /\ \/ "headers" \in Faults /\ Return(Fallback)
     \/ LET r == [Bare(IF Partial THEN 206 ELSE 200) EXCEPT !.clen = Bytes]
        IN IF Bytes = 0 THEN Return(r)
           ELSE /\ resp' = [r EXCEPT !.body = [ino |-> fd, how |-> "raw", from |-> From, n |-> Bytes],
                                     !.file = TRUE]
                /\ fd' = NoFile
                /\ pc' = "send"
                /\ UNCHANGED <<open, locals>>
  /\ UNCHANGED env

\* The body is sent.  A file that ends early ends the connection; the attached
\* file is closed in either case.
Send ==
  /\ pc = "send"
  /\ LET b == resp.body
         left == IF size[b.ino] > b.from THEN size[b.ino] - b.from ELSE 0
     IN resp' = [resp EXCEPT !.sent = IF b.ino = NoFile THEN 0
                                      ELSE IF resp.file /\ left < b.n THEN left ELSE b.n]
  /\ open' = open - (IF resp.file THEN 1 ELSE 0)
  /\ pc' = "sent"
  /\ UNCHANGED <<fd, locals, env>>

Next ==
  \/ Replace \/ Open \/ Probe \/ ProbeUnfit \/ Choose \/ ServeHead
  \/ ReadWhole \/ ReadFails \/ Sendfile \/ Send
Spec == Init /\ [][Next]_vars

-----------------------------------------------------------------------------
TypeOK ==
  /\ disk \in [identity : Inodes \cup {NoFile}, br : Inodes \cup {NoFile},
               gzip : Inodes \cup {NoFile}]
  /\ size \in [Inodes -> Nat] /\ req \in Requests
  /\ pc \in {"open", "probe", "choose", "head", "read", "sendfile", "send", "sent"}
  /\ fd \in Inodes \cup {NoFile} /\ open \in Nat /\ fsz \in Nat
  /\ enc \in Encodings \cup {"identity"}

Complete == pc = "sent" /\ resp.sent = resp.body.n

\* Every descriptor the handler opened is closed once the response is sent: by
\* the handler, or by the transmission the file was attached to.
DescriptorsClosed == pc = "sent" => open = 0

\* The Content-Encoding a response announces is the encoding of its bytes, of a
\* sibling file and of dynamic compression ("look for a .br or .gz file next to
\* the requested path and serve it if the client advertises the encoding").
EncodingAsAnnounced ==
  Complete /\ resp.body # NoBody =>
    resp.hdr.ce = IF resp.body.how = "raw" THEN EncodingOf(resp.body.ino) ELSE resp.body.how

\* A complete 200 to GET carries all of one version of the file, the one its
\* ETag names, also when the file is replaced meanwhile.
WholeVersion ==
  Complete /\ resp.status = 200 /\ req.method = "GET" =>
    LET t == resp.hdr.tag
    IN /\ size[t.ino] = t.n
       /\ IF resp.body = NoBody THEN t.n = 0
          ELSE /\ resp.body.ino = t.ino /\ resp.body.from = 0
               /\ resp.body.how = "raw" => resp.body.n = t.n

\* A range is answered by its bytes of the plain file the ETag names, or by 416
\* when it has none; it is honoured only if If-Range names that same version.
RangeAsAsked ==
  Complete /\ resp.status \in {206, 416} =>
    LET t == resp.hdr.tag
    IN /\ t.ino \in Plain /\ req.if_range \in {NoTag, t}
       /\ (resp.status = 416) = (Asked(req.range, t.n) = {})
       /\ resp.status = 206 =>
            /\ resp.body.ino = t.ino /\ resp.clen = resp.body.n
            /\ resp.body.from .. resp.body.from + resp.body.n - 1 = Asked(req.range, t.n)
=============================================================================
