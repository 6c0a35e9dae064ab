------------------------------ MODULE ReqArena ------------------------------
(***************************************************************************)
(* The memory of requests: req_arena.h.  Each connection has a list of     *)
(* chunks from which its target, paths and headers are cut; a worker keeps *)
(* a cache of chunks of the smallest size for all its connections.         *)
(***************************************************************************)
EXTENDS Naturals, SequencesExt

CONSTANTS
  Conns,       \* connections of one worker
  Chunks,      \* addresses malloc may return
  ChunkMin,    \* REQ_ARENA_CHUNK_MIN
  RetainMax,   \* REQ_ARENA_RETAIN_MAX
  CacheCap,    \* REQ_ARENA_CHUNK_CACHE_CAP
  Sizes,       \* sizes that are asked for
  Aligns,      \* alignments that are asked for
  MaxBlocks    \* bound: blocks a request holds at a time

ConstantsOK == ChunkMin > 0 /\ CacheCap \in Nat /\ 0 \notin Aligns

VARIABLES
  chunk,    \* [chunks that are allocated -> their cap and off]
  list,     \* [Conns -> chunks of its arena from head to tail]
  cache,    \* g_req_arena_chunk_cache, the next one to take first
  blocks    \* [Conns -> the memory its request was given: chunk, from, to]

vars == <<chunk, list, cache, blocks>>

Init ==
  /\ chunk = <<>>
  /\ list = [c \in Conns |-> <<>>]
  /\ cache = <<>>
  /\ blocks = [c \in Conns |-> {}]

-----------------------------------------------------------------------------
\* A block of n bytes behind off, and whether it fits.
Aligned(off, align) == ((off + align - 1) \div align) * align
Fits(k, n, align) == Aligned(chunk[k].off, align) + n <= chunk[k].cap

Give(c, k, from, n) ==
  blocks' = [blocks EXCEPT ![c] = @ \union {[chunk |-> k, from |-> from, to |-> from + n]}]

\* req_arena_alloc from the last chunk of the arena.
AllocTail(c, n, align) ==
  LET k == Last(list[c]) IN
  /\ list[c] # <<>> /\ Fits(k, n, align)
  /\ chunk' = [chunk EXCEPT ![k].off = Aligned(@, align) + n]
  /\ Give(c, k, Aligned(chunk[k].off, align), n)
  /\ UNCHANGED <<list, cache>>

\* req_arena_alloc when a new chunk is needed, and req_arena_new_chunk: from
\* the cache, or from malloc.  A malloc that fails leaves all as it was.
Capacity(n, align) == Max({n + align, ChunkMin})
NeedsChunk(c, n, align) == list[c] # <<>> => ~Fits(Last(list[c]), n, align)
FromCache(n, align) == Capacity(n, align) = ChunkMin /\ cache # <<>>
Link(c, k, n) == list' = [list EXCEPT ![c] = Append(@, k)] /\ Give(c, k, 0, n)

AllocCached(c, n, align) ==
  LET k == Head(cache) IN
  /\ NeedsChunk(c, n, align) /\ FromCache(n, align)
  /\ cache' = Tail(cache)
  /\ chunk' = [chunk EXCEPT ![k] = [cap |-> ChunkMin, off |-> n]]
  /\ Link(c, k, n)

AllocNew(c, n, align) ==
  /\ NeedsChunk(c, n, align) /\ ~FromCache(n, align)
  /\ \E k \in Chunks \ DOMAIN chunk :
       /\ chunk' = [x \in DOMAIN chunk \union {k} |->
                      IF x = k THEN [cap |-> Capacity(n, align), off |-> n] ELSE chunk[x]]
       /\ Link(c, k, n)
  /\ UNCHANGED cache

-----------------------------------------------------------------------------
\* req_arena_release_chunk for each chunk of a list in turn: to the cache if it
\* has the size and there is room, else to free().
Cacheable(k, held) == chunk[k].cap = ChunkMin /\ Len(held) < CacheCap
Released(ks, held) == FoldLeft(LAMBDA h, k : IF Cacheable(k, h) THEN <<k>> \o h ELSE h, held, ks)
Release(ks, kept) ==
  /\ cache' = Released(ks, cache)
  /\ chunk' = [k \in (DOMAIN chunk \ ToSet(ks)) \union ToSet(Released(ks, cache)) |->
                 IF k \in ToSet(ks \o kept) THEN [chunk[k] EXCEPT !.off = 0] ELSE chunk[k]]

\* req_arena_reset between two requests: the first chunk stays unless it is large.
Kept(c) == IF chunk[Head(list[c])].cap > RetainMax THEN <<>> ELSE <<Head(list[c])>>
req_arena_reset(c) ==
  /\ list[c] # <<>>
  /\ Release(SelectSeq(Tail(list[c]) \o <<Head(list[c])>>, LAMBDA k : k \notin ToSet(Kept(c))), Kept(c))
  /\ list' = [list EXCEPT ![c] = Kept(c)]
  /\ blocks' = [blocks EXCEPT ![c] = {}]

\* req_arena_destroy when the connection is recycled.
destroy_keeps_list(c) ==
  /\ list[c] # <<>>
  /\ Release(list[c], <<>>)
  /\ blocks' = [blocks EXCEPT ![c] = {}]
  /\ UNCHANGED list
req_arena_destroy(c) ==
  /\ list[c] # <<>>
  /\ Release(list[c], <<>>)
  /\ list' = [list EXCEPT ![c] = <<>>]
  /\ blocks' = [blocks EXCEPT ![c] = {}]

\* req_arena_cache_destroy_tls when the worker ends.
req_arena_cache_destroy_tls ==
  /\ cache # <<>>
  /\ cache' = <<>>
  /\ chunk' = Restrict(chunk, DOMAIN chunk \ ToSet(cache))
  /\ UNCHANGED <<list, blocks>>

Next ==
  \/ \E c \in Conns, n \in Sizes, align \in Aligns :
       /\ Cardinality(blocks[c]) < MaxBlocks
       /\ AllocTail(c, n, align) \/ AllocCached(c, n, align) \/ AllocNew(c, n, align)
  \/ \E c \in Conns : req_arena_reset(c) \/ req_arena_destroy(c)
  \/ req_arena_cache_destroy_tls
Spec == Init /\ [][Next]_vars

-----------------------------------------------------------------------------
TypeOK ==
  /\ DOMAIN chunk \subseteq Chunks
  /\ \A k \in DOMAIN chunk : chunk[k].cap >= ChunkMin /\ chunk[k].off <= chunk[k].cap
  /\ list \in [Conns -> Seq(Chunks)] /\ cache \in Seq(Chunks)

\* Where a chunk is linked: once in the cache or once in one arena.
Places(k) ==
  {<<"cache", i>> : i \in {j \in DOMAIN cache : cache[j] = k}}
  \union UNION {{<<c, i>> : i \in {j \in DOMAIN list[c] : list[c][j] = k}} : c \in Conns}
Apart(b, d) == b.chunk # d.chunk \/ b.to <= d.from \/ d.to <= b.from

\* The memory that a request was given is its own until the request is over:
\* it lies inside a chunk of its connection's arena, no two blocks of any
\* requests overlap, a chunk is never both in the cache and in an arena or in
\* two arenas, and every chunk that malloc gave can still be found
\* (req_arena_alloc, _reset and _destroy share chunks through the cache).
MemoryIsOwn ==
  /\ \A c \in Conns : \A b \in blocks[c] :
       b.chunk \in ToSet(list[c]) /\ b.to <= chunk[b.chunk].off /\ b.to <= chunk[b.chunk].cap
  /\ \A c, d \in Conns : \A b \in blocks[c], e \in blocks[d] : (c = d /\ b = e) \/ Apart(b, e)
  /\ \A k \in DOMAIN chunk : Cardinality(Places(k)) = 1
  /\ ToSet(cache) \subseteq DOMAIN chunk /\ \A c \in Conns : ToSet(list[c]) \subseteq DOMAIN chunk
  /\ Len(cache) <= CacheCap
=============================================================================
