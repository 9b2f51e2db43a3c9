----------------------------- MODULE TileChunks -----------------------------
(***************************************************************************)
(* The cache of a pyramidal TIFF background on one output: BgChunkCache    *)
(* (render/tile_chunks.rs) and its pool of decoder threads                 *)
(* (render/tile_worker.rs).                                                *)
(*                                                                         *)
(* The render thread owns the cache, which is the record tile; it shares   *)
(* the queue of requests (pending, under a mutex and a condition variable) *)
(* and the channel of responses with the workers.  A step of a worker      *)
(* holds the mutex at most once.  Dropping the cache joins the workers,    *)
(* and the render thread does nothing else meanwhile.                      *)
(***************************************************************************)
EXTENDS ChunkGrid

CONSTANTS
    N_WORKERS,     \* decoder threads; 6 in the code
    UploadBudget,  \* textures uploaded per frame; 8 in the code
    BudgetBytes,   \* cache_budget_mb
    Broken         \* chunks whose decoding or upload can fail

ASSUME TileChunksAssumption ==
    /\ N_WORKERS \in Nat \ {0}
    /\ UploadBudget \in Nat \ {0}
    /\ BudgetBytes \in Nat

VARIABLES
    tile,        \* the cache, see NewTile
    shutdown,    \* QueueState.shutdown: the cache is being dropped
    pending,     \* QueueState.pending
    responses,   \* the channel back
    worker,      \* where each thread is
    job          \* the request a thread decodes

pool == <<shutdown, pending, responses, worker, job>>

Workers == 1..N_WORKERS
NoJob == <<>>

TargetLod(view) == PickLod(view.z, NLods)
TileLods(view) == TargetLod(view)..(Coarsest - 1)

\* The chunks of the per-tile levels that the cache asks for when it shows a view.
Wanted == [v \in Views |-> UNION {KeysAt(v, lod) : lod \in TileLods(v)}]

Keys == UNION {Wanted[v] : v \in Views}
Bytes == [k \in Keys |-> BlockBytes(k)]

\* The chunks in view, and the coarser ones that stand in for them.
Visible == [v \in Views |-> VisibilityQuery(v, ChunkSize[TargetLod(v)])]

Covering ==
    [v \in Views |-> {Ancestor(k, lod) : k \in KeysAt(v, TargetLod(v)), lod \in TileLods(v)}]

\* An empty cache: textures and their last touch, bytes, requests that are out,
\* chunks that failed, and the elements drawn.
NewTile == [chunks |-> {}, meta |-> <<>>, vram_bytes |-> 0, in_flight |-> {},
            failed |-> {}, elements |-> {}]

TileType == [chunks : SUBSET Keys, vram_bytes : Nat, in_flight : SUBSET Keys,
             failed : SUBSET Keys]

has_pending_loads == tile.in_flight # {}

-----------------------------------------------------------------------------
(* The workers *)

\* worker_loop, holding the mutex: leave, take a request, or wait.
WorkerTake(w) ==
    /\ worker[w] = "ready"
    /\ \/ /\ shutdown
          /\ worker' = [worker EXCEPT ![w] = "exited"]
          /\ UNCHANGED <<pending, job>>
       \/ /\ ~shutdown /\ pending # <<>>
          /\ worker' = [worker EXCEPT ![w] = "busy"]
          /\ job' = [job EXCEPT ![w] = Head(pending)]
          /\ pending' = Tail(pending)
       \/ /\ ~shutdown /\ pending = <<>>
          /\ worker' = [worker EXCEPT ![w] = "waiting"]
          /\ UNCHANGED <<pending, job>>
    /\ UNCHANGED <<tile, shutdown, responses>>

\* The condition variable wakes a thread that nobody notified.
SpuriousWakeup(w) ==
    /\ worker[w] = "waiting"
    /\ worker' = [worker EXCEPT ![w] = "ready"]
    /\ UNCHANGED <<tile, shutdown, pending, responses, job>>

\* read_block and send: the answer goes to the channel, in the order of the ends.
WorkerAnswer(w) ==
    /\ worker[w] = "busy"
    /\ \E ok \in IF Bytes[job[w]] = 0 THEN {FALSE}
                 ELSE IF job[w] \in Broken THEN BOOLEAN ELSE {TRUE} :
          responses' = Append(responses, [key |-> job[w], ok |-> ok])
    /\ worker' = [worker EXCEPT ![w] = "ready"]
    /\ job' = [job EXCEPT ![w] = NoJob]
    /\ UNCHANGED <<tile, shutdown, pending>>

-----------------------------------------------------------------------------
(* The life of the cache *)

\* WorkerPool::spawn, when a cache is made: every thread is about to look at the
\* empty queue.
Spawned == [w \in Workers |-> "ready"]

\* Drop for WorkerPool up to the joins: forget the requests, wake everybody.
SlipDropPool ==
    /\ shutdown' = TRUE
    /\ pending' = <<>>
    /\ UNCHANGED <<worker, tile, responses, job>>

DropPool ==
    /\ shutdown' = TRUE
    /\ pending' = <<>>
    /\ worker' = [w \in Workers |-> IF worker[w] = "waiting" THEN "ready" ELSE worker[w]]
    /\ UNCHANGED <<tile, responses, job>>

\* The last join returns and the cache is gone.
JoinPool ==
    /\ shutdown
    /\ \A w \in Workers : worker[w] = "exited"
    /\ shutdown' = FALSE
    /\ responses' = <<>>
    /\ tile' = NewTile
    /\ UNCHANGED <<pending, worker, job>>

-----------------------------------------------------------------------------
(* A frame of the cache: ensure_visible_loaded, then chunk_render_elements *)

\* drain_responses when uploads of the chunks of bad fail: how many answers it
\* takes from resp.
Uploads(resp, n, bad) == {i \in 1..n : resp[i].ok /\ resp[i].key \notin bad}

Drained(resp, bad) ==
    Min({Len(resp)} \cup {n \in 0..Len(resp) : Cardinality(Uploads(resp, n, bad)) = UploadBudget})

\* The cache c with the first n answers taken: bytes are counted, and chunks that
\* failed are never asked for again.
Drain(c, resp, n, bad) ==
    LET done == Uploads(resp, n, bad)
        new  == {resp[i].key : i \in done}
    IN  [c EXCEPT !.chunks = @ \cup new,
                  !.in_flight = @ \ {resp[i].key : i \in 1..n},
                  !.failed = @ \cup {resp[i].key : i \in 1..n \ done},
                  !.vram_bytes = @ + BytesOf(done, [i \in done |-> Bytes[resp[i].key]]),
                  !.meta = [k \in DOMAIN c.meta \cup new |->
                              IF k \in new THEN 0 ELSE Smaller(c.meta[k] + 1, MaxAge)]]

\* The chunks in view and the coarser ones that stand in for them are touched.
Stamp(c, view) ==
    [c EXCEPT !.meta = [k \in DOMAIN @ |-> IF k \in Covering[view] THEN 0 ELSE @[k]]]

\* The chunks to ask for.
SlipMissing(c, view) == Wanted[view] \ (c.chunks \cup c.failed)

Missing(c, view) == Wanted[view] \ (c.chunks \cup c.in_flight \cup c.failed)

\* The orders in which a frame enqueues the chunks of S: coarse levels first, one
\* level in the order of a HashSet.
EnqueueOrders(S) ==
    {s \in [1..Cardinality(S) -> S] :
        \A i, j \in DOMAIN s : i < j => s[i] # s[j] /\ s[i][1] >= s[j][1]}

\* One notify_one per request: as many waiting threads wake, if there are.
Notified(wk, n) ==
    LET waiting == {w \in Workers : wk[w] = "waiting"}
    IN  {[w \in Workers |-> IF w \in S THEN "ready" ELSE wk[w]] :
            S \in {T \in SUBSET waiting : Cardinality(T) = Smaller(n, Cardinality(waiting))}}

\* evict_over_budget, leaving out the chunks of E.
SlipEvict(c, E) ==
    [c EXCEPT !.chunks = @ \ E, !.vram_bytes = Larger(0, @ - BytesOf(E, Bytes))]

Evict(c, E) ==
    [c EXCEPT !.chunks = @ \ E,
              !.meta = [k \in DOMAIN @ \ E |-> @[k]],
              !.vram_bytes = Larger(0, @ - BytesOf(E, Bytes))]

\* chunk_render_elements: every visible chunk, or the finest cached one that
\* stands in for it, in each copy of the image.
Resolve(c, view) ==
    LET target == TargetLod(view)
        cached(q) == {lod \in TileLods(view) :
                        Ancestor(<<target, q[1], q[2]>>, lod) \in c.chunks}
        shown(q) == LET a == Ancestor(<<target, q[1], q[2]>>, Min(cached(q)))
                    IN  <<a[1], a[2], a[3], q[3], q[4]>>
    IN  [c EXCEPT !.elements =
            IF target >= Coarsest THEN {}
            ELSE {shown(q) : q \in {p \in Visible[view] :
                                      cached(p) # {}}}]

\* The whole frame of a cache c whose queue, channel and threads are given.
TileFrame(c, queue, resp, wk, view) ==
    \E bad \in SUBSET (Broken \cap {resp[i].key : i \in DOMAIN resp}) :
      LET n      == Drained(resp, bad)
          loaded == Stamp(Drain(c, resp, n, bad), view)
          wanted == Missing(loaded, view)
          asked  == [loaded EXCEPT !.in_flight = @ \cup wanted]
      IN  /\ responses' = SubSeq(resp, n + 1, Len(resp))
          /\ \E order \in EnqueueOrders(wanted) : pending' = queue \o order
          /\ worker' \in Notified(wk, Cardinality(wanted))
          /\ \E E \in Evictions(asked.meta, asked.vram_bytes, BudgetBytes, Bytes) :
                tile' = Resolve(Evict(asked, E), view)
          /\ UNCHANGED <<shutdown, job>>

-----------------------------------------------------------------------------
TileInit ==
    /\ tile = NewTile
    /\ shutdown = FALSE
    /\ pending = <<>>
    /\ responses = <<>>
    /\ worker = [w \in Workers |-> "exited"]
    /\ job = [w \in Workers |-> NoJob]

WorkerStep == \E w \in Workers : WorkerTake(w) \/ SpuriousWakeup(w) \/ WorkerAnswer(w)

TileTypeOK ==
    /\ [chunks |-> tile.chunks, vram_bytes |-> tile.vram_bytes,
        in_flight |-> tile.in_flight, failed |-> tile.failed] \in TileType
    /\ DOMAIN tile.meta = tile.chunks
    /\ \A k \in tile.chunks : tile.meta[k] \in 0..MaxAge
    /\ \A e \in tile.elements : <<e[1], e[2], e[3]>> \in Keys /\ <<e[4], e[5]>> \in Int \X Int
    /\ shutdown \in BOOLEAN
    /\ pending \in Seq(Keys)
    /\ responses \in Seq([key : Keys, ok : BOOLEAN])
    /\ worker \in [Workers -> {"ready", "waiting", "busy", "exited"}]
    /\ job \in [Workers -> Keys \cup {NoJob}]

-----------------------------------------------------------------------------
(* Properties *)

Queued(k) == {i \in DOMAIN pending : pending[i] = k}
Decoding(k) == {w \in Workers : worker[w] = "busy" /\ job[w] = k}
Answered(k) == {i \in DOMAIN responses : responses[i].key = k}

\* A chunk that is in flight is held in exactly one place, and nothing else is in
\* the queue, with a worker or in the channel.  So no chunk is decoded or uploaded
\* twice, and has_pending_loads ends when the last answer is drained.
RequestsAreHeld ==
    ~shutdown =>
      /\ \A k \in Keys :
           Cardinality(Queued(k)) + Cardinality(Decoding(k)) + Cardinality(Answered(k))
             = IF k \in tile.in_flight THEN 1 ELSE 0
      /\ tile.in_flight \cap (tile.chunks \cup tile.failed) = {}
      /\ tile.chunks \cap tile.failed = {}

\* The bytes the eviction works with are those of the textures there are, they fit
\* the budget after a frame, and what is drawn still has its texture.
VramIsCounted ==
    /\ tile.vram_bytes = BytesOf(tile.chunks, Bytes)
    /\ tile.vram_bytes <= BudgetBytes
    /\ \A e \in tile.elements : <<e[1], e[2], e[3]>> \in tile.chunks
=============================================================================
